---------------------------- MODULE ContentProofs ----------------------------
(* Theorems about Content for all values of its constants: any number of    *)
(* devices and of calls under way, any devices.json, hints and deadlines.   *)
EXTENDS Content, FiniteSetTheorems, WellFoundedInduction, TLAPS

Picture(f, d) == f # NoFrame /\ f.dev = d

(* What a call works for, from its lookup to its answer.                    *)
JobInv ==
  /\ \A d \in DOMAIN store : Renders(store[d])
  /\ main = "boot" => \A r \in Requests : pc[r] = "idle"
  /\ main = "boot" => \A d \in Devices : cache[d] = NoFrame
  /\ \A r \in Requests :
       pc[r] # "idle" => /\ job[r] # NoJob
                         /\ job[r].dev \in DOMAIN store
                         /\ Renders(job[r].size)

(* Whose page a frame shows and how old it is, from the render on.          *)
FrameInv ==
  /\ \A d \in Devices :
       cache[d] # NoFrame => /\ Picture(cache[d], d)
                             /\ cache[d].seen <= age[d] + RenderMax
  /\ \A r \in Requests :
       pc[r] \in {"store", "answer"} => Picture(got[r], job[r].dev)
  /\ \A r \in Requests : pc[r] = "store" => got[r].seen <= RenderMax
  /\ ServedFresh

-----------------------------------------------------------------------------
LEMMA ConstantFacts ==
  /\ TTL \in Nat /\ TTL > 0 /\ RenderMax \in Nat
  /\ Old \in Nat /\ Old = TTL + RenderMax
BY ContentAssumption DEF Old

LEMMA FrameFields ==
  ASSUME NEW f \in Frame
  PROVE  /\ f # NoFrame
         /\ f.dev \in Devices /\ f.size \in Int \X Int
         /\ f.seen \in 0..Old
<1>1. f \in [dev : Devices, size : Int \X Int, seen : Nat]
  BY ConstantFacts DEF Frame
<1> QED
  BY <1>1, ContentAssumption DEF Frame

(* Of the configurations with one id there is a last one.                   *)
LEMMA LastExists ==
  ASSUME NEW doc \in Seq(Config), NEW d \in Ids(doc)
  PROVE  \E i \in DOMAIN doc :
           doc[i].id = d /\ \A j \in DOMAIN doc : doc[j].id = d => j <= i
<1> DEFINE n == Len(doc)
           S == 1..n
           Tails == {i..n : i \in {k \in S : doc[k].id = d}}
<1>1. n \in Nat /\ DOMAIN doc = S
  OBVIOUS
<1>2. IsFiniteSet(S)
  BY <1>1, FS_Interval
<1>3. Tails \subseteq FiniteSubsetsOf(S)
  <2> SUFFICES ASSUME NEW T \in Tails
               PROVE  T \in FiniteSubsetsOf(S)
    OBVIOUS
  <2>1. PICK i \in S : T = i..n
    OBVIOUS
  <2>2. T \in SUBSET S
    BY <1>1, <2>1
  <2> QED
    BY <1>2, <2>2, FS_Subset DEF FiniteSubsetsOf
<1>4. Tails # {}
  BY <1>1 DEF Ids
<1> HIDE DEF Tails
<1>5. PICK T \in Tails :
        \A U \in Tails : ~(<<U, T>> \in StrictSubsetOrdering(S))
  BY <1>3, <1>4, FS_StrictSubsetOrderingWellFounded, WFMin
<1> USE DEF Tails
<1>6. PICK i \in S : doc[i].id = d /\ T = i..n
  OBVIOUS
<1>7. ASSUME NEW j \in S, doc[j].id = d, j > i
      PROVE  FALSE
  <2>1. j..n \in Tails /\ j..n \in SUBSET S /\ T \in SUBSET S
    BY <1>1, <1>6, <1>7
  <2>2. j..n \subseteq T /\ j..n # T
    BY <1>1, <1>6, <1>7
  <2> HIDE DEF Tails
  <2> QED
    BY <2>1, <2>2, <1>5 DEF StrictSubsetOrdering
<1> QED
  BY <1>1, <1>6, <1>7

(* What main serves after devices.json: registered are devices, each in a   *)
(* size that the renderer takes.                                            *)
LEMMA LoadStoreFacts ==
  ASSUME NEW doc \in Docs, \A i \in DOMAIN doc : Valid(doc[i])
  PROVE  /\ DOMAIN LoadStore(doc) \subseteq Devices
         /\ \A d \in DOMAIN LoadStore(doc) :
              LoadStore(doc)[d] \in Int \X Int /\ Renders(LoadStore(doc)[d])
<1>1. doc \in Seq(Config)
  BY ContentAssumption
<1>2. \A i \in DOMAIN doc : doc[i] \in Config
  BY <1>1
<1>3. DOMAIN LoadStore(doc) = Ids(doc)
  BY DEF LoadStore
<1>4. Ids(doc) \subseteq Devices
  BY <1>2 DEF Ids, Valid, Config
<1>5. ASSUME NEW d \in Ids(doc)
      PROVE  \E i \in DOMAIN doc : LoadStore(doc)[d] = doc[i].size
  <2> DEFINE IsLast(i) == /\ doc[i].id = d
                          /\ \A j \in DOMAIN doc : doc[j].id = d => j <= i
             last == CHOOSE i \in DOMAIN doc : IsLast(i)
  <2>1. \E i \in DOMAIN doc : IsLast(i)
    BY <1>1, LastExists
  <2> HIDE DEF IsLast
  <2>2. last \in DOMAIN doc
    BY <2>1
  <2>3. LoadStore(doc)[d] = doc[last].size
    BY DEF LoadStore, IsLast
  <2> QED
    BY <2>2, <2>3
<1> QED
  BY <1>2, <1>3, <1>4, <1>5 DEF Valid, Config

-----------------------------------------------------------------------------
-----------------------------------------------------------------------------
LEMMA UptoFacts ==
  ASSUME NEW n \in Nat, NEW max \in Nat, n <= max
  PROVE  /\ Upto(n, max) \in 0..max
         /\ Upto(n, max) = max \/ Upto(n, max) = n + 1
         /\ n < max => Upto(n, max) = n + 1
BY DEF Upto

LEMMA SizeType ==
  ASSUME TypeOK, NEW d \in DOMAIN store, NEW hint \in Hints[d]
  PROVE  /\ d \in Devices
         /\ hint \in Int \X Int
         /\ RenderSize(d, hint) \in Int \X Int
BY ContentAssumption DEF TypeOK, RenderSize

LEMMA JobFields ==
  ASSUME NEW j \in [dev : Devices, size : Int \X Int]
  PROVE  j # NoJob /\ j.dev \in Devices /\ j.size \in Int \X Int
BY ContentAssumption

(* The variables keep to their types.                                       *)
LEMMA TypeInit == Init => TypeOK
BY ConstantFacts DEF Init, TypeOK

LEMMA TypeStep == TypeOK /\ JobInv /\ FrameInv /\ [Next]_vars => TypeOK'
<1> SUFFICES ASSUME TypeOK, JobInv, FrameInv, [Next]_vars
             PROVE  TypeOK'
  OBVIOUS
<1> USE ConstantFacts
<1>1. CASE Load
  <2>1. CASE UNCHANGED store
    BY <1>1, <2>1 DEF Load, TypeOK, calls
  <2>2. CASE \E doc \in Docs : /\ \A i \in DOMAIN doc : Valid(doc[i])
                              /\ store' = LoadStore(doc)
    BY <1>1, <2>2, LoadStoreFacts DEF Load, TypeOK, calls
  <2> QED
    BY <1>1, <2>1, <2>2 DEF Load
<1>2. CASE Warmup \/ Start \/ Signal \/ Stopped
  BY <1>2 DEF Warmup, Start, Signal, Stopped, TypeOK, calls
<1>3. CASE Tick
  <2>1. cache' \in [Devices -> Frame \cup {NoFrame}]
    <3> SUFFICES ASSUME NEW d \in Devices, cache[d] # NoFrame
                 PROVE  [cache[d] EXCEPT !.seen = Upto(@, Old)] \in Frame
      BY <1>3 DEF Tick
    <3>1. cache[d] \in Frame
      BY DEF TypeOK
    <3>2. Upto(cache[d].seen, Old) \in 0..Old
      BY <3>1, FrameFields, UptoFacts
    <3> QED
      BY <3>1, <3>2 DEF Frame
  <2>2. age' \in [Devices -> 0..TTL]
    BY <1>3, UptoFacts DEF Tick, TypeOK
  <2>3. busy' \in 0..RenderMax
    BY <1>3, UptoFacts DEF Tick, TypeOK
  <2> QED
    BY <1>3, <2>1, <2>2, <2>3 DEF Tick, TypeOK
<1>4. ASSUME NEW r \in Requests, NEW d \in Devices, NEW hint \in Hints[d],
             GetFrame(r, d, hint)
      PROVE  TypeOK'
  <2>1. RenderSize(d, hint) \in Int \X Int
    BY <1>4, SizeType DEF GetFrame
  <2> QED
    BY <1>4, <2>1 DEF GetFrame, TypeOK, server
<1>5. ASSUME NEW r \in Requests, Step(r)
      PROVE  TypeOK'
  <2>1. pc[r] # "idle" => Key(r) \in Devices /\ job[r].size \in Int \X Int
    BY JobFields DEF TypeOK, JobInv, Key
  <2>2. CASE CacheHit(r)
    BY <2>1, <2>2 DEF CacheHit, TypeOK, server
  <2>3. CASE CacheMiss(r)
    BY <2>3 DEF CacheMiss, TypeOK, server
  <2>4. CASE RenderOK(r)
    <3>1. [dev |-> job[r].dev, size |-> job[r].size, seen |-> busy] \in Frame
      BY <2>1, <2>4 DEF RenderOK, TypeOK, Frame, Key
    <3> QED
      BY <2>4, <3>1 DEF RenderOK, Unlock, TypeOK, server
  <2>5. CASE RenderFails(r)
    BY <2>5 DEF RenderFails, Unlock, TypeOK, server
  <2>6. CASE StoreFrame(r)
    <3>1. got[r] \in Frame
      BY <2>6 DEF StoreFrame, FrameInv, Picture, TypeOK
    <3> QED
      BY <2>1, <2>6, <3>1 DEF StoreFrame, TypeOK, server
  <2>7. CASE Reply(r)
    BY <2>7 DEF Reply, TypeOK, server
  <2>8. CASE Lock(r)
    BY <2>8 DEF Lock, TypeOK, server
  <2> QED
    BY <1>5, <2>2, <2>3, <2>4, <2>5, <2>6, <2>7, <2>8 DEF Step, Prompt
<1>6. CASE UNCHANGED vars
  BY <1>6 DEF TypeOK, vars, server, calls
<1> QED
  BY <1>1, <1>2, <1>3, <1>4, <1>5, <1>6 DEF Next

-----------------------------------------------------------------------------
(* The store stays as it is once there are calls.                           *)
LEMMA JobStep == TypeOK /\ JobInv /\ FrameInv /\ [Next]_vars => JobInv'
<1> SUFFICES ASSUME TypeOK, JobInv, FrameInv, [Next]_vars
             PROVE  JobInv'
  OBVIOUS
<1>1. CASE Load
  <2>1. CASE UNCHANGED store
    BY <1>1, <2>1 DEF Load, JobInv, calls
  <2>2. CASE \E doc \in Docs : /\ \A i \in DOMAIN doc : Valid(doc[i])
                              /\ store' = LoadStore(doc)
    BY <1>1, <2>2, LoadStoreFacts DEF Load, JobInv, calls
  <2> QED
    BY <1>1, <2>1, <2>2 DEF Load
<1>2. ASSUME UNCHANGED store, main' = "boot" => main = "boot" /\ UNCHANGED cache,
             \A r \in Requests :
               \/ pc'[r] = "idle"
               \/ pc[r] # "idle" /\ job'[r] = job[r] /\ main' # "boot"
      PROVE  JobInv'
  BY <1>2 DEF JobInv
<1>3. CASE Warmup \/ Start \/ Signal \/ Stopped
  BY <1>3 DEF Warmup, Start, Signal, Stopped, JobInv, calls
<1>4. CASE Tick
  BY <1>4 DEF Tick, Passes, JobInv
<1>5. ASSUME NEW r \in Requests, NEW d \in Devices, NEW hint \in Hints[d],
             GetFrame(r, d, hint)
      PROVE  JobInv'
  <2>1. d \in DOMAIN store /\ Renders(RenderSize(d, hint))
    BY <1>5 DEF GetFrame, JobInv, RenderSize, Renders
  <2>2. RenderSize(d, hint) \in Int \X Int
    BY <2>1, SizeType
  <2>3. [dev |-> d, size |-> RenderSize(d, hint)] # NoJob
    BY <2>2, JobFields
  <2>4. job'[r] = [dev |-> d, size |-> RenderSize(d, hint)]
    BY <1>5 DEF GetFrame, TypeOK
  <2>5. /\ UNCHANGED store /\ main' # "boot"
        /\ \A q \in Requests : q # r => pc'[q] = pc[q] /\ job'[q] = job[q]
    BY <1>5 DEF GetFrame, TypeOK, server
  <2> QED
    BY <2>1, <2>3, <2>4, <2>5 DEF JobInv
<1>6. ASSUME NEW r \in Requests, Step(r)
      PROVE  JobInv'
  <2>1. UNCHANGED <<main, store>> /\ pc[r] # "idle" /\ main # "boot"
    BY <1>6 DEF Step, Prompt, CacheHit, CacheMiss, Lock, RenderOK, RenderFails, StoreFrame,
                Reply, server, JobInv
  <2>2. pc'[r] = "idle" \/ job'[r] = job[r]
    BY <1>6 DEF Step, Prompt, CacheHit, CacheMiss, Lock, RenderOK, RenderFails, StoreFrame,
                Reply, TypeOK
  <2>3. \A q \in Requests : q # r => pc'[q] = pc[q] /\ job'[q] = job[q]
    BY <1>6 DEF Step, Prompt, CacheHit, CacheMiss, Lock, RenderOK, RenderFails, StoreFrame,
                Reply, TypeOK
  <2> QED
    BY <2>1, <2>2, <2>3, <1>2 DEF JobInv
<1>7. CASE UNCHANGED vars
  BY <1>7 DEF JobInv, vars, server, calls
<1> QED
  BY <1>1, <1>3, <1>4, <1>5, <1>6, <1>7 DEF Next

LEMMA TickAges ==
  ASSUME TypeOK, Tick, NEW d \in Devices, cache'[d] # NoFrame
  PROVE  /\ cache[d] # NoFrame
         /\ cache'[d].dev = cache[d].dev /\ cache'[d].size = cache[d].size
         /\ cache[d].seen \in 0..Old
         /\ cache'[d].seen = Upto(cache[d].seen, Old)
         /\ age[d] \in 0..TTL
         /\ age'[d] = Upto(age[d], TTL)
<1>1. cache[d] # NoFrame
  BY DEF Tick
<1>2. cache[d] \in Frame
  BY <1>1 DEF TypeOK
<1>3. cache'[d] = [cache[d] EXCEPT !.seen = Upto(@, Old)]
  BY <1>1 DEF Tick
<1>4. /\ cache'[d].dev = cache[d].dev /\ cache'[d].size = cache[d].size
      /\ cache'[d].seen = Upto(cache[d].seen, Old)
  BY <1>2, <1>3 DEF Frame
<1>5. age[d] \in 0..TTL /\ age'[d] = Upto(age[d], TTL)
  BY DEF Tick, TypeOK
<1> QED
  BY <1>1, <1>2, <1>4, <1>5, FrameFields

(* Whose frames they are, and how old: a frame is stored no older than a    *)
(* render, ages with its entry and is answered within the TTL.              *)
LEMMA FrameStep == TypeOK /\ JobInv /\ FrameInv /\ [Next]_vars => FrameInv'
<1> SUFFICES ASSUME TypeOK, JobInv, FrameInv, [Next]_vars
             PROVE  FrameInv'
  OBVIOUS
<1> USE ConstantFacts
<1>1. ASSUME UNCHANGED <<cache, age>>,
             \A r \in Requests :
               pc'[r] \in {"store", "answer"}
                 => pc'[r] = pc[r] /\ job'[r] = job[r] /\ got'[r] = got[r]
      PROVE  FrameInv'
  BY <1>1 DEF FrameInv, ServedFresh, Picture
<1>2. CASE Load
  <2>1. /\ \A r \in Requests : pc'[r] = "idle"
        /\ \A d \in Devices : cache'[d] = NoFrame
    BY <1>2 DEF Load, JobInv, calls
  <2> QED
    BY <2>1 DEF FrameInv, ServedFresh
<1>3. CASE Warmup \/ Start \/ Signal \/ Stopped
  BY <1>1, <1>3 DEF Warmup, Start, Signal, Stopped, calls
<1>4. CASE Tick
  <2>1. UNCHANGED <<pc, job, got>>
    BY <1>4 DEF Tick
  <2>2. ASSUME NEW d \in Devices, cache'[d] # NoFrame
        PROVE  Picture(cache'[d], d) /\ cache'[d].seen <= age'[d] + RenderMax
    <3>1. cache[d] # NoFrame /\ cache[d].seen <= age[d] + RenderMax
      BY <1>4, <2>2, TickAges DEF FrameInv
    <3>2. Picture(cache'[d], d)
      BY <1>4, <2>2, <3>1, TickAges DEF FrameInv, Picture
    <3>3. cache'[d].seen <= age'[d] + RenderMax
      BY <1>4, <2>2, <3>1, TickAges DEF Upto
    <3> QED
      BY <3>2, <3>3
  <2> QED
    BY <2>1, <2>2 DEF FrameInv, ServedFresh, Picture
<1>5. ASSUME NEW r \in Requests, NEW d \in Devices, NEW hint \in Hints[d],
             GetFrame(r, d, hint)
      PROVE  FrameInv'
  BY <1>1, <1>5 DEF GetFrame, TypeOK, server
<1>6. ASSUME NEW r \in Requests, Step(r)
      PROVE  FrameInv'
  <2>0. /\ \A q \in Requests : q # r => /\ pc'[q] = pc[q] /\ job'[q] = job[q]
                                       /\ got'[q] = got[q]
        /\ pc[r] # "idle"
    BY <1>6 DEF Step, Prompt, CacheHit, CacheMiss, Lock, RenderOK, RenderFails, StoreFrame,
                Reply, TypeOK, server
  <2>2. Key(r) = job[r].dev /\ Key(r) \in Devices
    BY <2>0, JobFields DEF TypeOK, JobInv, Key
  <2>3. CASE CacheHit(r)
    <3>1. /\ UNCHANGED <<cache, age>> /\ pc'[r] = "answer" /\ job'[r] = job[r]
          /\ got'[r] = cache[Key(r)] /\ cache[Key(r)] # NoFrame
          /\ age[Key(r)] < TTL
      BY <2>3 DEF CacheHit, Cached, TypeOK
    <3>2. cache[Key(r)].seen \in Int /\ age[Key(r)] \in Int
      BY <2>2, <3>1, FrameFields DEF TypeOK
    <3>3. /\ Picture(got'[r], job'[r].dev)
          /\ got'[r].seen < TTL + RenderMax
      BY <2>2, <3>1, <3>2 DEF FrameInv
    <3> QED
      BY <2>0, <2>2, <3>1, <3>3 DEF FrameInv, ServedFresh, Picture
  <2>4. CASE RenderOK(r)
    <3>1. /\ UNCHANGED <<cache, age>> /\ pc'[r] = "store" /\ job'[r] = job[r]
          /\ got'[r] = [dev |-> job[r].dev, size |-> job[r].size,
                        seen |-> busy]
      BY <2>4 DEF RenderOK, TypeOK
    <3>2. got'[r] \in Frame
      BY <2>0, <3>1, JobFields DEF TypeOK, JobInv, Frame
    <3>3. Picture(got'[r], job'[r].dev) /\ got'[r].seen <= RenderMax
      BY <2>0, <3>1, <3>2, FrameFields DEF Picture, JobInv, TypeOK
    <3> QED
      BY <2>0, <2>2, <3>1, <3>3 DEF FrameInv, ServedFresh, Picture
  <2>5. CASE StoreFrame(r)
    <3>1. /\ cache' = [cache EXCEPT ![Key(r)] = got[r]]
          /\ age' = [age EXCEPT ![Key(r)] = 0]
          /\ pc[r] = "store" /\ pc'[r] = "answer"
          /\ job'[r] = job[r] /\ got'[r] = got[r]
      BY <2>5 DEF StoreFrame, TypeOK
    <3>2. Picture(got[r], Key(r)) /\ got[r].seen <= RenderMax
      BY <2>2, <3>1 DEF FrameInv
    <3>3. got[r].seen \in Int
      BY <3>2, FrameFields DEF Picture, TypeOK
    <3>4. got[r].seen < TTL + RenderMax /\ got[r].seen <= 0 + RenderMax
      BY <3>2, <3>3
    <3>5. /\ cache'[Key(r)] = got[r] /\ age'[Key(r)] = 0
          /\ \A d \in Devices : d # Key(r) => cache'[d] = cache[d] /\ age'[d] = age[d]
      BY <2>2, <3>1 DEF TypeOK
    <3>6. \A d \in Devices :
            cache'[d] # NoFrame => /\ Picture(cache'[d], d)
                                   /\ cache'[d].seen <= age'[d] + RenderMax
      BY <3>2, <3>4, <3>5 DEF FrameInv
    <3>7. \A q \in Requests :
            pc'[q] \in {"store", "answer"} => Picture(got'[q], job'[q].dev)
      BY <2>0, <2>2, <3>1, <3>2 DEF FrameInv
    <3> QED
      BY <2>0, <3>1, <3>4, <3>6, <3>7 DEF FrameInv, ServedFresh, Picture
  <2>6. CASE CacheMiss(r) \/ Lock(r) \/ RenderFails(r) \/ Reply(r)
    BY <1>1, <2>6 DEF CacheMiss, Lock, RenderFails, Reply, TypeOK, server
  <2> QED
    BY <1>6, <2>3, <2>4, <2>5, <2>6 DEF Step, Prompt
<1>7. CASE UNCHANGED vars
  BY <1>1, <1>7 DEF vars, server, calls
<1> QED
  BY <1>2, <1>3, <1>4, <1>5, <1>6, <1>7 DEF Next

-----------------------------------------------------------------------------
-----------------------------------------------------------------------------
Inv ==
  /\ TypeOK
  /\ JobInv
  /\ FrameInv
  /\ SizesPositive

(* What has come to the renderer so far, it does not refuse.                *)
LEMMA SizesStep == TypeOK /\ JobInv /\ SizesPositive /\ [Next]_vars => SizesPositive'
<1> SUFFICES ASSUME TypeOK, JobInv, SizesPositive, [Next]_vars
             PROVE  SizesPositive'
  OBVIOUS
<1>1. CASE Load \/ Warmup \/ Start \/ Signal \/ Stopped \/ Tick
  BY <1>1 DEF Load, Warmup, Start, Signal, Stopped, Tick, calls, SizesPositive
<1>2. ASSUME NEW r \in Requests, NEW d \in Devices, NEW hint \in Hints[d],
             GetFrame(r, d, hint)
      PROVE  SizesPositive'
  BY <1>2 DEF GetFrame, TypeOK, SizesPositive
<1>3. ASSUME NEW r \in Requests, Step(r)
      PROVE  SizesPositive'
  <2>1. pc[r] = "lookup" => Renders(job[r].size)
    BY DEF JobInv
  <2> QED
    BY <1>3, <2>1 DEF Step, Prompt, CacheHit, CacheMiss, Lock, RenderOK,
                      RenderFails, StoreFrame, Reply, TypeOK, SizesPositive
<1>4. CASE UNCHANGED vars
  BY <1>4 DEF vars, calls, SizesPositive
<1> QED
  BY <1>1, <1>2, <1>3, <1>4 DEF Next

LEMMA InvInit == Init => Inv
BY TypeInit DEF Init, JobInv, FrameInv, ServedFresh, SizesPositive, Inv

LEMMA InvStep == Inv /\ [Next]_vars => Inv'
BY TypeStep, JobStep, FrameStep, SizesStep DEF Inv

THEOREM InvHolds == Spec => []Inv
BY InvInit, InvStep, PTL DEF Spec

(* What calls carry through lookup, render, store and answer keeps to its   *)
(* type: no frame is stored or answered that nobody rendered.               *)
THEOREM TypeCorrect == Spec => []TypeOK
<1>1. Inv => TypeOK
  BY DEF Inv
<1> QED
  BY InvHolds, <1>1, PTL

(* RenderURL never sees a size it refuses.                                  *)
THEOREM SizesAccepted == Spec => []SizesPositive
<1>1. Inv => SizesPositive
  BY DEF Inv
<1> QED
  BY InvHolds, <1>1, PTL

(* However the calls of several devices interleave at the cache and at the  *)
(* browser, nobody is shown the page of another device.                     *)
THEOREM RightDevices == Spec => []RightDevice
<1>1. Inv => RightDevice
  BY DEF Inv, FrameInv, RightDevice, Picture
<1> QED
  BY InvHolds, <1>1, PTL

(* A page in an answer was fetched less than the TTL and one render ago.    *)
THEOREM FramesFresh == Spec => []ServedFresh
<1>1. Inv => ServedFresh
  BY DEF Inv, FrameInv
<1> QED
  BY InvHolds, <1>1, PTL
=============================================================================
