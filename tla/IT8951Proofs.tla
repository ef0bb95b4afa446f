---------------------------- MODULE IT8951Proofs ----------------------------
(* Proofs about IT8951: for any number of goroutines and any images, the   *)
(* protocol of the controller is kept, a Refresh that succeeds shows the   *)
(* image, and the driver implements the Display interface.                 *)
EXTENDS IT8951, TLAPS

(* Whoever holds d.mu is in a call and within its words.                   *)
TypeInv ==
  /\ TypeOK
  /\ \A c \in Callers : lock = c => /\ req[c] \in Requests
                                    /\ next <= Len(Words(c)) + 1

(* What the controller waits for, as long as no word has failed.           *)
BusInv ==
  ~erred => /\ lock = NoOne => bus = "command"
            /\ \A c \in Callers : lock = c =>
                 bus = IF next <= Len(Words(c)) THEN Expected(Word(c))
                                                ELSE "command"

(* A Refresh that has told the panel to draw.                              *)
Drawing(c) == lock = c /\ req[c].op = "refresh" /\ next > 2

(* No call but Refresh leaves the panel drawing, and Refresh only when it  *)
(* fails.                                                                  *)
DriveInv ==
  /\ \A c \in Callers : Drawing(c) /\ next > 5 => drive = None
  /\ ~erred => /\ (\A c \in Callers : ~Drawing(c)) => drive = None
               /\ (\E c \in Callers : Drawing(c)) =>
                     \/ drive = mem
                     \/ drive = None /\ glass = mem

-----------------------------------------------------------------------------
(* The words of the calls.                                                 *)

LEMMA RequestOps ==
  ASSUME NEW r \in Requests
  PROVE  /\ r.op \in {"load", "refresh", "standby", "sleep", "wake", "close"}
         /\ r.op = "load" => r.img \in Frames
         /\ r \notin AtRest
BY DEF Requests, AtRest, Idle, Failed

LEMMA Lengths ==
  ASSUME NEW c \in Callers, req[c] \in Requests
  PROVE  /\ Len(Words(c)) \in Nat
         /\ req[c].op = "load" => Len(Words(c)) = 8
         /\ req[c].op = "refresh" => Len(Words(c)) = 5
         /\ req[c].op \in {"standby", "sleep", "wake"} => Len(Words(c)) = 1
         /\ req[c].op = "close" => Len(Words(c)) = 0
<1>1. CASE req[c].op = "load"
  <2>1. Words(c) = <<"REG_WR", "value", "REG_WR", "value",
                     "LD_IMG_AREA", "area", "pixels", "LD_IMG_END">>
    BY <1>1 DEF Words, Script
  <2> QED
    BY <1>1, <2>1
<1>2. CASE req[c].op = "refresh"
  <2>1. Words(c) = <<"DPY_AREA", "panel", "REG_RD", "LUTAFSR", "status">>
    BY <1>2 DEF Words, Script
  <2> QED
    BY <1>2, <2>1
<1>3. CASE req[c].op \in {"standby", "sleep", "wake"}
  <2>1. Words(c) \in {<<"STANDBY">>, <<"SLEEP">>, <<"SYS_RUN">>}
    BY <1>3 DEF Words, Script
  <2> QED
    BY <1>3, <2>1
<1>4. CASE req[c].op = "close"
  <2>1. Words(c) = << >>
    BY <1>4 DEF Words, Script
  <2> QED
    BY <1>4, <2>1
<1> QED
  BY <1>1, <1>2, <1>3, <1>4, RequestOps

LEMMA AfterWords ==
  /\ After("REG_WR") = "value"      /\ After("LD_IMG_AREA") = "area"
  /\ After("area") = "pixels"       /\ After("pixels") = "LD_IMG_END"
  /\ After("DPY_AREA") = "panel"    /\ After("REG_RD") = "LUTAFSR"
  /\ After("LUTAFSR") = "status"    /\ After("value") = "command"
  /\ After("LD_IMG_END") = "command" /\ After("panel") = "command"
  /\ After("status") = "command"    /\ After("STANDBY") = "command"
  /\ After("SLEEP") = "command"     /\ After("SYS_RUN") = "command"
BY DEF After

LEMMA ExpectedWords ==
  /\ \A w \in Commands : Expected(w) = "command"
  /\ \A w \in {"value", "area", "pixels", "LD_IMG_END", "panel", "LUTAFSR",
                "status"} : Expected(w) = w
BY DEF Expected, Commands

(* The word at hand, and the one that follows it.                          *)
LEMMA WordFacts ==
  ASSUME NEW c \in Callers, req[c] \in Requests,
         next \in Nat, next >= 1, next <= Len(Words(c))
  PROVE  /\ Word(c) = "pixels" <=> req[c].op = "load" /\ next = 7
         /\ Word(c) = "panel" <=> req[c].op = "refresh" /\ next = 2
         /\ Word(c) = "status" <=> req[c].op = "refresh" /\ next = 5
         /\ next = 1 => Expected(Word(c)) = "command"
         /\ After(Word(c)) = IF next < Len(Words(c))
                               THEN Expected(Words(c)[next + 1])
                               ELSE "command"
<1>1. CASE req[c].op = "load"
  <2>1. Words(c) = <<"REG_WR", "value", "REG_WR", "value",
                     "LD_IMG_AREA", "area", "pixels", "LD_IMG_END">>
    BY <1>1 DEF Words, Script
  <2>2. next \in {1, 2, 3, 4, 5, 6, 7, 8} /\ Len(Words(c)) = 8
    <3>1. Len(Words(c)) = 8
      BY <1>1, Lengths
    <3> QED
      BY <3>1
  <2>3. CASE next = 1
    BY <1>1, <2>1, <2>2, <2>3, AfterWords, ExpectedWords DEF Word, Commands
  <2>4. CASE next = 2
    BY <1>1, <2>1, <2>2, <2>4, AfterWords, ExpectedWords DEF Word, Commands
  <2>5. CASE next = 3
    BY <1>1, <2>1, <2>2, <2>5, AfterWords, ExpectedWords DEF Word, Commands
  <2>6. CASE next = 4
    BY <1>1, <2>1, <2>2, <2>6, AfterWords, ExpectedWords DEF Word, Commands
  <2>7. CASE next = 5
    BY <1>1, <2>1, <2>2, <2>7, AfterWords, ExpectedWords DEF Word, Commands
  <2>8. CASE next = 6
    BY <1>1, <2>1, <2>2, <2>8, AfterWords, ExpectedWords DEF Word, Commands
  <2>9. CASE next = 7
    BY <1>1, <2>1, <2>2, <2>9, AfterWords, ExpectedWords DEF Word, Commands
  <2>10. CASE next = 8
    BY <1>1, <2>1, <2>2, <2>10, AfterWords, ExpectedWords DEF Word, Commands
  <2> QED
    BY <2>2, <2>3, <2>4, <2>5, <2>6, <2>7, <2>8, <2>9, <2>10
<1>2. CASE req[c].op = "refresh"
  <2>1. Words(c) = <<"DPY_AREA", "panel", "REG_RD", "LUTAFSR", "status">>
    BY <1>2 DEF Words, Script
  <2>2. next \in {1, 2, 3, 4, 5} /\ Len(Words(c)) = 5
    <3>1. Len(Words(c)) = 5
      BY <1>2, Lengths
    <3> QED
      BY <3>1
  <2>3. CASE next = 1
    BY <1>2, <2>1, <2>2, <2>3, AfterWords, ExpectedWords DEF Word, Commands
  <2>4. CASE next = 2
    BY <1>2, <2>1, <2>2, <2>4, AfterWords, ExpectedWords DEF Word, Commands
  <2>5. CASE next = 3
    BY <1>2, <2>1, <2>2, <2>5, AfterWords, ExpectedWords DEF Word, Commands
  <2>6. CASE next = 4
    BY <1>2, <2>1, <2>2, <2>6, AfterWords, ExpectedWords DEF Word, Commands
  <2>7. CASE next = 5
    BY <1>2, <2>1, <2>2, <2>7, AfterWords, ExpectedWords DEF Word, Commands
  <2> QED
    BY <2>2, <2>3, <2>4, <2>5, <2>6, <2>7
<1>3. CASE req[c].op \in {"standby", "sleep", "wake"}
  <2>1. Words(c) \in {<<"STANDBY">>, <<"SLEEP">>, <<"SYS_RUN">>}
    BY <1>3 DEF Words, Script
  <2>2. next = 1 /\ Len(Words(c)) = 1
    <3>1. Len(Words(c)) = 1
      BY <1>3, Lengths
    <3> QED
      BY <3>1
  <2>3. Word(c) \in {"STANDBY", "SLEEP", "SYS_RUN"}
    BY <2>1, <2>2 DEF Word
  <2> QED
    BY <1>3, <2>2, <2>3, AfterWords, ExpectedWords DEF Commands
<1>4. CASE req[c].op = "close"
  BY <1>4, Lengths
<1> QED
  BY <1>1, <1>2, <1>3, <1>4, RequestOps

(* The first word of a Refresh that polls again.                           *)
LEMMA PollWord ==
  ASSUME NEW c \in Callers, req[c].op = "refresh"
  PROVE  Expected(Words(c)[PollAt]) = "command"
BY DEF Words, Script, PollAt, Expected, Commands

LEMMA BusWords ==
  ASSUME NEW w
  PROVE  After(w) \in {"command", "value", "area", "pixels", "LD_IMG_END",
                       "panel", "LUTAFSR", "status"}
BY DEF After

-----------------------------------------------------------------------------
(* Types.                                                                  *)

LEMMA LeaveType ==
  ASSUME TypeInv, NEW c \in Callers, NEW result \in AtRest, lock = c,
         Leave(c, result)
  PROVE  /\ req' \in [Callers -> Requests \cup AtRest]
         /\ lock' \in Callers \cup {NoOne}
         /\ next' \in 1..9
         /\ \A d \in Callers : lock' # d
BY DriverAssumption DEF TypeInv, TypeOK, Leave

LEMMA DriveType ==
  ASSUME TypeInv, NEW c \in Callers, lock = c
  PROVE  /\ Trigger => /\ mem' \in Frames \cup {Torn}
                       /\ drive' \in Frames \cup {Torn, None}
         /\ \A img \in Frames \cup {Torn} : Write(img) =>
              /\ mem' \in Frames \cup {Torn}
              /\ drive' \in Frames \cup {Torn, None}
BY DEF TypeInv, TypeOK, Trigger, Write

(* One more word leaves the holder within its words.                       *)
LEMMA Within ==
  ASSUME TypeInv, NEW c \in Callers, Sending(c)
  PROVE  /\ req[c] \in Requests
         /\ next \in Nat /\ next >= 1 /\ next <= Len(Words(c))
         /\ Len(Words(c)) \in 0..8
<1>1. req[c] \in Requests /\ next \in Nat /\ next >= 1
      /\ next <= Len(Words(c))
  BY DEF TypeInv, TypeOK, Sending
<1>2. req[c].op \in {"load", "refresh", "standby", "sleep", "wake", "close"}
  BY <1>1, RequestOps
<1>3. Len(Words(c)) \in 0..8
  BY <1>1, <1>2, Lengths
<1> QED
  BY <1>1, <1>3

LEMMA TypeInit == Init => TypeInv
<1> SUFFICES ASSUME Init PROVE TypeInv
  OBVIOUS
<1>1. req \in [Callers -> Requests \cup AtRest]
  BY DEF Init, AtRest
<1>2. lock = NoOne /\ \A c \in Callers : lock # c
  BY DriverAssumption DEF Init
<1>3. next \in 1..9 /\ bus = "command" /\ drive = None
  BY DEF Init
<1>4. /\ asleep \in BOOLEAN /\ closed \in BOOLEAN /\ erred \in BOOLEAN
      /\ mem \in Frames \cup {Torn} /\ glass \in Frames \cup {Torn}
  BY DEF Init
<1> QED
  BY <1>1, <1>2, <1>3, <1>4 DEF TypeInv, TypeOK

LEMMA TypeStep == TypeInv /\ [Next]_vars => TypeInv'
<1> SUFFICES ASSUME TypeInv, [Next]_vars PROVE TypeInv'
  OBVIOUS
<1>1. ASSUME NEW c \in Callers, Call(c) PROVE TypeInv'
  <2>1. PICK r \in Requests : req' = [req EXCEPT ![c] = r]
    BY <1>1 DEF Call
  <2>2. \A d \in Callers : lock = d => d # c
    BY <1>1, RequestOps DEF Call, TypeInv
  <2>3. \A d \in Callers : lock' = d => req'[d] = req[d] /\ Words(d)' = Words(d)
    BY <1>1, <2>1, <2>2 DEF Call, TypeInv, TypeOK, Words
  <2> QED
    BY <1>1, <2>1, <2>3 DEF Call, TypeInv, TypeOK, chip
<1>2. ASSUME NEW c \in Callers, Acquire(c) PROVE TypeInv'
  <2>1. req[c] \in Requests
    BY <1>2 DEF Acquire, TypeInv, TypeOK
  <2>2. Len(Words(c)) \in Nat /\ Words(c)' = Words(c)
    BY <1>2, <2>1, Lengths DEF Acquire, Words
  <2>3. \A d \in Callers : lock' = d => d = c
    BY <1>2 DEF Acquire
  <2>4. next' = 1 /\ next' <= Len(Words(c))' + 1
    BY <1>2, <2>2 DEF Acquire
  <2> QED
    BY <1>2, <2>1, <2>3, <2>4 DEF Acquire, TypeInv, TypeOK, chip
<1>3. ASSUME NEW c \in Callers, Sending(c), UNCHANGED <<req, lock>>,
             \/ next' = next + 1
             \/ next' = PollAt /\ req[c].op = "refresh"
      PROVE  /\ next' \in 1..9
             /\ \A d \in Callers : lock' = d =>
                  req'[d] \in Requests /\ next' <= Len(Words(d))' + 1
  <2>1. /\ req[c] \in Requests /\ next \in Nat /\ next >= 1
        /\ next <= Len(Words(c)) /\ Len(Words(c)) \in 0..8
    BY <1>3, Within
  <2>2. Words(c)' = Words(c)
    BY <1>3 DEF Words
  <2>3. \A d \in Callers : lock' = d => d = c
    BY <1>3 DEF Sending
  <2>4. CASE next' = next + 1
    <3> DEFINE n == Len(Words(c))
    <3>a. next \in Nat /\ next >= 1 /\ next <= n /\ n \in 0..8
      BY <2>1
    <3>1. next' \in 1..9 /\ next' <= n + 1
      <4> HIDE DEF n
      <4> QED
        BY <3>a, <2>4
    <3>2. ASSUME NEW d \in Callers, lock' = d
          PROVE  req'[d] \in Requests /\ next' <= Len(Words(d))' + 1
      <4>1. d = c
        BY <2>3, <3>2
      <4> QED
        BY <1>3, <2>1, <2>2, <3>1, <4>1 DEF Words
    <3> QED
      BY <3>1, <3>2
  <2>5. CASE next' = PollAt /\ req[c].op = "refresh"
    <3>1. Len(Words(c)) = 5
      BY <2>1, <2>5, Lengths
    <3>2. next' = 3 /\ next' \in 1..9
      BY <2>5 DEF PollAt
    <3>3. ASSUME NEW d \in Callers, lock' = d
          PROVE  req'[d] \in Requests /\ next' <= Len(Words(d))' + 1
      <4>1. d = c /\ req' = req
        BY <1>3, <2>3, <3>3
      <4>2. Len(Words(d))' = 5
        BY <3>1, <4>1 DEF Words
      <4> QED
        BY <2>1, <3>2, <4>1, <4>2
    <3> QED
      BY <3>2, <3>3
  <2> QED
    BY <1>3, <2>4, <2>5
<1>4. ASSUME NEW c \in Callers, SendWord(c) PROVE TypeInv'
  <2>1. Sending(c) /\ UNCHANGED <<req, lock>> /\ next' = next + 1
    BY <1>4 DEF SendWord
  <2>2. asleep' \in BOOLEAN
    BY <1>4 DEF SendWord, Sleeps
  <2> QED
    BY <1>3, <1>4, <2>1, <2>2, BusWords DEF SendWord, TypeInv, TypeOK
<1>5. ASSUME NEW c \in Callers, SendPixels(c) PROVE TypeInv'
  <2>1. Sending(c) /\ UNCHANGED <<req, lock>> /\ next' = next + 1
    BY <1>5 DEF SendPixels
  <2>2. req[c].img \in Frames
    BY <1>5, <2>1, Within, WordFacts, RequestOps DEF SendPixels
  <2>3. mem' \in Frames \cup {Torn} /\ drive' \in Frames \cup {Torn, None}
    BY <1>5, <2>1, <2>2, DriveType DEF SendPixels, Sending
  <2> QED
    BY <1>3, <1>5, <2>1, <2>3, BusWords DEF SendPixels, TypeInv, TypeOK
<1>6. ASSUME NEW c \in Callers, SendPanel(c) PROVE TypeInv'
  <2>1. Sending(c) /\ UNCHANGED <<req, lock>> /\ next' = next + 1
    BY <1>6 DEF SendPanel
  <2>2. mem' \in Frames \cup {Torn} /\ drive' \in Frames \cup {Torn, None}
    BY <1>6, <2>1, DriveType DEF SendPanel, Sending
  <2> QED
    BY <1>3, <1>6, <2>1, <2>2, BusWords DEF SendPanel, TypeInv, TypeOK
<1>7. ASSUME NEW c \in Callers, ReadStatus(c) PROVE TypeInv'
  <2>1. Sending(c) /\ UNCHANGED <<req, lock>>
    BY <1>7 DEF ReadStatus
  <2>2. req[c].op = "refresh"
    BY <1>7, <2>1, Within, WordFacts DEF ReadStatus
  <2>3. \/ next' = next + 1
        \/ next' = PollAt /\ req[c].op = "refresh"
    BY <1>7, <2>2 DEF ReadStatus
  <2> QED
    BY <1>3, <1>7, <2>1, <2>3, BusWords DEF ReadStatus, TypeInv, TypeOK
<1>8. ASSUME NEW c \in Callers, LUTTimeout(c) PROVE TypeInv'
  <2>1. lock = c /\ Leave(c, Failed) /\ Failed \in AtRest
    BY <1>8 DEF LUTTimeout, Sending, AtRest
  <2> QED
    BY <1>8, <2>1, LeaveType, BusWords DEF LUTTimeout, TypeInv, TypeOK
<1>9. ASSUME NEW c \in Callers, Fail(c) PROVE TypeInv'
  <2>1. lock = c /\ Leave(c, Failed) /\ Failed \in AtRest
    BY <1>9 DEF Fail, Sending, AtRest
  <2>2. bus' = bus \/ bus' = After(Word(c))
    BY <1>9 DEF Fail
  <2>3. asleep' \in BOOLEAN
    <3>1. asleep' = asleep \/ asleep' = Sleeps(c)
      BY <1>9 DEF Fail
    <3>2. Sleeps(c) \in BOOLEAN
      BY DEF Sleeps
    <3>3. asleep \in BOOLEAN
      BY DEF TypeInv, TypeOK
    <3> QED
      BY <3>1, <3>2, <3>3
  <2>4. mem' \in Frames \cup {Torn} /\ drive' \in Frames \cup {Torn, None}
    <3>1. CASE UNCHANGED <<mem, drive>>
      BY <3>1 DEF TypeInv, TypeOK
    <3>2. CASE Word(c) = "pixels" /\ \E p \in {req[c].img, Torn} : Write(p)
      <4>1. req[c].img \in Frames
        BY <1>9, <3>2, Within, WordFacts, RequestOps DEF Fail
      <4> QED
        BY <2>1, <3>2, <4>1, DriveType
    <3>3. CASE Trigger
      BY <2>1, <3>3, DriveType
    <3> QED
      BY <1>9, <3>1, <3>2, <3>3 DEF Fail
  <2> QED
    BY <1>9, <2>1, <2>2, <2>3, <2>4, LeaveType, BusWords
    DEF Fail, TypeInv, TypeOK
<1>10. ASSUME NEW c \in Callers, Return(c) PROVE TypeInv'
  <2>1. lock = c /\ \E result \in AtRest : Leave(c, result)
    BY <1>10 DEF Return, Outcomes, AtRest
  <2>2. closed' \in BOOLEAN
    BY <1>10 DEF Return, TypeInv, TypeOK
  <2> QED
    BY <1>10, <2>1, <2>2, LeaveType DEF Return, TypeInv, TypeOK, chip
<1>11. CASE Settle
  BY <1>11 DEF Settle, TypeInv, TypeOK, Words
<1>12. CASE UNCHANGED vars
  BY <1>12 DEF vars, chip, TypeInv, TypeOK, Words
<1> QED
  BY <1>1, <1>2, <1>4, <1>5, <1>6, <1>7, <1>8, <1>9, <1>10, <1>11, <1>12
  DEF Next, Step

-----------------------------------------------------------------------------
(* The protocol of the controller.                                         *)

LEMMA FirstWord ==
  ASSUME NEW c \in Callers, req[c] \in Requests, Len(Words(c)) >= 1
  PROVE  Expected(Words(c)[1]) = "command"
<1>1. req[c].op \in {"load", "refresh", "standby", "sleep", "wake"}
  BY Lengths, RequestOps
<1>2. Words(c)[1] \in Commands
  BY <1>1 DEF Words, Script, Commands
<1> QED
  BY <1>2, ExpectedWords

LEMMA NoHolder ==
  ASSUME TypeInv
  PROVE  lock = NoOne <=> \A c \in Callers : lock # c
BY DriverAssumption DEF TypeInv, TypeOK

LEMMA BusInit == Init => BusInv
BY DriverAssumption DEF Init, BusInv

LEMMA BusStep == TypeInv /\ BusInv /\ [Next]_vars => BusInv'
<1> SUFFICES ASSUME TypeInv, BusInv, [Next]_vars, ~erred'
             PROVE  /\ lock' = NoOne => bus' = "command"
                    /\ \A c \in Callers : lock' = c =>
                         bus' = IF next' <= Len(Words(c))'
                                  THEN Expected(Word(c))' ELSE "command"
  BY DEF BusInv
<1>a. \A w : Expected(w)' = Expected(w)
  BY DEF Expected
<1>b. ASSUME ~erred, UNCHANGED <<lock, next, bus>>,
             \A c \in Callers : lock = c => req'[c] = req[c]
      PROVE  /\ lock' = NoOne => bus' = "command"
             /\ \A c \in Callers : lock' = c =>
                  bus' = IF next' <= Len(Words(c))'
                           THEN Expected(Word(c))' ELSE "command"
  BY <1>b DEF BusInv, Word, Words, Expected
<1>c. ASSUME NEW c \in Callers, Sending(c), UNCHANGED <<req, lock>>,
             bus' = After(Word(c)),
             \/ next' = next + 1
             \/ next' = PollAt /\ Word(c) = "status"
      PROVE  /\ lock' = NoOne => bus' = "command"
             /\ \A d \in Callers : lock' = d =>
                  bus' = IF next' <= Len(Words(d))'
                           THEN Expected(Word(d))' ELSE "command"
  <2>1. /\ req[c] \in Requests /\ next \in Nat /\ next >= 1
        /\ next <= Len(Words(c)) /\ Len(Words(c)) \in 0..8
    BY <1>c, Within
  <2>2. lock' = c /\ lock' # NoOne
    BY <1>c, DriverAssumption DEF Sending
  <2>3. bus' = IF next' <= Len(Words(c)) THEN Expected(Words(c)[next'])
                                         ELSE "command"
    <3>1. CASE next' = next + 1 /\ next < Len(Words(c))
      <4>1. next' <= Len(Words(c))
        BY <2>1, <3>1
      <4>2. After(Word(c)) = Expected(Words(c)[next + 1])
        BY <2>1, <3>1, WordFacts
      <4> QED
        BY <1>c, <3>1, <4>1, <4>2
    <3>2. CASE next' = next + 1 /\ ~(next < Len(Words(c)))
      <4>1. ~(next' <= Len(Words(c)))
        BY <2>1, <3>2
      <4>2. After(Word(c)) = "command"
        BY <2>1, <3>2, WordFacts
      <4> QED
        BY <1>c, <4>1, <4>2
    <3>3. CASE next' = PollAt /\ Word(c) = "status"
      <4>1. req[c].op = "refresh"
        BY <2>1, <3>3, WordFacts
      <4>2. Expected(Words(c)[PollAt]) = "command"
        BY <4>1, PollWord
      <4> QED
        BY <1>c, <3>3, <4>2, AfterWords
    <3> QED
      BY <1>c, <3>1, <3>2, <3>3
  <2> QED
    BY <1>c, <2>2, <2>3 DEF Word, Words, Expected
<1>1. ASSUME NEW c \in Callers, Call(c)
      PROVE  ~erred /\ UNCHANGED <<lock, next, bus>>
             /\ \A d \in Callers : lock = d => req'[d] = req[d]
  <2>1. \A d \in Callers : lock = d => d # c
    BY <1>1, RequestOps DEF Call, TypeInv
  <2> QED
    BY <1>1, <2>1 DEF Call, chip, TypeInv, TypeOK
<1>2. ASSUME NEW c \in Callers, Acquire(c)
      PROVE  /\ lock' = NoOne => bus' = "command"
             /\ \A d \in Callers : lock' = d =>
                  bus' = IF next' <= Len(Words(d))'
                           THEN Expected(Word(d))' ELSE "command"
  <2>1. req[c] \in Requests /\ bus = "command"
    BY <1>2 DEF Acquire, TypeInv, TypeOK, BusInv
  <2>2. 1 <= Len(Words(c)) => Expected(Words(c)[1]) = "command"
    BY <2>1, Lengths, FirstWord
  <2>3. lock' = c /\ bus' = bus /\ next' = 1 /\ req' = req
    BY <1>2 DEF Acquire, chip
  <2> QED
    BY <2>1, <2>2, <2>3 DEF Word, Words, Expected
<1>3. ASSUME NEW c \in Callers, SendWord(c) \/ SendPixels(c) \/ SendPanel(c)
      PROVE  /\ Sending(c) /\ UNCHANGED <<req, lock>>
             /\ bus' = After(Word(c)) /\ next' = next + 1
  BY <1>3 DEF SendWord, SendPixels, SendPanel
<1>4. ASSUME NEW c \in Callers, ReadStatus(c)
      PROVE  /\ Sending(c) /\ UNCHANGED <<req, lock>>
             /\ bus' = After(Word(c))
             /\ \/ next' = next + 1
                \/ next' = PollAt /\ Word(c) = "status"
  BY <1>4 DEF ReadStatus
<1>5. ASSUME NEW c \in Callers, Return(c)
      PROVE  /\ lock' = NoOne /\ bus' = "command"
             /\ \A d \in Callers : lock' # d
  <2>1. next > Len(Words(c)) /\ lock = c /\ bus' = bus /\ ~erred
    BY <1>5 DEF Return, chip
  <2>2. ~(next <= Len(Words(c)))
    <3>1. next \in Nat /\ Len(Words(c)) \in Nat
      BY <2>1, Lengths DEF TypeInv, TypeOK
    <3> QED
      BY <2>1, <3>1
  <2>3. bus = "command"
    BY <2>1, <2>2 DEF BusInv
  <2> QED
    BY <1>5, <2>1, <2>3, DriverAssumption DEF Return, Leave
<1>6. ASSUME NEW c \in Callers, LUTTimeout(c) \/ Fail(c) PROVE FALSE
  BY <1>6 DEF LUTTimeout, Fail
<1>7. CASE Settle
  BY <1>b, <1>7 DEF Settle
<1>8. CASE UNCHANGED vars
  BY <1>b, <1>8 DEF vars, chip
<1> QED
  BY <1>b, <1>c, <1>1, <1>2, <1>3, <1>4, <1>5, <1>6, <1>7, <1>8
  DEF Next, Step

-----------------------------------------------------------------------------
(* What the panel draws.                                                   *)

LEMMA DriveInit == Init => DriveInv
<1> SUFFICES ASSUME Init PROVE DriveInv
  OBVIOUS
<1>1. drive = None /\ \A c \in Callers : ~Drawing(c)
  BY DriverAssumption DEF Init, Drawing
<1> QED
  BY <1>1 DEF DriveInv

LEMMA DriveStep == TypeInv /\ DriveInv /\ [Next]_vars => DriveInv'
<1> SUFFICES ASSUME TypeInv, DriveInv, [Next]_vars PROVE DriveInv'
  OBVIOUS
<1>a. ASSUME UNCHANGED <<mem, glass, drive>>, erred => erred',
             \A c \in Callers : Drawing(c)' <=> Drawing(c),
             \A c \in Callers : Drawing(c)' /\ next' > 5
                                => Drawing(c) /\ next > 5
      PROVE  DriveInv'
  BY <1>a DEF DriveInv
<1>b. ASSUME \A c \in Callers : ~Drawing(c)', erred' \/ drive' = None
      PROVE  DriveInv'
  BY <1>b DEF DriveInv
<1>c. ASSUME NEW c \in Callers, Sending(c)
      PROVE  /\ req[c] \in Requests /\ next \in Nat /\ next >= 1
             /\ next <= Len(Words(c))
             /\ lock = c
  BY <1>c, Within DEF Sending
<1>d. ASSUME NEW c \in Callers, Leave(c, Idle) \/ Leave(c, Failed)
      PROVE  \A d \in Callers : ~Drawing(d)'
  BY <1>d, DriverAssumption DEF Leave, Drawing
<1>1. ASSUME NEW c \in Callers, Call(c) PROVE DriveInv'
  <2>1. \A d \in Callers : lock = d => d # c
    BY <1>1, RequestOps DEF Call, TypeInv
  <2>2. \A d \in Callers : lock = d => req'[d] = req[d]
    BY <1>1, <2>1 DEF Call, TypeInv, TypeOK
  <2> QED
    BY <1>1, <1>a, <2>2 DEF Call, chip, Drawing, Words
<1>2. ASSUME NEW c \in Callers, Acquire(c) PROVE DriveInv'
  <2>1. \A d \in Callers : ~Drawing(d)
    BY <1>2, DriverAssumption DEF Acquire, Drawing
  <2>2. \A d \in Callers : ~Drawing(d)'
    BY <1>2 DEF Acquire, Drawing
  <2>3. UNCHANGED <<drive, erred>> /\ (~erred => drive = None)
    BY <1>2, <2>1 DEF Acquire, chip, DriveInv
  <2> QED
    BY <1>b, <2>2, <2>3
<1>3. ASSUME NEW c \in Callers, SendWord(c) PROVE DriveInv'
  <2>1. /\ req[c] \in Requests /\ next \in Nat /\ next >= 1
        /\ next <= Len(Words(c)) /\ lock = c
        /\ Word(c) \notin {"pixels", "panel", "status"}
    BY <1>3, <1>c DEF SendWord
  <2>2. req[c].op = "refresh" => next # 2 /\ next # 5 /\ Len(Words(c)) = 5
    BY <2>1, WordFacts, Lengths
  <2>3. /\ UNCHANGED <<req, lock, mem, glass, drive, erred>>
        /\ next' = next + 1
    BY <1>3 DEF SendWord
  <2>4. \A d \in Callers : Drawing(d)' <=> Drawing(d)
    BY <2>1, <2>2, <2>3 DEF Drawing
  <2>5. \A d \in Callers : ~(Drawing(d)' /\ next' > 5)
    <3>1. SUFFICES ASSUME NEW d \in Callers, Drawing(d)' PROVE ~(next' > 5)
      OBVIOUS
    <3>2. req[c].op = "refresh"
      BY <2>1, <2>3, <3>1 DEF Drawing
    <3>3. Len(Words(c)) = 5 /\ next # 5
      BY <2>2, <3>2
    <3>4. next <= 5
      BY <2>1, <3>3
    <3>5. next' = next + 1 /\ next \in Nat
      BY <2>1, <2>3
    <3> QED
      BY <3>3, <3>4, <3>5
  <2> QED
    BY <1>a, <2>3, <2>4, <2>5
<1>4. ASSUME NEW c \in Callers, SendPixels(c) PROVE DriveInv'
  <2>1. lock = c /\ req[c].op = "load"
    BY <1>4, <1>c, WordFacts DEF SendPixels
  <2>2. \A d \in Callers : ~Drawing(d) /\ ~Drawing(d)'
    BY <1>4, <2>1 DEF SendPixels, Drawing
  <2>3. ~erred' => drive' = None
    BY <1>4, <2>2 DEF SendPixels, Write, DriveInv
  <2> QED
    BY <1>b, <2>2, <2>3
<1>5. ASSUME NEW c \in Callers, SendPanel(c) PROVE DriveInv'
  <2>1. lock = c /\ req[c].op = "refresh" /\ next = 2
    BY <1>5, <1>c, WordFacts DEF SendPanel
  <2>2. UNCHANGED <<req, lock, erred>> /\ next' = 3
    BY <1>5, <2>1 DEF SendPanel
  <2>3. \A d \in Callers : ~Drawing(d)
    BY <2>1 DEF Drawing
  <2>4. ~erred => drive' = mem'
    BY <1>5, <2>3 DEF SendPanel, Trigger, DriveInv
  <2>5. Drawing(c)' /\ ~(next' > 5)
    BY <2>1, <2>2 DEF Drawing
  <2> QED
    BY <2>2, <2>4, <2>5 DEF DriveInv
<1>6. ASSUME NEW c \in Callers, ReadStatus(c) PROVE DriveInv'
  <2>1. lock = c /\ req[c].op = "refresh" /\ next = 5
    BY <1>6, <1>c, WordFacts DEF ReadStatus
  <2>2. UNCHANGED <<req, lock, mem, glass, drive, erred>>
    BY <1>6 DEF ReadStatus
  <2>3. \/ drive = None /\ next' = 6
        \/ drive # None /\ next' = 3
    BY <1>6, <2>1 DEF ReadStatus, PollAt
  <2>4. \A d \in Callers : Drawing(d)' <=> Drawing(d)
    BY <2>1, <2>2, <2>3 DEF Drawing
  <2>5. \A d \in Callers : Drawing(d)' /\ next' > 5 => drive' = None
    BY <2>2, <2>3
  <2> QED
    BY <2>2, <2>4, <2>5 DEF DriveInv
<1>7. ASSUME NEW c \in Callers, LUTTimeout(c) \/ Fail(c) PROVE DriveInv'
  BY <1>7, <1>b, <1>d DEF LUTTimeout, Fail
<1>8. ASSUME NEW c \in Callers, Return(c) PROVE DriveInv'
  <2>1. UNCHANGED <<drive, erred>> /\ lock = c
    BY <1>8 DEF Return, chip
  <2>2. ~erred => drive = None
    <3>1. CASE Drawing(c)
      <4>1. next > 5
        BY <1>8, <2>1, <3>1, Lengths DEF Return, Drawing, TypeInv
      <4> QED
        BY <3>1, <4>1 DEF DriveInv
    <3>2. CASE ~Drawing(c)
      <4>1. \A d \in Callers : ~Drawing(d)
        BY <2>1, <3>2 DEF Drawing
      <4> QED
        BY <4>1 DEF DriveInv
    <3> QED
      BY <3>1, <3>2
  <2>3. Leave(c, Idle) \/ Leave(c, Failed)
    BY <1>8 DEF Return, Outcomes, AtRest
  <2> QED
    BY <1>b, <1>d, <2>1, <2>2, <2>3
<1>9. CASE Settle
  <2>1. /\ drive # None /\ glass' = drive /\ drive' = None
        /\ UNCHANGED <<req, lock, next, mem, erred>>
    BY <1>9 DEF Settle
  <2>2. \A d \in Callers : Drawing(d)' <=> Drawing(d)
    BY <2>1 DEF Drawing
  <2> QED
    BY <2>1, <2>2 DEF DriveInv
<1>10. CASE UNCHANGED vars
  BY <1>10, <1>a DEF vars, chip, Drawing, Words
<1> QED
  BY <1>1, <1>2, <1>3, <1>4, <1>5, <1>6, <1>7, <1>8, <1>9, <1>10
  DEF Next, Step

-----------------------------------------------------------------------------
Inv == TypeInv /\ BusInv /\ DriveInv

LEMMA Invariance == Spec => []Inv
<1>1. Init => Inv
  BY TypeInit, BusInit, DriveInit DEF Inv
<1>2. Inv /\ [Next]_vars => Inv'
  BY TypeStep, BusStep, DriveStep DEF Inv
<1> QED
  BY <1>1, <1>2, PTL DEF Spec

(* The variables keep to their types, for any number of goroutines.        *)
THEOREM TypeCorrect == Spec => []TypeOK
<1>1. Inv => TypeOK
  BY DEF Inv, TypeInv
<1> QED
  BY <1>1, Invariance, PTL

(* Calls of any number of goroutines do not cut into each other's          *)
(* commands: the controller waits for the word that comes.                 *)
THEOREM ProtocolKept == Spec => []WordsExpected
<1>1. Inv => WordsExpected
  BY DEF Inv, BusInv, WordsExpected, Sending
<1> QED
  BY <1>1, Invariance, PTL

(* A Refresh returns when the panel shows the image and not before.        *)
THEOREM RefreshTruth == Spec => []RefreshShows
<1>1. Inv => RefreshShows
  <2> SUFFICES ASSUME Inv, NEW c \in Callers, lock = c,
                      req[c].op = "refresh", next > Len(Words(c)), ~erred
               PROVE  glass = mem /\ drive = None
    BY DEF RefreshShows
  <2>1. Len(Words(c)) = 5
    BY Lengths DEF Inv, TypeInv
  <2>2. Drawing(c) /\ next > 5
    BY <2>1 DEF Inv, TypeInv, TypeOK, Drawing
  <2>3. drive = None
    BY <2>2 DEF Inv, DriveInv
  <2>4. mem # None
    BY DriverAssumption DEF Inv, TypeInv, TypeOK
  <2> QED
    BY <2>2, <2>3, <2>4 DEF Inv, DriveInv
<1> QED
  BY <1>1, Invariance, PTL

-----------------------------------------------------------------------------
(* The driver implements Display.                                          *)

LEMMA SameRequests ==
  /\ Promise!Requests = Requests
  /\ Promise!AtRest = AtRest
  /\ Promise!Idle = Idle
  /\ Promise!Failed = Failed
BY DEF Promise!Requests, Promise!AtRest, Promise!Idle, Promise!Failed,
       Requests, AtRest, Idle, Failed

(* Whether the call in progress has done its work, seen by its holder.     *)
LEMMA WorkedHolder ==
  ASSUME NEW c \in Callers, lock = c
  PROVE  Worked <=> \/ req[c].op = "load" /\ next > 7
                    \/ req[c].op = "refresh" /\ next > 2
BY DriverAssumption DEF Worked

LEMMA PromiseInit == Init => Promise!Init
<1> SUFFICES ASSUME Init PROVE Promise!Init
  OBVIOUS
<1>1. Worked = FALSE
  BY DEF Init, Worked
<1> QED
  BY <1>1, SameRequests DEF Init, Promise!Init

LEMMA PromiseStep == Inv /\ [Next]_vars => [Promise!Next]_(Promise!vars)
<1> SUFFICES ASSUME Inv, [Next]_vars
             PROVE  [Promise!Next]_(Promise!vars)
  OBVIOUS
<1> USE DEF Inv
<1>1. ASSUME NEW c \in Callers, Call(c) PROVE Promise!Call(c)
  <2>1. \A d \in Callers : lock = d => d # c
    BY <1>1, RequestOps DEF Call, TypeInv
  <2>2. Worked' = Worked
    BY <1>1, <2>1 DEF Call, chip, Worked, TypeInv, TypeOK
  <2> QED
    BY <1>1, <2>2, SameRequests DEF Call, chip, Promise!Call
<1>2. ASSUME NEW c \in Callers, Acquire(c) PROVE Promise!Serve(c)
  <2>1. Worked = FALSE /\ Worked' = FALSE
    BY <1>2 DEF Acquire, Worked
  <2> QED
    BY <1>2, <2>1, SameRequests DEF Acquire, chip, Promise!Serve
<1>3. ASSUME NEW c \in Callers, SendWord(c) PROVE UNCHANGED Promise!vars
  <2>1. /\ req[c] \in Requests /\ next \in Nat /\ next >= 1
        /\ next <= Len(Words(c)) /\ lock = c
        /\ Word(c) \notin {"pixels", "panel"}
    BY <1>3, Within DEF SendWord, Sending
  <2>2. /\ req[c].op = "load" => next # 7
        /\ req[c].op = "refresh" => next # 2
    BY <2>1, WordFacts
  <2>3. UNCHANGED <<req, lock, mem, glass, drive>> /\ next' = next + 1
    BY <1>3 DEF SendWord
  <2>4. Worked' = Worked
    BY <2>1, <2>2, <2>3 DEF Worked
  <2> QED
    BY <2>3, <2>4 DEF Promise!vars
<1>4. ASSUME NEW c \in Callers, SendPixels(c) PROVE Promise!Load(c)
  <2>1. lock = c /\ req[c].op = "load" /\ next = 7
    BY <1>4, Within, WordFacts DEF SendPixels, Sending
  <2>2. UNCHANGED <<req, lock, glass>> /\ next' = 8 /\ Write(req[c].img)
    BY <1>4, <2>1 DEF SendPixels
  <2>3. Worked = FALSE /\ Worked' = TRUE
    BY <2>1, <2>2, DriverAssumption DEF Worked
  <2> QED
    BY <2>1, <2>2, <2>3 DEF Promise!Load, Write
<1>5. ASSUME NEW c \in Callers, SendPanel(c) PROVE Promise!Refresh(c)
  <2>1. lock = c /\ req[c].op = "refresh" /\ next = 2
    BY <1>5, Within, WordFacts DEF SendPanel, Sending
  <2>2. UNCHANGED <<req, lock, glass>> /\ next' = 3 /\ Trigger
    BY <1>5, <2>1 DEF SendPanel
  <2>3. Worked = FALSE /\ Worked' = TRUE
    BY <2>1, <2>2, DriverAssumption DEF Worked
  <2> QED
    BY <2>1, <2>2, <2>3 DEF Promise!Refresh, Trigger
<1>6. ASSUME NEW c \in Callers, ReadStatus(c) PROVE UNCHANGED Promise!vars
  <2>1. lock = c /\ req[c].op = "refresh" /\ next = 5
    BY <1>6, Within, WordFacts DEF ReadStatus, Sending
  <2>2. UNCHANGED <<req, lock, mem, glass, drive>>
    BY <1>6 DEF ReadStatus
  <2>3. next' = 6 \/ next' = 3
    BY <1>6, <2>1 DEF ReadStatus, PollAt
  <2>4. Worked = TRUE /\ Worked' = TRUE
    BY <2>1, <2>2, <2>3, DriverAssumption DEF Worked
  <2> QED
    BY <2>2, <2>4 DEF Promise!vars
<1>7. ASSUME NEW c \in Callers, LUTTimeout(c) PROVE Promise!Fail(c)
  <2>1. lock = c /\ Leave(c, Failed) /\ UNCHANGED <<mem, glass, drive>>
    BY <1>7 DEF LUTTimeout, Sending
  <2>2. Worked' = FALSE
    BY <2>1 DEF Leave, Worked
  <2> QED
    BY <2>1, <2>2, SameRequests DEF Leave, Promise!Fail
<1>8. ASSUME NEW c \in Callers, Fail(c) PROVE Promise!Fail(c)
  <2>1. lock = c /\ Leave(c, Failed) /\ UNCHANGED glass
    BY <1>8 DEF Fail, Sending
  <2>2. Worked' = FALSE
    BY <2>1 DEF Leave, Worked
  <2>3. CASE UNCHANGED <<mem, drive>>
    BY <2>1, <2>2, <2>3, SameRequests DEF Leave, Promise!Fail
  <2>4. CASE Word(c) = "pixels" /\ \E p \in {req[c].img, Torn} : Write(p)
    <3>1. req[c].op = "load" /\ next = 7
      BY <1>8, <2>4, Within, WordFacts DEF Fail
    <3>2. Worked = FALSE
      BY <2>1, <3>1, WorkedHolder DEF Worked
    <3> QED
      BY <2>1, <2>2, <2>4, <3>1, <3>2, SameRequests
      DEF Leave, Write, Promise!Fail
  <2>5. CASE Word(c) = "panel" /\ Trigger
    <3>1. req[c].op = "refresh" /\ next = 2
      BY <1>8, <2>5, Within, WordFacts DEF Fail
    <3>2. Worked = FALSE
      BY <2>1, <3>1, WorkedHolder DEF Worked
    <3> QED
      BY <2>1, <2>2, <2>5, <3>1, <3>2, SameRequests
      DEF Leave, Trigger, Promise!Fail
  <2> QED
    BY <1>8, <2>3, <2>4, <2>5 DEF Fail
<1>9. ASSUME NEW c \in Callers, Return(c)
      PROVE  Promise!Return(c) \/ Promise!Fail(c)
  <2>1. /\ lock = c /\ next > Len(Words(c))
        /\ Leave(c, Idle) \/ Leave(c, Failed)
        /\ UNCHANGED <<mem, glass, drive>>
    BY <1>9 DEF Return, Outcomes, AtRest, chip
  <2>2. req[c] \in Requests
    BY <2>1 DEF TypeInv
  <2>3. req[c].op = "load" => Worked
    <3>1. CASE req[c].op = "load"
      <4>1. Len(Words(c)) = 8
        BY <2>2, <3>1, Lengths
      <4>2. next > 7
        BY <2>1, <4>1 DEF TypeInv, TypeOK
      <4> QED
        BY <2>1, <3>1, <4>2, WorkedHolder
    <3> QED
      BY <3>1
  <2>4. req[c].op = "refresh" => Worked /\ drive = None
    <3>1. CASE req[c].op = "refresh"
      <4>1. Len(Words(c)) = 5
        BY <2>2, <3>1, Lengths
      <4>2. next > 5 /\ next > 2
        BY <2>1, <4>1 DEF TypeInv, TypeOK
      <4> QED
        BY <2>1, <3>1, <4>2, WorkedHolder DEF Drawing, DriveInv
    <3> QED
      BY <3>1
  <2>5. Worked' = FALSE
    BY <2>1 DEF Leave, Worked
  <2> QED
    BY <2>1, <2>3, <2>4, <2>5, SameRequests
    DEF Leave, Promise!Return, Promise!Fail
<1>10. CASE Settle
  <2>1. Worked' = Worked
    BY <1>10 DEF Settle, Worked
  <2> QED
    BY <1>10, <2>1 DEF Settle, Promise!Settle, Promise!Next
<1>11. CASE UNCHANGED vars
  BY <1>11 DEF vars, chip, Worked, Promise!vars
<1> QED
  BY <1>1, <1>2, <1>3, <1>4, <1>5, <1>6, <1>7, <1>8, <1>9, <1>10, <1>11
  DEF Next, Step, Promise!Next

(* Seen from the outside, the driver serves one call at a time, and a call *)
(* that returns without an error has done what it promises.                *)
THEOREM DriverIsDisplay == Spec => ImplementsDisplay
BY PromiseInit, PromiseStep, Invariance, PTL
DEF Spec, ImplementsDisplay, Promise!Spec
=============================================================================
