---------------------------- MODULE PullerProofs ----------------------------
(* Theorems about Puller for all values of its constants: any number of     *)
(* servers, devices and frames, any poll intervals, and no bound on how     *)
(* often the configuration is set, calls fail, pages change and others      *)
(* write to the panel (Limit is any function into Nat).                     *)
EXTENDS Puller, TLAPS

(* Who may still write late: a poll that has its snapshot works for the     *)
(* configuration in force, or it has yet to write, or it is the last.       *)
LateInv ==
  /\ late \in 0..1
  /\ late = 1 => /\ pc = "poll" => enabled
                 /\ pc \in {"call", "load"} => ~Outdated

(* What the frame at hand has to do with the panel while it is applied.     *)
PanelInv ==
  /\ pc = "refresh" /\ memMine => mem = reply.hash
  /\ pc = "commit" /\ glassMine => glass = reply.hash
  /\ glassMine => drive = Still
  /\ HashTracksPanel

-----------------------------------------------------------------------------
(* TypeOK alone is not inductive: a call is made for an address and a       *)
(* device, and a frame that is being applied is at hand.                    *)
TypeInv ==
  /\ TypeOK
  /\ pc = "call" => snap.addr \in Servers /\ snap.dev \in Devices
  /\ pc \in {"load", "refresh", "commit"} => reply \in Reply

(* Spending one unit of the budget leaves a budget.                         *)
LEMMA SpendType ==
  ASSUME used \in [Kinds -> Nat], NEW kind \in Kinds, Spend(kind)
  PROVE  used' \in [Kinds -> Nat]
BY DEF Spend

LEMMA ReplyFields ==
  ASSUME NEW r \in Reply
  PROVE  /\ r.hash \in Frames
         /\ r.unchanged \in BOOLEAN
         /\ r.next \in Int
BY PullerAssumption DEF Reply

(* The variables keep to their types: what a poll carries over several      *)
(* steps is what a server can send and a configuration can hold.            *)
LEMMA TypeInit == Init => TypeInv
<1> SUFFICES ASSUME Init PROVE TypeInv
  OBVIOUS
<1>1. used \in [Kinds -> Nat] /\ content \in [Servers \X Devices -> Frames]
  BY DEF Init
<1>2. snap \in [addr : Servers \cup {Empty}, dev : Devices \cup {Empty},
               hash : Frames \cup {Empty}]
  BY DEF Init
<1>3. /\ mem \in Frames \cup {Torn} /\ glass \in Frames \cup {Torn}
      /\ drive \in Frames \cup {Torn, Still}
  BY DEF Init
<1>4. /\ contentAddr \in Servers \cup {Empty}
      /\ deviceID \in Devices \cup {Empty}
      /\ interval \in Int
      /\ lastHash \in Frames \cup {Empty}
      /\ reply \in Reply \cup {NoReply}
      /\ late \in Nat
      /\ pc \in Status /\ pc \notin {"call", "load", "refresh", "commit"}
  BY DEF Init, Status
<1>5. /\ enabled \in BOOLEAN /\ lastErr \in BOOLEAN /\ cancelled \in BOOLEAN
      /\ memMine \in BOOLEAN /\ glassMine \in BOOLEAN
  BY DEF Init
<1> QED
  BY <1>1, <1>2, <1>3, <1>4, <1>5 DEF TypeOK, TypeInv

LEMMA DriveTypes ==
  ASSUME TypeOK
  PROVE  /\ Spoils \subseteq Frames \cup {Torn, Still}
         /\ Starts(mem) \subseteq Frames \cup {Torn}
BY DEF TypeOK, Spoils, Starts

LEMMA TypeStep == TypeInv /\ [Next]_vars => TypeInv'
<1> SUFFICES ASSUME TypeInv, [Next]_vars PROVE TypeInv'
  OBVIOUS
<1> USE DEF TypeInv, TypeOK, Status, config, panel
<1>k. {"set", "change", "fault", "push"} \subseteq Kinds
  BY DEF Kinds
<1>r. reply \in Reply => reply.hash \in Frames /\ reply.next \in Int
  BY ReplyFields
<1>d. /\ Spoils \subseteq Frames \cup {Torn, Still}
      /\ Starts(mem) \subseteq Frames \cup {Torn}
      /\ Still \in Frames \cup {Torn, Still}
  BY DriveTypes
<1>1. ASSUME NEW on \in BOOLEAN, NEW addr \in Servers \cup {Empty},
             NEW dev \in Devices \cup {Empty}, NEW secs \in Intervals,
             SetPullMode(on, addr, dev, secs)
      PROVE  TypeInv'
  <2>1. used' \in [Kinds -> Nat]
    BY <1>1, <1>k, SpendType DEF SetPullMode
  <2>2. interval' \in Int
    BY <1>1, PullerAssumption DEF SetPullMode
  <2>3. enabled' \in BOOLEAN /\ lastErr' \in BOOLEAN
    BY <1>1 DEF SetPullMode
  <2> QED
    BY <1>1, <2>1, <2>2, <2>3 DEF SetPullMode
<1>2. CASE PushLoad
  <2>1. used' \in [Kinds -> Nat]
    BY <1>2, <1>k, SpendType DEF PushLoad
  <2>2. mem' \in Frames \cup {Torn} /\ drive' \in Frames \cup {Torn, Still}
    BY <1>2, <1>d DEF PushLoad
  <2>3. memMine' \in BOOLEAN /\ glassMine' \in BOOLEAN
    BY <1>2 DEF PushLoad
  <2> QED
    BY <1>2, <2>1, <2>2, <2>3 DEF PushLoad
<1>3. CASE PushRefresh
  <2>1. used' \in [Kinds -> Nat]
    BY <1>3, <1>k, SpendType DEF PushRefresh
  <2>2. glass' \in Frames \cup {Torn} /\ drive' \in Frames \cup {Torn, Still}
    BY <1>3, <1>d DEF PushRefresh
  <2>3. memMine' \in BOOLEAN /\ glassMine' \in BOOLEAN
    BY <1>3 DEF PushRefresh
  <2> QED
    BY <1>3, <2>1, <2>2, <2>3 DEF PushRefresh
<1>4. CASE PageChanges
  BY <1>4, <1>k, SpendType DEF PageChanges
<1>5. CASE Cancel
  BY <1>5 DEF Cancel
<1>6. CASE RunCheck
  BY <1>6 DEF RunCheck
<1>7. CASE RunTimer
  BY <1>7 DEF RunTimer
<1>8. CASE RunReturn
  BY <1>8 DEF RunReturn
<1>9. CASE PollSnapshot
  BY <1>9 DEF PollSnapshot
<1>10. CASE ServeFrame
  <2>1. reply' \in Reply
    BY <1>10 DEF ServeFrame, Reply
  <2> QED
    BY <1>10, <2>1 DEF ServeFrame
<1>11. CASE CallFails
  BY <1>11, <1>k, SpendType DEF CallFails
<1>12. CASE ReceiveFrame
  BY <1>12, <1>r DEF ReceiveFrame
<1>13. CASE ApplyRefused
  BY <1>13 DEF ApplyRefused
<1>14. CASE ApplyLoad
  <2>1. used' \in [Kinds -> Nat]
    BY <1>14, <1>k, SpendType DEF ApplyLoad
  <2>2. mem' \in Frames \cup {Torn} /\ drive' \in Frames \cup {Torn, Still}
    BY <1>14, <1>r, <1>d DEF ApplyLoad
  <2>3. late' \in Nat
    BY <1>14 DEF ApplyLoad
  <2>4. pc' \in Status /\ reply' \in Reply \cup {NoReply}
    BY <1>14 DEF ApplyLoad
  <2>5. memMine' \in BOOLEAN
    BY <1>14 DEF ApplyLoad
  <2> QED
    BY <1>14, <2>1, <2>2, <2>3, <2>4, <2>5 DEF ApplyLoad
<1>15. CASE ApplyRefresh
  <2>1. used' \in [Kinds -> Nat]
    BY <1>15, <1>k, SpendType DEF ApplyRefresh
  <2>2. glass' \in Frames \cup {Torn} /\ drive' \in Frames \cup {Torn, Still}
    BY <1>15, <1>d DEF ApplyRefresh
  <2>3. pc' \in Status /\ reply' \in Reply \cup {NoReply}
    BY <1>15 DEF ApplyRefresh
  <2>4. glassMine' \in BOOLEAN
    BY <1>15 DEF ApplyRefresh
  <2> QED
    BY <1>15, <2>1, <2>2, <2>3, <2>4 DEF ApplyRefresh
<1>16. CASE ApplyCommit
  <2>1. lastHash' \in Frames \cup {Empty}
    BY <1>16, <1>r DEF ApplyCommit
  <2>2. pc' = "wait" /\ reply' = NoReply /\ lastErr' \in BOOLEAN
    BY <1>16 DEF ApplyCommit
  <2> QED
    BY <1>16, <2>1, <2>2 DEF ApplyCommit
<1>17. CASE RecordErr
  BY <1>17 DEF RecordErr
<1>18. CASE UNCHANGED vars
  BY <1>18 DEF vars
<1>19. CASE Settle
  BY <1>19 DEF Settle
<1> QED
  BY <1>1, <1>2, <1>3, <1>4, <1>5, <1>6, <1>7, <1>8, <1>9, <1>10, <1>11,
     <1>12, <1>13, <1>14, <1>15, <1>16, <1>17, <1>18, <1>19 DEF Next, Run

THEOREM TypeCorrect == Spec => []TypeOK
<1>1. TypeInv => TypeOK
  BY DEF TypeInv
<1> QED
  BY TypeInit, TypeStep, <1>1, PTL DEF Spec

-----------------------------------------------------------------------------
(* An enabled puller has an address, a device and a positive interval,      *)
(* though a poll under way overwrites the interval SetPullMode has set.     *)
LEMMA RunnableStep == TypeInv /\ EnabledIsRunnable /\ [Next]_vars => EnabledIsRunnable'
<1> SUFFICES ASSUME TypeInv, EnabledIsRunnable, [Next]_vars PROVE EnabledIsRunnable'
  OBVIOUS
<1> USE DEF EnabledIsRunnable, config, panel
<1>1. ASSUME NEW on \in BOOLEAN, NEW addr \in Servers \cup {Empty},
             NEW dev \in Devices \cup {Empty}, NEW secs \in Intervals,
             SetPullMode(on, addr, dev, secs)
      PROVE  EnabledIsRunnable'
  <2>1. secs \in Int /\ DefaultInterval \in Int /\ DefaultInterval > 0
    BY PullerAssumption
  <2> QED
    BY <1>1, <2>1 DEF SetPullMode
<1>2. CASE PushLoad
  BY <1>2 DEF PushLoad
<1>3. CASE PushRefresh
  BY <1>3 DEF PushRefresh
<1>4. CASE PageChanges
  BY <1>4 DEF PageChanges
<1>5. CASE Cancel
  BY <1>5 DEF Cancel
<1>6. CASE RunCheck
  BY <1>6 DEF RunCheck
<1>7. CASE RunTimer
  BY <1>7 DEF RunTimer
<1>8. CASE RunReturn
  BY <1>8 DEF RunReturn
<1>9. CASE PollSnapshot
  BY <1>9 DEF PollSnapshot
<1>10. CASE ServeFrame
  BY <1>10 DEF ServeFrame
<1>11. CASE CallFails
  BY <1>11 DEF CallFails
<1>12. CASE ReceiveFrame
  BY <1>12 DEF ReceiveFrame
<1>13. CASE ApplyRefused
  BY <1>13 DEF ApplyRefused
<1>14. CASE ApplyLoad
  BY <1>14 DEF ApplyLoad
<1>15. CASE ApplyRefresh
  BY <1>15 DEF ApplyRefresh
<1>16. CASE ApplyCommit
  BY <1>16 DEF ApplyCommit
<1>17. CASE RecordErr
  BY <1>17 DEF RecordErr
<1>18. CASE UNCHANGED vars
  BY <1>18 DEF vars
<1>19. CASE Settle
  BY <1>19 DEF Settle
<1> QED
  BY <1>1, <1>2, <1>3, <1>4, <1>5, <1>6, <1>7, <1>8, <1>9, <1>10, <1>11,
     <1>12, <1>13, <1>14, <1>15, <1>16, <1>17, <1>18, <1>19 DEF Next, Run

THEOREM Runnable == Spec => []EnabledIsRunnable
<1>1. Init => EnabledIsRunnable
  BY DEF Init, EnabledIsRunnable
<1> QED
  BY <1>1, TypeInit, TypeStep, RunnableStep, PTL DEF Spec

-----------------------------------------------------------------------------
(* A SetPullMode that disables or retargets the puller is followed by at    *)
(* most one write for what it replaced, however many polls, errors and      *)
(* waits come after.                                                        *)
LEMMA LateStep == TypeInv /\ LateInv /\ [Next]_vars => LateInv'
<1> SUFFICES ASSUME TypeInv, LateInv, [Next]_vars PROVE LateInv'
  OBVIOUS
<1> USE DEF LateInv, Outdated, config, panel
<1>1. ASSUME NEW on \in BOOLEAN, NEW addr \in Servers \cup {Empty},
             NEW dev \in Devices \cup {Empty}, NEW secs \in Intervals,
             SetPullMode(on, addr, dev, secs)
      PROVE  LateInv'
  BY <1>1 DEF SetPullMode
<1>2. CASE PushLoad
  BY <1>2 DEF PushLoad
<1>3. CASE PushRefresh
  BY <1>3 DEF PushRefresh
<1>4. CASE PageChanges
  BY <1>4 DEF PageChanges
<1>5. CASE Cancel
  BY <1>5 DEF Cancel
<1>6. CASE RunCheck
  BY <1>6 DEF RunCheck
<1>7. CASE RunTimer
  BY <1>7 DEF RunTimer
<1>8. CASE RunReturn
  BY <1>8 DEF RunReturn
<1>9. CASE PollSnapshot
  BY <1>9 DEF PollSnapshot
<1>10. CASE ServeFrame
  BY <1>10 DEF ServeFrame
<1>11. CASE CallFails
  BY <1>11 DEF CallFails
<1>12. CASE ReceiveFrame
  BY <1>12 DEF ReceiveFrame
<1>13. CASE ApplyRefused
  BY <1>13 DEF ApplyRefused
<1>14. CASE ApplyLoad
  BY <1>14 DEF ApplyLoad
<1>15. CASE ApplyRefresh
  BY <1>15 DEF ApplyRefresh
<1>16. CASE ApplyCommit
  BY <1>16 DEF ApplyCommit
<1>17. CASE RecordErr
  BY <1>17 DEF RecordErr
<1>18. CASE UNCHANGED vars
  BY <1>18 DEF vars
<1>19. CASE Settle
  BY <1>19 DEF Settle
<1> QED
  BY <1>1, <1>2, <1>3, <1>4, <1>5, <1>6, <1>7, <1>8, <1>9, <1>10, <1>11,
     <1>12, <1>13, <1>14, <1>15, <1>16, <1>17, <1>18, <1>19 DEF Next, Run

THEOREM LateWrites == Spec => []AtMostOneLateWrite
<1>1. Init => LateInv
  BY DEF Init, LateInv
<1>2. LateInv => AtMostOneLateWrite
  BY DEF LateInv, AtMostOneLateWrite
<1> QED
  BY <1>1, <1>2, TypeInit, TypeStep, LateStep, PTL DEF Spec

-----------------------------------------------------------------------------
(* The hash sent to the content server names the picture on the glass,      *)
(* unless somebody else, or a Refresh that failed half-way, wrote to the    *)
(* panel since or was still drawing then.                                   *)
LEMMA PanelStep == TypeInv /\ PanelInv /\ [Next]_vars => PanelInv'
<1> SUFFICES ASSUME TypeInv, PanelInv, [Next]_vars PROVE PanelInv'
  OBVIOUS
<1> USE DEF PanelInv, HashTracksPanel, config, panel
<1>1. ASSUME NEW on \in BOOLEAN, NEW addr \in Servers \cup {Empty},
             NEW dev \in Devices \cup {Empty}, NEW secs \in Intervals,
             SetPullMode(on, addr, dev, secs)
      PROVE  PanelInv'
  BY <1>1 DEF SetPullMode
<1>2. CASE PushLoad
  BY <1>2 DEF PushLoad
<1>3. CASE PushRefresh
  BY <1>3 DEF PushRefresh
<1>4. CASE PageChanges
  BY <1>4 DEF PageChanges
<1>5. CASE Cancel
  BY <1>5 DEF Cancel
<1>6. CASE RunCheck
  BY <1>6 DEF RunCheck
<1>7. CASE RunTimer
  BY <1>7 DEF RunTimer
<1>8. CASE RunReturn
  BY <1>8 DEF RunReturn
<1>9. CASE PollSnapshot
  BY <1>9 DEF PollSnapshot
<1>10. CASE ServeFrame
  BY <1>10 DEF ServeFrame
<1>11. CASE CallFails
  BY <1>11 DEF CallFails
<1>12. CASE ReceiveFrame
  BY <1>12 DEF ReceiveFrame
<1>13. CASE ApplyRefused
  BY <1>13 DEF ApplyRefused
<1>14. CASE ApplyLoad
  <2>1. glassMine => drive' = Still
    BY <1>14 DEF ApplyLoad, Spoils
  <2> QED
    BY <1>14, <2>1 DEF ApplyLoad
<1>15. CASE ApplyRefresh
  <2>1. CASE pc' = "commit"
    BY <1>15, <2>1 DEF ApplyRefresh, Starts
  <2>2. CASE pc' = "fail"
    BY <1>15, <2>2 DEF ApplyRefresh
  <2> QED
    BY <1>15, <2>1, <2>2 DEF ApplyRefresh
<1>16. CASE ApplyCommit
  BY <1>16 DEF ApplyCommit
<1>17. CASE RecordErr
  BY <1>17 DEF RecordErr
<1>18. CASE UNCHANGED vars
  BY <1>18 DEF vars
<1>19. CASE Settle
  BY <1>19 DEF Settle
<1> QED
  BY <1>1, <1>2, <1>3, <1>4, <1>5, <1>6, <1>7, <1>8, <1>9, <1>10, <1>11,
     <1>12, <1>13, <1>14, <1>15, <1>16, <1>17, <1>18, <1>19 DEF Next, Run

THEOREM HashTruth == Spec => []HashTracksPanel
<1>1. Init => PanelInv
  BY DEF Init, PanelInv, HashTracksPanel
<1>2. PanelInv => HashTracksPanel
  BY DEF PanelInv
<1> QED
  BY <1>1, <1>2, TypeInit, TypeStep, PanelStep, PTL DEF Spec
=============================================================================
