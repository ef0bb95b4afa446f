------------------------- MODULE CertManagerProofs -------------------------
(* Theorems about CertManager for all values of its constants: any number  *)
(* of handlers, any number of generations, crashes and failing calls.      *)
EXTENDS CertManager, TLAPS

(* TypeOK is not inductive alone: the certificate Start serves is there.   *)
TypeInv ==
  /\ TypeOK
  /\ kind[Main] = "boot" => phase = "loading"
  /\ phase \in {"loading", "loaded"} => \A f \in Files : mem[f] # Missing

(* The store is written under cm.mu except by ReissueClientCert, which     *)
(* writes only the client files; at boot nobody else runs.                 *)
LockInv ==
  /\ \A p \in Procs : kind[p] \in {"boot", "rotate"} => lock = p
  /\ \A p \in Procs : lock = p => kind[p] \in {"boot", "rotate"}
  /\ kind[Main] \in {"idle", "boot"}
  /\ \A c \in Callers : kind[c] # "boot"
  /\ phase = "loading" => kind[Main] = "boot"
  /\ phase \in {"down", "fatal", "loading", "loaded"}
       => \A c \in Callers : kind[c] = "idle"

(* What a goroutine has yet to write.                                      *)
WriterInv ==
  \A p \in Procs : /\ kind[p] = "idle" => todo[p] = {}
                   /\ kind[p] = "reissue" => todo[p] \subseteq ClientFiles
                   /\ open[p] # NoFile => open[p] \in todo[p]

(* Generations only grow, and what is in memory or on disk of the server's *)
(* material is at least the floor.                                         *)
FloorInv ==
  /\ floor <= drawn /\ \A p \in Procs : gen[p] <= drawn
  /\ \A f \in ServerFiles : mem[f] \in Nat => floor <= mem[f]
  /\ \A f \in ServerFiles : disk[f] \in Nat => floor <= disk[f]
  /\ \A p \in Procs : kind[p] \in {"boot", "rotate"} => floor <= gen[p]

(* Whoever holds the lock writes out what memory holds.                    *)
HolderInv ==
  \A p \in Procs : kind[p] \in {"boot", "rotate"}
    => \A f \in ServerFiles : /\ mem[f] = gen[p]
                              /\ f \notin todo[p] => disk[f] = gen[p]

(* Once a store was complete no file goes missing, and between two boots   *)
(* with no Rotate and no failing read the certificate on disk stays.       *)
IdentInv ==
  /\ phase \in {"loading", "loaded"} => ~failed
  /\ ident # 0 \/ phase \in {"loaded", "serving", "stopped"}
       => \A f \in Files : disk[f] # Missing
  /\ kind[Main] = "boot"
       => \A f \in Files : f \notin todo[Main] => disk[f] # Missing
  /\ ident # 0 /\ ~excused
       => /\ \A p \in Procs : kind[p] \notin {"boot", "rotate"}
          /\ disk["cert.pem"] = ident

-----------------------------------------------------------------------------
(* The variables keep to their types.                                      *)
LEMMA SpendType ==
  ASSUME used \in [Kinds -> Nat], NEW k \in Kinds, Spend(k)
  PROVE  used' \in [Kinds -> Nat]
BY DEF Spend

LEMMA DrawType ==
  ASSUME TypeOK, NEW p \in Procs, NEW job \in Jobs, NEW fs \in SUBSET Files,
         Draw(p, job, fs)
  PROVE  /\ mem' \in [Files -> Nat \cup {Missing, Torn}]
         /\ kind' \in [Procs -> Jobs]
         /\ gen' \in [Procs -> Nat]
         /\ todo' \in [Procs -> SUBSET Files]
         /\ open' \in [Procs -> Files \cup {NoFile}]
         /\ drawn' \in Nat
BY DEF Draw, TypeOK

LEMMA FinishType ==
  ASSUME TypeOK, NEW p \in Procs, Finish(p)
  PROVE  /\ kind' \in [Procs -> Jobs]
         /\ gen' \in [Procs -> Nat]
         /\ todo' \in [Procs -> SUBSET Files]
         /\ open' \in [Procs -> Files \cup {NoFile}]
         /\ lock' \in Procs \cup {NoOne}
BY DEF Finish, TypeOK, Jobs

(* What Draw and Finish do to each goroutine and file.                     *)
LEMMA DrawEffect ==
  ASSUME TypeOK, NEW p \in Procs, NEW job, NEW fs, Draw(p, job, fs)
  PROVE  /\ \A q \in Procs :
              /\ kind'[q] = IF q = p THEN job ELSE kind[q]
              /\ gen'[q] = IF q = p THEN drawn + 1 ELSE gen[q]
              /\ todo'[q] = IF q = p THEN fs ELSE todo[q]
              /\ open'[q] = open[q]
         /\ \A f \in Files :
              mem'[f] = IF f \in fs THEN drawn + 1 ELSE mem[f]
         /\ drawn' = drawn + 1
BY DEF Draw, TypeOK

LEMMA FinishEffect ==
  ASSUME TypeOK, NEW p \in Procs, Finish(p)
  PROVE  /\ \A q \in Procs :
              /\ kind'[q] = IF q = p THEN "idle" ELSE kind[q]
              /\ gen'[q] = gen[q]
              /\ todo'[q] = IF q = p THEN {} ELSE todo[q]
              /\ open'[q] = IF q = p THEN NoFile ELSE open[q]
         /\ lock' = IF lock = p THEN NoOne ELSE lock
BY DEF Finish, TypeOK

LEMMA OpenEffect ==
  ASSUME TypeOK, NEW p \in Procs, OpenFile(p)
  PROVE  /\ kind' = kind /\ gen' = gen /\ todo' = todo
         /\ \E f \in todo[p] : \A g \in Files :
              disk'[g] = IF g = f THEN Torn ELSE disk[g]
BY DEF OpenFile, TypeOK

LEMMA WriteEffect ==
  ASSUME TypeOK, NEW p \in Procs, WriteFile(p)
  PROVE  /\ kind' = kind /\ gen' = gen
         /\ \A q \in Procs :
              /\ todo'[q] = IF q = p THEN todo[q] \ {open[p]} ELSE todo[q]
              /\ open'[q] = IF q = p THEN NoFile ELSE open[q]
         /\ \A g \in Files :
              disk'[g] = IF g = open[p] THEN gen[p] ELSE disk[g]
BY DEF WriteFile, TypeOK

LEMMA TypeInit == Init => TypeInv
<1> SUFFICES ASSUME Init PROVE TypeInv
  OBVIOUS
<1>1. /\ mem \in [Files -> Nat \cup {Missing, Torn}]
      /\ disk \in [Files -> Nat \cup {Missing, Torn}]
  BY DEF Init
<1>2. /\ kind \in [Procs -> Jobs]
      /\ gen \in [Procs -> Nat]
      /\ todo \in [Procs -> SUBSET Files]
      /\ open \in [Procs -> Files \cup {NoFile}]
  BY DEF Init, Jobs
<1>3. used \in [Kinds -> Nat] /\ drawn \in Nat /\ floor \in Nat /\ ident \in Nat
  BY DEF Init
<1>4. phase \in Phases /\ lock \in Procs \cup {NoOne}
  BY DEF Init, Phases
<1>5. stopDue \in BOOLEAN /\ failed \in BOOLEAN /\ excused \in BOOLEAN
  BY DEF Init
<1>6. kind[Main] = "idle" /\ phase = "down"
  BY DEF Init, Procs
<1> QED
  BY <1>1, <1>2, <1>3, <1>4, <1>5, <1>6 DEF TypeOK, TypeInv

LEMMA TypeStep == TypeInv /\ [Next]_vars => TypeInv'
<1> SUFFICES ASSUME TypeInv, [Next]_vars PROVE TypeInv'
  OBVIOUS
<1> USE DEF TypeInv, TypeOK
<1>m. Main \in Procs /\ Callers \subseteq Procs /\ Main \notin Callers
  BY CertAssumption DEF Procs
<1>k. {"crash", "write", "read"} \subseteq Kinds
  BY DEF Kinds
<1>j. /\ {"boot", "rotate", "reissue"} \subseteq Jobs
      /\ ServerFiles \subseteq Files /\ ClientFiles \subseteq Files
  BY DEF Jobs, Files
<1>1. CASE BootLoad
  BY <1>1 DEF BootLoad, Phases, procs
<1>2. CASE BootGenerate
  <2>1. used' \in [Kinds -> Nat] /\ excused' \in BOOLEAN
    BY <1>2, <1>k, SpendType DEF BootGenerate
  <2>2. Draw(Main, "boot", Files)
    BY <1>2 DEF BootGenerate
  <2>3. phase' \in Phases /\ lock' \in Procs \cup {NoOne} /\ failed' \in BOOLEAN
    BY <1>2, <1>m DEF BootGenerate, Phases
  <2>4. \A f \in Files : mem'[f] # Missing
    BY <2>2, CertAssumption DEF Draw
  <2>5. /\ mem' \in [Files -> Nat \cup {Missing, Torn}]
        /\ kind' \in [Procs -> Jobs]
        /\ gen' \in [Procs -> Nat]
        /\ todo' \in [Procs -> SUBSET Files]
        /\ open' \in [Procs -> Files \cup {NoFile}]
        /\ drawn' \in Nat
    BY <2>2, <1>m, <1>j, DrawType
  <2> QED
    BY <1>2, <2>1, <2>3, <2>4, <2>5 DEF BootGenerate
<1>3. CASE BootDone
  <2>1. Finish(Main)
    BY <1>3 DEF BootDone
  <2>2. kind'[Main] = "idle" /\ phase = "loading"
    BY <1>3, <2>1, <1>m, FinishEffect DEF BootDone
  <2> QED
    BY <1>3, <2>1, <2>2, <1>m, FinishType DEF BootDone, Phases
<1>4. CASE Start
  <2>1. ident' \in Nat
    BY <1>4, CertAssumption DEF Start, Servable, Files, ServerFiles
  <2> QED
    BY <1>4, <2>1 DEF Start, Phases, procs
<1>5. CASE StartFails
  BY <1>5 DEF StartFails, Phases, procs
<1>6. ASSUME NEW c \in Callers, RotateBegin(c) PROVE TypeInv'
  <2>1. Draw(c, "rotate", Files)
    BY <1>6 DEF RotateBegin
  <2>2. kind'[Main] = kind[Main] /\ phase = "serving"
    BY <1>6, <2>1, <1>m, DrawEffect DEF RotateBegin
  <2> QED
    BY <1>6, <2>1, <2>2, <1>m, <1>j, DrawType DEF RotateBegin
<1>7. ASSUME NEW c \in Callers, RotateDone(c) PROVE TypeInv'
  <2>1. Finish(c)
    BY <1>7 DEF RotateDone
  <2>2. kind'[Main] = kind[Main]
    BY <2>1, <1>m, FinishEffect
  <2> QED
    BY <1>7, <2>1, <2>2, <1>m, FinishType DEF RotateDone
<1>8. ASSUME NEW c \in Callers, ReissueBegin(c) PROVE TypeInv'
  <2>1. Draw(c, "reissue", ClientFiles)
    BY <1>8 DEF ReissueBegin
  <2>2. kind'[Main] = kind[Main] /\ phase = "serving"
    BY <1>8, <2>1, <1>m, DrawEffect DEF ReissueBegin
  <2> QED
    BY <1>8, <2>1, <2>2, <1>m, <1>j, DrawType DEF ReissueBegin
<1>9. ASSUME NEW c \in Callers, ReissueDone(c) PROVE TypeInv'
  <2>1. Finish(c)
    BY <1>9 DEF ReissueDone
  <2>2. kind'[Main] = kind[Main]
    BY <2>1, <1>m, FinishEffect
  <2> QED
    BY <1>9, <2>1, <2>2, <1>m, FinishType DEF ReissueDone
<1>10. ASSUME NEW p \in Procs, OpenFile(p) PROVE TypeInv'
  BY <1>10 DEF OpenFile
<1>11. ASSUME NEW p \in Procs, WriteFile(p) PROVE TypeInv'
  BY <1>11 DEF WriteFile
<1>12. ASSUME NEW p \in Procs, WriteFails(p) PROVE TypeInv'
  <2>1. Finish(p) /\ used' \in [Kinds -> Nat] /\ failed' \in BOOLEAN
    BY <1>12, <1>k, SpendType DEF WriteFails
  <2>2. phase' \in Phases /\ mem' \in [Files -> Nat \cup {Missing, Torn}]
    BY <1>12 DEF WriteFails, Phases
  <2>3. /\ kind'[Main] = "boot" => kind[Main] = "boot" /\ p # Main
        /\ p # Main => phase' = phase /\ mem' = mem
    BY <1>12, <2>1, <1>m, FinishEffect DEF WriteFails
  <2>4. p = Main => phase' = "fatal"
    BY <1>12 DEF WriteFails
  <2> QED
    BY <1>12, <2>1, <2>2, <2>3, <2>4, FinishType DEF WriteFails
<1>13. CASE StopServer
  BY <1>13 DEF StopServer, Phases, procs
<1>14. CASE Crash
  <2>1. used' \in [Kinds -> Nat]
    BY <1>14, <1>k, SpendType DEF Crash
  <2>2. /\ mem' \in [Files -> Nat \cup {Missing, Torn}]
        /\ kind' \in [Procs -> Jobs]
        /\ todo' \in [Procs -> SUBSET Files]
        /\ open' \in [Procs -> Files \cup {NoFile}]
        /\ phase' \in Phases
        /\ phase' = "down" /\ kind'[Main] = "idle"
    BY <1>14, <1>m DEF Crash, Phases, Jobs
  <2> QED
    BY <1>14, <2>1, <2>2 DEF Crash
<1>15. CASE UNCHANGED vars
  BY <1>15 DEF vars, procs
<1> QED
  BY <1>1, <1>2, <1>3, <1>4, <1>5, <1>6, <1>7, <1>8, <1>9, <1>10, <1>11,
     <1>12, <1>13, <1>14, <1>15 DEF Next

-----------------------------------------------------------------------------
(* What is open is still to be written, and a reissue writes no server     *)
(* file.                                                                   *)
LEMMA WriterStep ==
  ASSUME TypeInv, WriterInv, [Next]_vars
  PROVE  WriterInv'
<1> USE DEF TypeInv, WriterInv
<1>m. /\ Main \in Procs /\ Callers \subseteq Procs /\ Main \notin Callers
      /\ NoOne \notin Procs
      /\ \A p \in Procs : p = Main \/ p \in Callers
  BY CertAssumption DEF Procs
<1>1. CASE BootLoad
  BY <1>1, <1>m DEF BootLoad, procs
<1>2. CASE BootGenerate
  <2>1. Draw(Main, "boot", Files)
    BY <1>2 DEF BootGenerate
  <2>2. open[Main] \in Files \cup {NoFile}
    BY <1>m DEF TypeOK
  <2> QED
    BY <1>2, <2>1, <2>2, <1>m, DrawEffect DEF BootGenerate
<1>3. CASE BootDone
  <2>1. Finish(Main)
    BY <1>3 DEF BootDone
  <2> QED
    BY <1>3, <2>1, <1>m, FinishEffect DEF BootDone
<1>4. CASE Start
  BY <1>4, <1>m DEF Start, procs
<1>5. CASE StartFails
  BY <1>5, <1>m DEF StartFails, procs
<1>6. ASSUME NEW c \in Callers, RotateBegin(c) PROVE WriterInv'
  <2>1. Draw(c, "rotate", Files)
    BY <1>6 DEF RotateBegin
  <2> QED
    BY <1>6, <2>1, <1>m, DrawEffect DEF RotateBegin
<1>7. ASSUME NEW c \in Callers, RotateDone(c) PROVE WriterInv'
  <2>1. Finish(c)
    BY <1>7 DEF RotateDone
  <2> QED
    BY <1>7, <2>1, <1>m, FinishEffect DEF RotateDone
<1>8. ASSUME NEW c \in Callers, ReissueBegin(c) PROVE WriterInv'
  <2>1. Draw(c, "reissue", ClientFiles)
    BY <1>8 DEF ReissueBegin
  <2> QED
    BY <1>8, <2>1, <1>m, DrawEffect DEF ReissueBegin
<1>9. ASSUME NEW c \in Callers, ReissueDone(c) PROVE WriterInv'
  <2>1. Finish(c)
    BY <1>9 DEF ReissueDone
  <2> QED
    BY <1>9, <2>1, <1>m, FinishEffect DEF ReissueDone
<1>10. ASSUME NEW p \in Procs, OpenFile(p) PROVE WriterInv'
  BY <1>10, <1>m DEF OpenFile
<1>11. ASSUME NEW p \in Procs, WriteFile(p) PROVE WriterInv'
  <2>1. /\ kind' = kind
        /\ \A q \in Procs :
             /\ todo'[q] = IF q = p THEN todo[q] \ {open[p]} ELSE todo[q]
             /\ open'[q] = IF q = p THEN NoFile ELSE open[q]
    BY <1>11, WriteEffect
  <2> QED
    BY <2>1
<1>12. ASSUME NEW p \in Procs, WriteFails(p) PROVE WriterInv'
  <2>1. Finish(p)
    BY <1>12 DEF WriteFails
  <2> QED
    BY <1>12, <2>1, <1>m, FinishEffect DEF WriteFails
<1>13. CASE StopServer
  BY <1>13, <1>m DEF StopServer, procs
<1>14. CASE Crash
  BY <1>14, <1>m DEF Crash
<1>15. CASE UNCHANGED vars
  BY <1>15 DEF vars, procs
<1> QED
  BY <1>1, <1>2, <1>3, <1>4, <1>5, <1>6, <1>7, <1>8, <1>9, <1>10, <1>11,
     <1>12, <1>13, <1>14, <1>15 DEF Next

(* Only one goroutine at a time is inside regenerateLocked, and only a     *)
(* serving process has others.                                             *)
LEMMA LockStep ==
  ASSUME TypeInv, WriterInv, LockInv, [Next]_vars
  PROVE  LockInv'
<1> USE DEF TypeInv, LockInv
<1>m. /\ Main \in Procs /\ Callers \subseteq Procs /\ Main \notin Callers
      /\ NoOne \notin Procs
      /\ \A p \in Procs : p = Main \/ p \in Callers
  BY CertAssumption DEF Procs
<1>1. CASE BootLoad
  BY <1>1, <1>m DEF BootLoad, procs
<1>2. CASE BootGenerate
  <2>1. Draw(Main, "boot", Files)
    BY <1>2 DEF BootGenerate
  <2> QED
    BY <1>2, <2>1, <1>m, DrawEffect DEF BootGenerate
<1>3. CASE BootDone
  <2>1. Finish(Main)
    BY <1>3 DEF BootDone
  <2> QED
    BY <1>3, <2>1, <1>m, FinishEffect DEF BootDone
<1>4. CASE Start
  BY <1>4, <1>m DEF Start, procs
<1>5. CASE StartFails
  BY <1>5, <1>m DEF StartFails, procs
<1>6. ASSUME NEW c \in Callers, RotateBegin(c) PROVE LockInv'
  <2>1. Draw(c, "rotate", Files)
    BY <1>6 DEF RotateBegin
  <2> QED
    BY <1>6, <2>1, <1>m, DrawEffect DEF RotateBegin
<1>7. ASSUME NEW c \in Callers, RotateDone(c) PROVE LockInv'
  <2>1. Finish(c)
    BY <1>7 DEF RotateDone
  <2> QED
    BY <1>7, <2>1, <1>m, FinishEffect DEF RotateDone
<1>8. ASSUME NEW c \in Callers, ReissueBegin(c) PROVE LockInv'
  <2>1. Draw(c, "reissue", ClientFiles)
    BY <1>8 DEF ReissueBegin
  <2> QED
    BY <1>8, <2>1, <1>m, DrawEffect DEF ReissueBegin
<1>9. ASSUME NEW c \in Callers, ReissueDone(c) PROVE LockInv'
  <2>1. Finish(c)
    BY <1>9 DEF ReissueDone
  <2> QED
    BY <1>9, <2>1, <1>m, FinishEffect DEF ReissueDone
<1>10. ASSUME NEW p \in Procs, OpenFile(p) PROVE LockInv'
  BY <1>10, <1>m DEF OpenFile
<1>11. ASSUME NEW p \in Procs, WriteFile(p) PROVE LockInv'
  BY <1>11, <1>m DEF WriteFile
<1>12. ASSUME NEW p \in Procs, WriteFails(p) PROVE LockInv'
  <2>1. Finish(p)
    BY <1>12 DEF WriteFails
  <2>2. /\ \A q \in Procs : kind'[q] = IF q = p THEN "idle" ELSE kind[q]
        /\ lock' = IF lock = p THEN NoOne ELSE lock
    BY <2>1, FinishEffect
  <2>3. phase' = IF p = Main THEN "fatal" ELSE phase
    BY <1>12 DEF WriteFails
  <2>4. p = Main => phase = "loading"
    BY <1>12 DEF WriteFails, WriterInv
  <2> QED
    BY <2>2, <2>3, <2>4, <1>m
<1>13. CASE StopServer
  BY <1>13, <1>m DEF StopServer, procs
<1>14. CASE Crash
  BY <1>14, <1>m DEF Crash
<1>15. CASE UNCHANGED vars
  BY <1>15 DEF vars, procs
<1> QED
  BY <1>1, <1>2, <1>3, <1>4, <1>5, <1>6, <1>7, <1>8, <1>9, <1>10, <1>11,
     <1>12, <1>13, <1>14, <1>15 DEF Next

(* What the holder of the lock has written is what memory holds.           *)
LEMMA HolderStep ==
  ASSUME TypeInv, WriterInv, LockInv, HolderInv,
         [Next]_vars
  PROVE  HolderInv'
<1> USE DEF TypeInv, WriterInv, LockInv, HolderInv
<1>m. /\ Main \in Procs /\ Callers \subseteq Procs /\ Main \notin Callers
      /\ NoOne \notin Procs
      /\ \A p \in Procs : p = Main \/ p \in Callers
  BY CertAssumption DEF Procs
<1>f. /\ Files = ServerFiles \cup ClientFiles
      /\ ServerFiles \cap ClientFiles = {}
      /\ "cert.pem" \in ServerFiles /\ NoFile \notin Files
      /\ Missing \notin Nat /\ Torn \notin Nat /\ Missing # Torn
  BY CertAssumption DEF Files, ServerFiles, ClientFiles
<1>t. TypeOK
  BY DEF TypeInv
<1>1. CASE BootLoad
  BY <1>1, <1>m, <1>f, <1>t DEF BootLoad, procs
<1>2. CASE BootGenerate
  <2>1. Draw(Main, "boot", Files)
    BY <1>2 DEF BootGenerate
  <2> QED
    BY <1>2, <2>1, <1>m, <1>f, <1>t, DrawEffect DEF BootGenerate
<1>3. CASE BootDone
  <2>1. Finish(Main)
    BY <1>3 DEF BootDone
  <2> QED
    BY <1>3, <2>1, <1>m, <1>f, <1>t, FinishEffect DEF BootDone
<1>4. CASE Start
  BY <1>4, <1>m, <1>f, <1>t DEF Start, procs
<1>5. CASE StartFails
  BY <1>5, <1>m, <1>f, <1>t DEF StartFails, procs
<1>6. ASSUME NEW c \in Callers, RotateBegin(c) PROVE HolderInv'
  <2>1. Draw(c, "rotate", Files)
    BY <1>6 DEF RotateBegin
  <2> QED
    BY <1>6, <2>1, <1>m, <1>f, <1>t, DrawEffect DEF RotateBegin
<1>7. ASSUME NEW c \in Callers, RotateDone(c) PROVE HolderInv'
  <2>1. Finish(c)
    BY <1>7 DEF RotateDone
  <2> QED
    BY <1>7, <2>1, <1>m, <1>f, <1>t, FinishEffect DEF RotateDone
<1>8. ASSUME NEW c \in Callers, ReissueBegin(c) PROVE HolderInv'
  <2>1. Draw(c, "reissue", ClientFiles)
    BY <1>8 DEF ReissueBegin
  <2> QED
    BY <1>8, <2>1, <1>m, <1>f, <1>t, DrawEffect DEF ReissueBegin
<1>9. ASSUME NEW c \in Callers, ReissueDone(c) PROVE HolderInv'
  <2>1. Finish(c)
    BY <1>9 DEF ReissueDone
  <2> QED
    BY <1>9, <2>1, <1>m, <1>f, <1>t, FinishEffect DEF ReissueDone
<1>10. ASSUME NEW p \in Procs, OpenFile(p) PROVE HolderInv'
  <2>1. kind' = kind /\ gen' = gen /\ todo' = todo /\ mem' = mem
    BY <1>10, <1>t, OpenEffect DEF OpenFile
  <2>2. PICK f \in todo[p] : \A g \in Files :
          disk'[g] = IF g = f THEN Torn ELSE disk[g]
    BY <1>10, <1>t, OpenEffect
  <2>3. f \in ServerFiles => kind[p] \in {"boot", "rotate"}
    BY <1>t, <1>f DEF TypeOK, Jobs
  <2> QED
    BY <2>1, <2>2, <2>3, <1>f
<1>11. ASSUME NEW p \in Procs, WriteFile(p) PROVE HolderInv'
  <2>1. /\ kind' = kind /\ gen' = gen /\ mem' = mem
        /\ \A q \in Procs :
             todo'[q] = IF q = p THEN todo[q] \ {open[p]} ELSE todo[q]
        /\ \A g \in Files :
             disk'[g] = IF g = open[p] THEN gen[p] ELSE disk[g]
    BY <1>11, <1>t, WriteEffect DEF WriteFile
  <2>2. open[p] \in todo[p]
    BY <1>11 DEF WriteFile
  <2>3. open[p] \in ServerFiles => kind[p] \in {"boot", "rotate"}
    BY <2>2, <1>t, <1>f DEF TypeOK, Jobs
  <2> SUFFICES ASSUME NEW q \in Procs, kind[q] \in {"boot", "rotate"},
                      NEW f \in ServerFiles
               PROVE  mem[f] = gen[q] /\ (f \notin todo'[q] => disk'[f] = gen[q])
    BY <2>1
  <2>4. mem[f] = gen[q] /\ (f \notin todo[q] => disk[f] = gen[q])
    OBVIOUS
  <2>5. f \in Files
    BY <1>f
  <2>6. CASE f = open[p]
    BY <2>1, <2>3, <2>4, <2>5, <2>6
  <2>7. CASE f # open[p]
    BY <2>1, <2>4, <2>5, <2>7
  <2> QED
    BY <2>6, <2>7
<1>12. ASSUME NEW p \in Procs, WriteFails(p) PROVE HolderInv'
  <2>1. Finish(p)
    BY <1>12 DEF WriteFails
  <2> QED
    BY <1>12, <2>1, <1>m, <1>f, <1>t, FinishEffect DEF WriteFails
<1>13. CASE StopServer
  BY <1>13, <1>m, <1>f, <1>t DEF StopServer, procs
<1>14. CASE Crash
  BY <1>14, <1>m, <1>f, <1>t DEF Crash
<1>15. CASE UNCHANGED vars
  BY <1>15 DEF vars, procs
<1> QED
  BY <1>1, <1>2, <1>3, <1>4, <1>5, <1>6, <1>7, <1>8, <1>9, <1>10, <1>11,
     <1>12, <1>13, <1>14, <1>15 DEF Next

-----------------------------------------------------------------------------
(* Once a Rotate has returned without an error, no older server            *)
(* certificate, key or token comes back into force.                        *)
LEMMA FloorStep ==
  ASSUME TypeInv, WriterInv, LockInv, HolderInv,
         FloorInv,
         [Next]_vars
  PROVE  FloorInv'
<1> USE DEF TypeInv, WriterInv, LockInv, HolderInv, FloorInv
<1>m. /\ Main \in Procs /\ Callers \subseteq Procs /\ Main \notin Callers
      /\ NoOne \notin Procs
      /\ \A p \in Procs : p = Main \/ p \in Callers
  BY CertAssumption DEF Procs
<1>f. /\ Files = ServerFiles \cup ClientFiles
      /\ ServerFiles \cap ClientFiles = {}
      /\ "cert.pem" \in ServerFiles /\ NoFile \notin Files
      /\ Missing \notin Nat /\ Torn \notin Nat /\ Missing # Torn
  BY CertAssumption DEF Files, ServerFiles, ClientFiles
<1>t. TypeOK
  BY DEF TypeInv
<1>n. /\ floor \in Nat /\ drawn \in Nat /\ gen \in [Procs -> Nat]
      /\ disk \in [Files -> Nat \cup {Missing, Torn}]
      /\ mem \in [Files -> Nat \cup {Missing, Torn}]
  BY <1>t DEF TypeOK
<1>1. CASE BootLoad
  BY <1>1, <1>m, <1>f, <1>t, <1>n DEF BootLoad, procs
<1>2. CASE BootGenerate
  <2>1. Draw(Main, "boot", Files)
    BY <1>2 DEF BootGenerate
  <2> QED
    BY <1>2, <2>1, <1>m, <1>f, <1>t, <1>n, DrawEffect DEF BootGenerate
<1>3. CASE BootDone
  <2>1. Finish(Main)
    BY <1>3 DEF BootDone
  <2> QED
    BY <1>3, <2>1, <1>m, <1>f, <1>t, <1>n, FinishEffect DEF BootDone
<1>4. CASE Start
  BY <1>4, <1>m, <1>f, <1>t, <1>n DEF Start, procs
<1>5. CASE StartFails
  BY <1>5, <1>m, <1>f, <1>t, <1>n DEF StartFails, procs
<1>6. ASSUME NEW c \in Callers, RotateBegin(c) PROVE FloorInv'
  <2>1. Draw(c, "rotate", Files)
    BY <1>6 DEF RotateBegin
  <2> QED
    BY <1>6, <2>1, <1>m, <1>f, <1>t, <1>n, DrawEffect DEF RotateBegin
<1>7. ASSUME NEW c \in Callers, RotateDone(c) PROVE FloorInv'
  <2>1. Finish(c)
    BY <1>7 DEF RotateDone
  <2> QED
    BY <1>7, <2>1, <1>m, <1>f, <1>t, <1>n, FinishEffect DEF RotateDone
<1>8. ASSUME NEW c \in Callers, ReissueBegin(c) PROVE FloorInv'
  <2>1. Draw(c, "reissue", ClientFiles)
    BY <1>8 DEF ReissueBegin
  <2> QED
    BY <1>8, <2>1, <1>m, <1>f, <1>t, <1>n, DrawEffect DEF ReissueBegin
<1>9. ASSUME NEW c \in Callers, ReissueDone(c) PROVE FloorInv'
  <2>1. Finish(c)
    BY <1>9 DEF ReissueDone
  <2> QED
    BY <1>9, <2>1, <1>m, <1>f, <1>t, <1>n, FinishEffect DEF ReissueDone
<1>10. ASSUME NEW p \in Procs, OpenFile(p) PROVE FloorInv'
  <2>1. /\ kind' = kind /\ gen' = gen /\ todo' = todo /\ mem' = mem
        /\ open[p] = NoFile
    BY <1>10, <1>t, OpenEffect DEF OpenFile
  <2>2. PICK f \in todo[p] : \A g \in Files :
          disk'[g] = IF g = f THEN Torn ELSE disk[g]
    BY <1>10, <1>t, OpenEffect
  <2>3. f \in Files /\ (f \in ServerFiles => kind[p] \in {"boot", "rotate"})
    BY <1>t, <1>f DEF TypeOK, Jobs
  <2> QED
    BY <1>10, <2>1, <2>2, <2>3, <1>m, <1>f, <1>n DEF OpenFile
<1>11. ASSUME NEW p \in Procs, WriteFile(p) PROVE FloorInv'
  <2>1. /\ kind' = kind /\ gen' = gen /\ mem' = mem
        /\ \A q \in Procs :
             todo'[q] = IF q = p THEN todo[q] \ {open[p]} ELSE todo[q]
        /\ \A g \in Files :
             disk'[g] = IF g = open[p] THEN gen[p] ELSE disk[g]
    BY <1>11, <1>t, WriteEffect DEF WriteFile
  <2>2. open[p] \in todo[p] /\ open[p] \in Files /\ gen[p] \in Nat
    BY <1>11, <1>t DEF WriteFile, TypeOK
  <2>3. open[p] \in ServerFiles => kind[p] \in {"boot", "rotate"}
    BY <2>2, <1>t, <1>f DEF TypeOK, Jobs
  <2> QED
    BY <1>11, <2>1, <2>2, <2>3, <1>m, <1>f, <1>n DEF WriteFile
<1>12. ASSUME NEW p \in Procs, WriteFails(p) PROVE FloorInv'
  <2>1. Finish(p)
    BY <1>12 DEF WriteFails
  <2> QED
    BY <1>12, <2>1, <1>m, <1>f, <1>t, <1>n, FinishEffect DEF WriteFails
<1>13. CASE StopServer
  BY <1>13, <1>m, <1>f, <1>t, <1>n DEF StopServer, procs
<1>14. CASE Crash
  BY <1>14, <1>m, <1>f, <1>t, <1>n DEF Crash
<1>15. CASE UNCHANGED vars
  BY <1>15 DEF vars, procs
<1> QED
  BY <1>1, <1>2, <1>3, <1>4, <1>5, <1>6, <1>7, <1>8, <1>9, <1>10, <1>11,
     <1>12, <1>13, <1>14, <1>15 DEF Next

-----------------------------------------------------------------------------
(* What a running agent holds of the server's material is on disk, unless  *)
(* its last Rotate failed.                                                 *)
LEMMA SavedStep ==
  ASSUME TypeInv, WriterInv, LockInv, HolderInv,
         ServerFilesSaved,
         [Next]_vars
  PROVE  ServerFilesSaved'
<1> USE DEF TypeInv, WriterInv, LockInv, HolderInv, ServerFilesSaved
<1>m. /\ Main \in Procs /\ Callers \subseteq Procs /\ Main \notin Callers
      /\ NoOne \notin Procs
      /\ \A p \in Procs : p = Main \/ p \in Callers
  BY CertAssumption DEF Procs
<1>f. /\ Files = ServerFiles \cup ClientFiles
      /\ ServerFiles \cap ClientFiles = {}
      /\ "cert.pem" \in ServerFiles /\ NoFile \notin Files
      /\ Missing \notin Nat /\ Torn \notin Nat /\ Missing # Torn
  BY CertAssumption DEF Files, ServerFiles, ClientFiles
<1>t. TypeOK
  BY DEF TypeInv
<1>1. CASE BootLoad
  BY <1>1, <1>m, <1>f, <1>t DEF BootLoad, procs
<1>2. CASE BootGenerate
  <2>1. Draw(Main, "boot", Files)
    BY <1>2 DEF BootGenerate
  <2> QED
    BY <1>2, <2>1, <1>m, <1>f, <1>t, DrawEffect DEF BootGenerate
<1>3. CASE BootDone
  <2>1. Finish(Main)
    BY <1>3 DEF BootDone
  <2> QED
    BY <1>3, <2>1, <1>m, <1>f, <1>t, FinishEffect DEF BootDone
<1>4. CASE Start
  BY <1>4, <1>m, <1>f, <1>t DEF Start, procs
<1>5. CASE StartFails
  BY <1>5, <1>m, <1>f, <1>t DEF StartFails, procs
<1>6. ASSUME NEW c \in Callers, RotateBegin(c) PROVE ServerFilesSaved'
  <2>1. Draw(c, "rotate", Files)
    BY <1>6 DEF RotateBegin
  <2> QED
    BY <1>6, <2>1, <1>m, <1>f, <1>t, DrawEffect DEF RotateBegin
<1>7. ASSUME NEW c \in Callers, RotateDone(c) PROVE ServerFilesSaved'
  <2>1. Finish(c)
    BY <1>7 DEF RotateDone
  <2> QED
    BY <1>7, <2>1, <1>m, <1>f, <1>t, FinishEffect DEF RotateDone
<1>8. ASSUME NEW c \in Callers, ReissueBegin(c) PROVE ServerFilesSaved'
  <2>1. Draw(c, "reissue", ClientFiles)
    BY <1>8 DEF ReissueBegin
  <2> QED
    BY <1>8, <2>1, <1>m, <1>f, <1>t, DrawEffect DEF ReissueBegin
<1>9. ASSUME NEW c \in Callers, ReissueDone(c) PROVE ServerFilesSaved'
  <2>1. Finish(c)
    BY <1>9 DEF ReissueDone
  <2> QED
    BY <1>9, <2>1, <1>m, <1>f, <1>t, FinishEffect DEF ReissueDone
<1>10. ASSUME NEW p \in Procs, OpenFile(p) PROVE ServerFilesSaved'
  <2>1. /\ kind' = kind /\ gen' = gen /\ todo' = todo /\ mem' = mem
        /\ open[p] = NoFile
    BY <1>10, <1>t, OpenEffect DEF OpenFile
  <2>2. PICK f \in todo[p] : \A g \in Files :
          disk'[g] = IF g = f THEN Torn ELSE disk[g]
    BY <1>10, <1>t, OpenEffect
  <2>3. f \in Files /\ (f \in ServerFiles => kind[p] \in {"boot", "rotate"})
    BY <1>t, <1>f DEF TypeOK, Jobs
  <2> QED
    BY <1>10, <2>1, <2>2, <2>3, <1>m, <1>f DEF OpenFile
<1>11. ASSUME NEW p \in Procs, WriteFile(p) PROVE ServerFilesSaved'
  <2>1. /\ kind' = kind /\ gen' = gen /\ mem' = mem
        /\ \A q \in Procs :
             todo'[q] = IF q = p THEN todo[q] \ {open[p]} ELSE todo[q]
        /\ \A g \in Files :
             disk'[g] = IF g = open[p] THEN gen[p] ELSE disk[g]
    BY <1>11, <1>t, WriteEffect DEF WriteFile
  <2>2. open[p] \in todo[p] /\ open[p] \in Files /\ gen[p] \in Nat
    BY <1>11, <1>t DEF WriteFile, TypeOK
  <2>3. open[p] \in ServerFiles => kind[p] \in {"boot", "rotate"}
    BY <2>2, <1>t, <1>f DEF TypeOK, Jobs
  <2> QED
    BY <1>11, <2>1, <2>2, <2>3, <1>m, <1>f DEF WriteFile
<1>12. ASSUME NEW p \in Procs, WriteFails(p) PROVE ServerFilesSaved'
  <2>1. Finish(p)
    BY <1>12 DEF WriteFails
  <2> QED
    BY <1>12, <2>1, <1>m, <1>f, <1>t, FinishEffect DEF WriteFails
<1>13. CASE StopServer
  BY <1>13, <1>m, <1>f, <1>t DEF StopServer, procs
<1>14. CASE Crash
  BY <1>14, <1>m, <1>f, <1>t DEF Crash
<1>15. CASE UNCHANGED vars
  BY <1>15 DEF vars, procs
<1> QED
  BY <1>1, <1>2, <1>3, <1>4, <1>5, <1>6, <1>7, <1>8, <1>9, <1>10, <1>11,
     <1>12, <1>13, <1>14, <1>15 DEF Next

-----------------------------------------------------------------------------
(* A restart without a Rotate presents the same certificate.               *)
LEMMA IdentStep ==
  ASSUME TypeInv, WriterInv, LockInv, HolderInv,
         ServerFilesSaved, IdentInv,
         [Next]_vars
  PROVE  IdentInv'
<1> USE DEF TypeInv, WriterInv, LockInv, HolderInv, ServerFilesSaved,
        IdentInv
<1>m. /\ Main \in Procs /\ Callers \subseteq Procs /\ Main \notin Callers
      /\ NoOne \notin Procs
      /\ \A p \in Procs : p = Main \/ p \in Callers
  BY CertAssumption DEF Procs
<1>f. /\ Files = ServerFiles \cup ClientFiles
      /\ ServerFiles \cap ClientFiles = {}
      /\ "cert.pem" \in ServerFiles /\ NoFile \notin Files
      /\ Missing \notin Nat /\ Torn \notin Nat /\ Missing # Torn
  BY CertAssumption DEF Files, ServerFiles, ClientFiles
<1>t. TypeOK
  BY DEF TypeInv
<1>1. CASE BootLoad
  BY <1>1, <1>m, <1>f, <1>t DEF BootLoad, procs
<1>2. CASE BootGenerate
  <2>1. Draw(Main, "boot", Files)
    BY <1>2 DEF BootGenerate
  <2> QED
    BY <1>2, <2>1, <1>m, <1>f, <1>t, DrawEffect DEF BootGenerate
<1>3. CASE BootDone
  <2>1. Finish(Main)
    BY <1>3 DEF BootDone
  <2> QED
    BY <1>3, <2>1, <1>m, <1>f, <1>t, FinishEffect DEF BootDone
<1>4. CASE Start
  <2>1. \A p \in Procs : kind[p] \notin {"boot", "rotate"}
    BY <1>4, <1>m DEF Start
  <2>2. lock = NoOne
    BY <2>1, <1>t DEF TypeOK
  <2>3. disk["cert.pem"] = mem["cert.pem"]
    BY <1>4, <2>2, <1>f DEF Start
  <2> QED
    BY <1>4, <2>1, <2>3 DEF Start, procs
<1>5. CASE StartFails
  BY <1>5, <1>m, <1>f, <1>t DEF StartFails, procs
<1>6. ASSUME NEW c \in Callers, RotateBegin(c) PROVE IdentInv'
  <2>1. Draw(c, "rotate", Files)
    BY <1>6 DEF RotateBegin
  <2> QED
    BY <1>6, <2>1, <1>m, <1>f, <1>t, DrawEffect DEF RotateBegin
<1>7. ASSUME NEW c \in Callers, RotateDone(c) PROVE IdentInv'
  <2>1. Finish(c)
    BY <1>7 DEF RotateDone
  <2> QED
    BY <1>7, <2>1, <1>m, <1>f, <1>t, FinishEffect DEF RotateDone
<1>8. ASSUME NEW c \in Callers, ReissueBegin(c) PROVE IdentInv'
  <2>1. Draw(c, "reissue", ClientFiles)
    BY <1>8 DEF ReissueBegin
  <2> QED
    BY <1>8, <2>1, <1>m, <1>f, <1>t, DrawEffect DEF ReissueBegin
<1>9. ASSUME NEW c \in Callers, ReissueDone(c) PROVE IdentInv'
  <2>1. Finish(c)
    BY <1>9 DEF ReissueDone
  <2> QED
    BY <1>9, <2>1, <1>m, <1>f, <1>t, FinishEffect DEF ReissueDone
<1>10. ASSUME NEW p \in Procs, OpenFile(p) PROVE IdentInv'
  <2>1. /\ kind' = kind /\ gen' = gen /\ todo' = todo /\ mem' = mem
        /\ open[p] = NoFile
    BY <1>10, <1>t, OpenEffect DEF OpenFile
  <2>2. PICK f \in todo[p] : \A g \in Files :
          disk'[g] = IF g = f THEN Torn ELSE disk[g]
    BY <1>10, <1>t, OpenEffect
  <2>3. f \in Files /\ (f \in ServerFiles => kind[p] \in {"boot", "rotate"})
    BY <1>t, <1>f DEF TypeOK, Jobs
  <2> QED
    BY <1>10, <2>1, <2>2, <2>3, <1>m, <1>f DEF OpenFile
<1>11. ASSUME NEW p \in Procs, WriteFile(p) PROVE IdentInv'
  <2>1. /\ kind' = kind /\ gen' = gen /\ mem' = mem
        /\ \A q \in Procs :
             todo'[q] = IF q = p THEN todo[q] \ {open[p]} ELSE todo[q]
        /\ \A g \in Files :
             disk'[g] = IF g = open[p] THEN gen[p] ELSE disk[g]
    BY <1>11, <1>t, WriteEffect DEF WriteFile
  <2>2. open[p] \in todo[p] /\ open[p] \in Files /\ gen[p] \in Nat
    BY <1>11, <1>t DEF WriteFile, TypeOK
  <2>3. open[p] \in ServerFiles => kind[p] \in {"boot", "rotate"}
    BY <2>2, <1>t, <1>f DEF TypeOK, Jobs
  <2> QED
    BY <1>11, <2>1, <2>2, <2>3, <1>m, <1>f DEF WriteFile
<1>12. ASSUME NEW p \in Procs, WriteFails(p) PROVE IdentInv'
  <2>1. Finish(p)
    BY <1>12 DEF WriteFails
  <2> QED
    BY <1>12, <2>1, <1>m, <1>f, <1>t, FinishEffect DEF WriteFails
<1>13. CASE StopServer
  BY <1>13, <1>m, <1>f, <1>t DEF StopServer, procs
<1>14. CASE Crash
  BY <1>14, <1>m, <1>f, <1>t DEF Crash
<1>15. CASE UNCHANGED vars
  BY <1>15 DEF vars, procs
<1> QED
  BY <1>1, <1>2, <1>3, <1>4, <1>5, <1>6, <1>7, <1>8, <1>9, <1>10, <1>11,
     <1>12, <1>13, <1>14, <1>15 DEF Next

-----------------------------------------------------------------------------
(* The whole is inductive.                                                 *)
Inv ==
  /\ TypeInv
  /\ WriterInv
  /\ LockInv
  /\ HolderInv
  /\ FloorInv
  /\ ServerFilesSaved
  /\ IdentInv

LEMMA InvInit == Init => Inv
<1> SUFFICES ASSUME Init PROVE Inv
  OBVIOUS
<1>1. TypeInv
  BY TypeInit
<1>2. /\ \A p \in Procs : kind[p] = "idle" /\ todo[p] = {} /\ gen[p] = 0
      /\ \A p \in Procs : open[p] = NoFile
      /\ Main \in Procs /\ Callers \subseteq Procs /\ NoOne \notin Procs
  BY CertAssumption DEF Init, Procs
<1>3. \A f \in ServerFiles : mem[f] = Missing /\ disk[f] = Missing
  BY DEF Init, Files
<1>4. WriterInv /\ HolderInv /\ IdentInv
  BY <1>2 DEF Init, WriterInv, HolderInv, IdentInv
<1>5. LockInv
  BY <1>2 DEF Init, LockInv
<1>6. FloorInv
  BY <1>2, <1>3, CertAssumption DEF Init, FloorInv
<1>7. ServerFilesSaved
  BY DEF Init, ServerFilesSaved
<1> QED
  BY <1>1, <1>4, <1>5, <1>6, <1>7 DEF Inv

LEMMA InvStep == Inv /\ [Next]_vars => Inv'
BY TypeStep, WriterStep, LockStep, HolderStep, FloorStep, SavedStep, IdentStep
   DEF Inv

LEMMA InvHolds == Spec => []Inv
BY InvInit, InvStep, PTL DEF Spec

(* Every variable keeps to its type; in particular the generation of a     *)
(* certificate that is served is a number, never a missing or torn file.   *)
THEOREM TypeCorrect == Spec => []TypeOK
<1>1. Inv => TypeOK
  BY DEF Inv, TypeInv
<1> QED
  BY InvHolds, <1>1, PTL

(* Rotate takes server material out of use for good.                       *)
THEOREM RotateRevokes == Spec => []NoServerMaterialReturns
<1>1. Inv => NoServerMaterialReturns
  <2> SUFFICES ASSUME Inv, NEW f \in ServerFiles, mem[f] \in Nat
               PROVE  mem[f] >= floor
    BY DEF NoServerMaterialReturns
  <2>1. floor \in Nat /\ floor <= mem[f]
    BY DEF Inv, TypeInv, TypeOK, FloorInv
  <2> QED
    BY <2>1
<1> QED
  BY InvHolds, <1>1, PTL

(* An agent whose last Rotate did not fail can be restarted as it is.      *)
THEOREM ServerSaved == Spec => []ServerFilesSaved
<1>1. Inv => ServerFilesSaved
  BY DEF Inv
<1> QED
  BY InvHolds, <1>1, PTL

(* Only Rotate, or a file that cannot be read, changes the certificate a   *)
(* restart presents.                                                       *)
THEOREM IdentityStable == Spec => IdentityKept
<1>1. Inv /\ [Next]_vars
        => [phase = "loaded" /\ phase' = "serving" /\ ident # 0 /\ ~excused
              => ident' = ident]_vars
  <2> SUFFICES ASSUME Inv, Next, phase = "loaded", phase' = "serving",
                      ident # 0, ~excused
               PROVE  ident' = ident
    OBVIOUS
  <2>1. Start
    BY DEF Next, BootLoad, BootGenerate, BootDone, StartFails, RotateBegin,
           RotateDone, ReissueBegin, ReissueDone, OpenFile, WriteFile,
           WriteFails, StopServer, Crash
  <2>2. lock \notin Procs
    BY DEF Inv, LockInv, TypeInv, Procs
  <2>3. lock = NoOne /\ ~failed
    BY <2>2 DEF Inv, TypeInv, TypeOK, IdentInv
  <2>4. disk["cert.pem"] = mem["cert.pem"]
    BY <2>3 DEF Inv, ServerFilesSaved, ServerFiles
  <2>5. disk["cert.pem"] = ident
    BY DEF Inv, IdentInv
  <2> QED
    BY <2>1, <2>4, <2>5 DEF Start
<1> QED
  BY InvHolds, <1>1, PTL DEF Spec, IdentityKept
=============================================================================
