---------------------------- MODULE CertManager ----------------------------
(***************************************************************************)
(* The credentials of an agent (signagegrpc/certmanager.go): a server      *)
(* certificate and key, a client certificate and key and two bearer        *)
(* tokens, in memory and in six files, through boots, Rotate and           *)
(* ReissueClientCert calls that run concurrently, writes that fail and     *)
(* crashes between any two steps.                                          *)
(*                                                                         *)
(* Material is its generation: a certificate and a key match when they are *)
(* of the same generation, and a later one is drawn later.  os.WriteFile   *)
(* truncates the file and then writes it; until then it is Torn.  Of two   *)
(* writers to one file the last write wins.                                *)
(***************************************************************************)
EXTENDS Integers

CONSTANTS
  Callers,     \* goroutines of the RPC handlers
  Main,        \* the goroutine that boots the agent
  NoOne,       \* nobody holds cm.mu
  NoFile,      \* no file is open
  Missing,     \* a file that is not there; memory not loaded
  Torn,        \* a file that was truncated and not written
  EnableMTLS,  \* cfg.EnableMTLS
  MaxGen,      \* how many generations of material can be drawn
  Limit        \* how often each kind of mishap may happen

Kinds == {"crash", "write", "read"}

ServerFiles == {"cert.pem", "key.pem", "token.txt", "admin-token.txt"}
ClientFiles == {"client-cert.pem", "client-key.pem"}
Files       == ServerFiles \cup ClientFiles
Procs       == Callers \cup {Main}

ASSUME CertAssumption ==
  /\ Main \notin Callers
  /\ NoOne \notin Callers \cup {Main}
  /\ NoFile \notin ServerFiles \cup ClientFiles
  /\ Missing \notin Nat /\ Torn \notin Nat /\ Missing # Torn
  /\ EnableMTLS \in BOOLEAN
  /\ MaxGen \in Nat
  /\ Limit \in [Kinds -> Nat]

VARIABLES
  phase,    \* of the process: down, loading, loaded, serving, stopped, fatal
  lock,     \* who holds cm.mu for writing
  mem,      \* the fields of CertManager, by the file they go to
  disk,     \* filesDir/tls
  kind,     \* what a goroutine is doing to the store
  gen,      \* the material it has drawn
  todo,     \* the files it has yet to write
  open,     \* the file it has truncated
  stopDue,  \* a rotateRequest is on its way
  drawn,    \* generations drawn so far
  used      \* how much of Limit is spent

(* History variables: only the properties read them.                       *)
VARIABLES
  floor,    \* the newest generation a Rotate or a first boot has completed
  failed,   \* the last Rotate of this process failed
  ident,    \* generation of the certificate served last, 0 for none
  excused   \* since then a Rotate began or a file could not be read

procs == <<kind, gen, todo, open>>
vars  == <<phase, lock, mem, disk, procs, stopDue, drawn, used,
           floor, failed, ident, excused>>

Phases == {"down", "loading", "loaded", "serving", "stopped", "fatal"}
Jobs   == {"idle", "boot", "rotate", "reissue"}

Spend(k) ==
  /\ used[k] < Limit[k]
  /\ used' = [used EXCEPT ![k] = @ + 1]

Init ==
  /\ phase = "down"
  /\ lock = NoOne
  /\ mem = [f \in Files |-> Missing]
  /\ disk = [f \in Files |-> Missing]
  /\ kind = [p \in Procs |-> "idle"]
  /\ gen = [p \in Procs |-> 0]
  /\ todo = [p \in Procs |-> {}]
  /\ open = [p \in Procs |-> NoFile]
  /\ stopDue = FALSE
  /\ drawn = 0
  /\ used = [k \in Kinds |-> 0]
  /\ floor = 0
  /\ failed = FALSE
  /\ ident = 0
  /\ excused = FALSE

(* p draws new material and sets out to write it to fs.                    *)
Draw(p, job, fs) ==
  /\ drawn < MaxGen
  /\ drawn' = drawn + 1
  /\ kind' = [kind EXCEPT ![p] = job]
  /\ gen' = [gen EXCEPT ![p] = drawn + 1]
  /\ todo' = [todo EXCEPT ![p] = fs]
  /\ mem' = [f \in Files |-> IF f \in fs THEN drawn + 1 ELSE mem[f]]
  /\ UNCHANGED open

(* The job of p is over, and what it held is released.                     *)
Finish(p) ==
  /\ kind' = [kind EXCEPT ![p] = "idle"]
  /\ todo' = [todo EXCEPT ![p] = {}]
  /\ open' = [open EXCEPT ![p] = NoFile]
  /\ lock' = IF lock = p THEN NoOne ELSE lock
  /\ UNCHANGED gen

-----------------------------------------------------------------------------
(* Booting: NewCertManager, then Start.                                    *)

(* Mutated: a missing file is read as an empty one.                        *)
BootLoadUnchecked ==
  /\ phase \in {"down", "fatal"}
  /\ phase' = "loaded"
  /\ mem' = disk
  /\ failed' = FALSE
  /\ UNCHANGED <<lock, disk, procs, stopDue, drawn, used, floor, ident,
                 excused>>

(* loadOrInit finds and reads all six files; a torn one is read as it is.  *)
BootLoad ==
  /\ phase \in {"down", "fatal"}
  /\ \A f \in Files : disk[f] # Missing
  /\ phase' = "loaded"
  /\ mem' = disk
  /\ failed' = FALSE
  /\ UNCHANGED <<lock, disk, procs, stopDue, drawn, used, floor, ident,
                 excused>>

(* Mutated: only what is missing is written.                               *)
BootGeneratePart ==
  /\ phase \in {"down", "fatal"}
  /\ \/ /\ \E f \in Files : disk[f] = Missing
        /\ UNCHANGED <<used, excused>>
     \/ Spend("read") /\ excused' = TRUE
  /\ phase' = "loading"
  /\ lock' = Main
  /\ drawn < MaxGen
  /\ drawn' = drawn + 1
  /\ kind' = [kind EXCEPT ![Main] = "boot"]
  /\ gen' = [gen EXCEPT ![Main] = drawn + 1]
  /\ todo' = [todo EXCEPT ![Main] = {f \in Files : disk[f] = Missing}]
  /\ mem' = [f \in Files |-> drawn + 1]
  /\ failed' = FALSE
  /\ UNCHANGED <<disk, open, stopDue, floor, ident>>

(* Mutated: a damaged file has everything generated anew.                  *)
BootGenerateDamaged ==
  /\ phase \in {"down", "fatal"}
  /\ \/ /\ \E f \in Files : disk[f] \in {Missing, Torn}
        /\ UNCHANGED <<used, excused>>
     \/ Spend("read") /\ excused' = TRUE
  /\ phase' = "loading"
  /\ lock' = Main
  /\ Draw(Main, "boot", Files)
  /\ failed' = FALSE
  /\ UNCHANGED <<disk, stopDue, floor, ident>>

(* A file is missing or cannot be read: everything is generated anew.      *)
BootGenerate ==
  /\ phase \in {"down", "fatal"}
  /\ \/ /\ \E f \in Files : disk[f] = Missing
        /\ UNCHANGED <<used, excused>>
     \/ Spend("read") /\ excused' = TRUE
  /\ phase' = "loading"
  /\ lock' = Main
  /\ Draw(Main, "boot", Files)
  /\ failed' = FALSE
  /\ UNCHANGED <<disk, stopDue, floor, ident>>

BootDone ==
  /\ kind[Main] = "boot"
  /\ todo[Main] = {}
  /\ phase' = "loaded"
  /\ Finish(Main)
  /\ floor' = gen[Main]
  /\ UNCHANGED <<mem, disk, stopDue, drawn, used, failed, ident, excused>>

(* What Start can serve: X509KeyPair and, with mTLS, ClientCAPool succeed. *)
Servable ==
  /\ mem["cert.pem"] # Torn
  /\ mem["cert.pem"] = mem["key.pem"]
  /\ EnableMTLS => mem["client-cert.pem"] # Torn

Start ==
  /\ phase = "loaded"
  /\ phase' = "serving"
  /\ Servable
  /\ ident' = mem["cert.pem"]
  /\ excused' = FALSE
  /\ UNCHANGED <<lock, mem, disk, procs, stopDue, drawn, used, floor, failed>>

(* log.Fatalf("server start").                                             *)
StartFails ==
  /\ phase = "loaded"
  /\ ~Servable
  /\ phase' = "fatal"
  /\ mem' = [f \in Files |-> Missing]
  /\ UNCHANGED <<lock, disk, procs, stopDue, drawn, used, floor, failed,
                 ident, excused>>

-----------------------------------------------------------------------------
(* The calls.                                                              *)

(* Rotate takes cm.mu and keeps it until all is written.                   *)
RotateBegin(c) ==
  /\ phase = "serving"
  /\ kind[c] = "idle"
  /\ lock = NoOne
  /\ lock' = c
  /\ Draw(c, "rotate", Files)
  /\ excused' = TRUE
  /\ UNCHANGED <<phase, disk, stopDue, used, floor, failed, ident>>

(* Mutated: Rotate stops at a file that is still to be written, without an *)
(* error.                                                                  *)
RotateDoneEarly(c) ==
  /\ kind[c] = "rotate"
  /\ open[c] = NoFile
  /\ Finish(c)
  /\ stopDue' = TRUE
  /\ floor' = gen[c]
  /\ failed' = FALSE
  /\ UNCHANGED <<phase, mem, disk, drawn, used, ident, excused>>

RotateDone(c) ==
  /\ kind[c] = "rotate"
  /\ todo[c] = {}
  /\ Finish(c)
  /\ stopDue' = TRUE
  /\ floor' = gen[c]
  /\ failed' = FALSE
  /\ UNCHANGED <<phase, mem, disk, drawn, used, ident, excused>>

(* ReissueClientCert holds cm.mu only to set the fields.                   *)
ReissueBegin(c) ==
  /\ phase = "serving"
  /\ kind[c] = "idle"
  /\ lock = NoOne
  /\ Draw(c, "reissue", ClientFiles)
  /\ UNCHANGED <<phase, lock, disk, stopDue, used, floor, failed, ident,
                 excused>>

ReissueDone(c) ==
  /\ kind[c] = "reissue"
  /\ todo[c] = {}
  /\ Finish(c)
  /\ stopDue' = TRUE
  /\ UNCHANGED <<phase, mem, disk, drawn, used, floor, failed, ident, excused>>

(* rotateRequest stops the server; handlers under way run on, and nothing  *)
(* starts it again.                                                        *)
StopServer ==
  /\ stopDue
  /\ phase = "serving"
  /\ phase' = "stopped"
  /\ UNCHANGED <<lock, mem, disk, procs, stopDue, drawn, used, floor, failed,
                 ident, excused>>

-----------------------------------------------------------------------------
(* os.WriteFile.                                                           *)

(* regenerateLocked ranges over a map, so its files come in any order;     *)
(* ReissueClientCert writes the certificate first.                         *)
OpenFile(p) ==
  /\ open[p] = NoFile
  /\ \E f \in todo[p] :
       /\ kind[p] = "reissue" /\ f = "client-key.pem"
            => "client-cert.pem" \notin todo[p]
       /\ open' = [open EXCEPT ![p] = f]
       /\ disk' = [disk EXCEPT ![f] = Torn]
  /\ UNCHANGED <<phase, lock, mem, kind, gen, todo, stopDue, drawn, used,
                 floor, failed, ident, excused>>

WriteFile(p) ==
  /\ open[p] # NoFile
  /\ disk' = [disk EXCEPT ![open[p]] = gen[p]]
  /\ todo' = [todo EXCEPT ![p] = @ \ {open[p]}]
  /\ open' = [open EXCEPT ![p] = NoFile]
  /\ UNCHANGED <<phase, lock, mem, kind, gen, stopDue, drawn, used, floor,
                 failed, ident, excused>>

(* A write, or the truncation before it, fails: the call returns an error  *)
(* and memory stays as it is; at boot the process exits.                   *)
WriteFails(p) ==
  /\ todo[p] # {}
  /\ Spend("write")
  /\ Finish(p)
  /\ IF p = Main
       THEN /\ phase' = "fatal"
            /\ mem' = [f \in Files |-> Missing]
       ELSE UNCHANGED <<phase, mem>>
  /\ failed' = (failed \/ kind[p] = "rotate")
  /\ UNCHANGED <<disk, stopDue, drawn, floor, ident, excused>>

(* The process ends, by a signal or a crash, in the middle of anything.    *)
Crash ==
  /\ phase \notin {"down", "fatal"}
  /\ Spend("crash")
  /\ phase' = "down"
  /\ lock' = NoOne
  /\ mem' = [f \in Files |-> Missing]
  /\ kind' = [p \in Procs |-> "idle"]
  /\ todo' = [p \in Procs |-> {}]
  /\ open' = [p \in Procs |-> NoFile]
  /\ stopDue' = FALSE
  /\ failed' = FALSE
  /\ UNCHANGED <<disk, gen, drawn, floor, ident, excused>>

Next ==
  \/ BootLoad \/ BootGenerate \/ BootDone \/ Start \/ StartFails
  \/ \E c \in Callers : \/ RotateBegin(c) \/ RotateDone(c)
                        \/ ReissueBegin(c) \/ ReissueDone(c)
  \/ \E p \in Procs : OpenFile(p) \/ WriteFile(p) \/ WriteFails(p)
  \/ StopServer \/ Crash

Spec == Init /\ [][Next]_vars

-----------------------------------------------------------------------------
TypeOK ==
  /\ phase \in Phases
  /\ lock \in Procs \cup {NoOne}
  /\ mem \in [Files -> Nat \cup {Missing, Torn}]
  /\ disk \in [Files -> Nat \cup {Missing, Torn}]
  /\ kind \in [Procs -> Jobs]
  /\ gen \in [Procs -> Nat]
  /\ todo \in [Procs -> SUBSET Files]
  /\ open \in [Procs -> Files \cup {NoFile}]
  /\ stopDue \in BOOLEAN
  /\ drawn \in Nat
  /\ used \in [Kinds -> Nat]
  /\ floor \in Nat
  /\ failed \in BOOLEAN
  /\ ident \in Nat
  /\ excused \in BOOLEAN

(* Rotate is there to take credentials out of use.  Once one has returned  *)
(* without an error, no server certificate, key or token of an older       *)
(* generation is in force again, in this process or in one that loads the  *)
(* files after a crash, whatever else ran, failed or broke off.            *)
NoServerMaterialReturns ==
  \A f \in ServerFiles : mem[f] \in Nat => mem[f] >= floor

(* A running agent whose last Rotate did not fail can be restarted without *)
(* a change of identity or tokens: what it holds is what is on disk, even  *)
(* while clients are being reissued.                                       *)
ServerFilesSaved ==
  phase \in {"loaded", "serving", "stopped"} /\ lock = NoOne /\ ~failed
    => \A f \in ServerFiles : disk[f] = mem[f]

(* "Subsequent instances reuse existing files until Rotate is called": a   *)
(* restart presents the certificate presented before, if no Rotate began   *)
(* and no file was unreadable since, even when a crash broke off a         *)
(* ReissueClientCert.                                                      *)
IdentityKept ==
  [][phase = "loaded" /\ phase' = "serving" /\ ident # 0 /\ ~excused
       => ident' = ident]_vars

(* An agent that finds files in its store comes up with them               *)
(* (certmanager.go:22).                                                    *)
StoreServes == phase # "fatal"

(* "Rotate replaces every credential and rewrites the on-disk material"    *)
(* (certmanager.go:159): once it has returned, what a restart would load   *)
(* is not older.                                                           *)
RotateReplacesAll ==
  phase = "serving" /\ ~failed /\ (\A p \in Procs : kind[p] = "idle")
    => \A f \in Files : disk[f] \in Nat => disk[f] >= floor
=============================================================================
