------------------------------ MODULE Display ------------------------------
(***************************************************************************)
(* What the Display interface (signagelib/display.go) promises those who   *)
(* share a panel: "implementations must serialise calls; the contract is   *)
(* single-writer".  Calls are served one at a time.  A LoadImage that      *)
(* returns without an error has put its picture in image memory, a Refresh *)
(* that returns without an error has waited until the panel shows what was *)
(* in memory.  A call that fails may have done any part of its work, and a *)
(* Refresh that fails may leave the panel to change later.                 *)
(***************************************************************************)
CONSTANTS
  Callers,  \* goroutines that call the Display
  Frames,   \* pictures
  Torn,     \* any other picture, one made of parts of several, say
  None,     \* no picture
  NoOne     \* nobody is being served

VARIABLES
  req,      \* the call each goroutine is in
  lock,     \* whose call is being served
  worked,   \* whether that call has done its work
  mem,      \* image memory
  glass,    \* what the panel shows
  drive     \* what the panel is changing to

vars == <<req, lock, worked, mem, glass, drive>>

(* Between calls: what the last one returned.                              *)
Idle   == [op |-> "idle", img |-> None]
Failed == [op |-> "failed", img |-> None]
AtRest == {Idle, Failed}

Requests == [op : {"load"}, img : Frames]
              \cup [op : {"refresh", "standby", "sleep", "wake", "close"},
                    img : {None}]

Init ==
  /\ req = [c \in Callers |-> Idle]
  /\ lock = NoOne
  /\ worked = FALSE
  /\ mem \in Frames \cup {Torn}
  /\ glass \in Frames \cup {Torn}
  /\ drive = None

Call(c) ==
  /\ req[c] \in AtRest
  /\ \E r \in Requests : req' = [req EXCEPT ![c] = r]
  /\ UNCHANGED <<lock, worked, mem, glass, drive>>

Serve(c) ==
  /\ req[c] \notin AtRest
  /\ lock = NoOne
  /\ lock' = c
  /\ UNCHANGED <<req, worked, mem, glass, drive>>

(* Writing image memory while the panel draws from it may spoil the drawing. *)
Load(c) ==
  /\ lock = c
  /\ req[c].op = "load"
  /\ ~worked
  /\ worked' = TRUE
  /\ mem' = req[c].img
  /\ drive' \in IF drive = None THEN {None} ELSE {drive, Torn}
  /\ UNCHANGED <<req, lock, glass>>

(* A drawing that is started on top of another may spoil it.               *)
Refresh(c) ==
  /\ lock = c
  /\ req[c].op = "refresh"
  /\ ~worked
  /\ worked' = TRUE
  /\ drive' \in IF drive = None THEN {mem} ELSE {mem, Torn}
  /\ UNCHANGED <<req, lock, mem, glass>>

Settle ==
  /\ drive # None
  /\ glass' = drive
  /\ drive' = None
  /\ UNCHANGED <<req, lock, worked, mem>>

Return(c) ==
  /\ lock = c
  /\ req[c].op = "load" => worked
  /\ req[c].op = "refresh" => worked /\ drive = None
  /\ req' = [req EXCEPT ![c] = Idle]
  /\ lock' = NoOne
  /\ worked' = FALSE
  /\ UNCHANGED <<mem, glass, drive>>

Fail(c) ==
  /\ lock = c
  /\ req' = [req EXCEPT ![c] = Failed]
  /\ lock' = NoOne
  /\ worked' = FALSE
  /\ \/ UNCHANGED <<mem, drive>>
     \/ /\ req[c].op = "load"
        /\ ~worked
        /\ mem' \in {req[c].img, Torn}
        /\ drive' \in IF drive = None THEN {None} ELSE {drive, Torn}
     \/ /\ req[c].op = "refresh"
        /\ ~worked
        /\ drive' \in IF drive = None THEN {mem} ELSE {mem, Torn}
        /\ UNCHANGED mem
  /\ UNCHANGED glass

Next ==
  \/ \E c \in Callers : \/ Call(c) \/ Serve(c) \/ Load(c) \/ Refresh(c)
                        \/ Return(c) \/ Fail(c)
  \/ Settle

Spec == Init /\ [][Next]_vars
=============================================================================
