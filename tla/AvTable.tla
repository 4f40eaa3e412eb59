------------------------------ MODULE AvTable ------------------------------
(***************************************************************************)
(* What the clients of avsys_audio_open and avsys_audio_close are promised *)
(* about their handles: a handle is free until a process is given it, and  *)
(* is that process's until it closes it or is gone; what a process leaves  *)
(* behind is given to nobody before somebody has cleaned it up.  AvHandle  *)
(* is shown to implement it as long as only dead handles are cleaned up.   *)
(***************************************************************************)

CONSTANTS Proc, Handle

VARIABLES
  has,     \* the handles each process has
  leaked,  \* the handles whose process is gone
  gone     \* the processes that are

tableVars == <<has, leaked, gone>>

Free == Handle \ (leaked \cup UNION { has[p] : p \in Proc })

TableInit ==
  /\ has = [p \in Proc |-> {}]
  /\ leaked = {}
  /\ gone = {}

Take(p) ==
  /\ p \notin gone
  /\ \E h \in Free : has' = [has EXCEPT ![p] = @ \cup {h}]
  /\ UNCHANGED <<leaked, gone>>

Give(p) ==
  /\ p \notin gone
  /\ \E h \in has[p] : has' = [has EXCEPT ![p] = @ \ {h}]
  /\ UNCHANGED <<leaked, gone>>

Leave(p) ==
  /\ p \notin gone
  /\ gone' = gone \cup {p}
  /\ leaked' = leaked \cup has[p]
  /\ has' = [has EXCEPT ![p] = {}]

CleanUp ==
  /\ \E h \in leaked : leaked' = leaked \ {h}
  /\ UNCHANGED <<has, gone>>

TableNext ==
  \/ \E p \in Proc : Take(p) \/ Give(p) \/ Leave(p)
  \/ CleanUp

TableSpec == TableInit /\ [][TableNext]_tableVars

=============================================================================
