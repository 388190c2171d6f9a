------------------------------ MODULE MailLog ------------------------------
(***************************************************************************)
(* What Inbox Triage promises the person about her Inbox tab, without rows *)
(* and positions: each mail is on it at most once, the agent only adds a   *)
(* mail that is not there or answers one that is, and her own cells on a   *)
(* mail's row are hers. SheetRows (the row writer) and InboxFire (the poll *)
(* that calls it) are both shown to implement it.                          *)
(*                                                                         *)
(* The promise has one condition: rows are addressed by their index, so it *)
(* ends if the person moves or removes rows between a batch's reading of   *)
(* the tab and its landing ("crossed").                                    *)
(***************************************************************************)
CONSTANTS Mail

VARIABLES
  log,     \* log[m]: "absent", "review" (written as Needs review) or "read"
  noted,   \* the mails on whose row the person has written something
  crossed  \* a batch has landed on rows that were moved under it

logVars == <<log, noted, crossed>>

Shown == {"review", "read"}
Absent == {m \in Mail : log[m] = "absent"}

TypeOK ==
  /\ log \in [Mail -> Shown \cup {"absent"}]
  /\ noted \in SUBSET Mail
  /\ crossed \in BOOLEAN

Init ==
  /\ log \in [Mail -> Shown \cup {"absent"}]
  /\ noted = {}
  /\ crossed = FALSE

-----------------------------------------------------------------------------
(* One batch of the agent: mails are added that were not there, and rows   *)
(* that needed review are answered. Her cells are untouched.               *)
Write ==
  /\ log' \in [Mail -> Shown \cup {"absent"}]
  /\ \A m \in Mail :
       \/ log'[m] = log[m]
       \/ log[m] = "absent" /\ log'[m] \in Shown
       \/ log[m] = "review" /\ log'[m] = "read"
  /\ UNCHANGED <<noted, crossed>>

(* The person: writes on a row, or removes it with everything on it. *)
Note(m) ==
  /\ m \notin Absent
  /\ noted' = noted \cup {m}
  /\ UNCHANGED <<log, crossed>>
Remove(m) ==
  /\ m \notin Absent
  /\ log' = [log EXCEPT ![m] = "absent"]
  /\ noted' = noted \ {m}
  /\ UNCHANGED crossed

(* A batch landed on rows that were moved under it: nothing is promised. *)
Cross == crossed' = TRUE

Next ==
  \/ Write
  \/ \E m \in Mail : Note(m) \/ Remove(m)
  \/ Cross
  \/ crossed /\ UNCHANGED crossed

Spec == Init /\ [][Next]_logVars
=============================================================================
