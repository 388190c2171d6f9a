----------------------------- MODULE InboxFire -----------------------------
(***************************************************************************)
(* Inbox Triage's poll (inbox_triage_agent/pipeline.fire): every five      *)
(* minutes a fire takes a lease on the person's connection document, reads *)
(* her new mail since the checkpoint, the rows due another try and a page  *)
(* of the backfill, writes the rows in one batch and then persists what it *)
(* did. Fires overlap when one outlives its lease; the service is killed   *)
(* between any two steps; Google is unreachable, or answers late; and the  *)
(* person disconnects, reconnects, deletes mail and removes rows meanwhile.*)
(*                                                                         *)
(* The sheet is the mail log of MailLog: SheetRows shows what one call of  *)
(* write_rows does to it, at most once, late at worst, and only if no      *)
(* other batch has landed since it was planned. Mail is numbered in the    *)
(* order it arrived, and a history id is the number of the last mail it    *)
(* covers. Left out: the sheet's own checks (the sheet is taken to be the  *)
(* caller's), the one-time passes (retriage, threads, sent mail), the      *)
(* Worktree tab, and the panel's counters.                                 *)
(***************************************************************************)
EXTENDS Integers, FiniteSets

CONSTANTS
  Slot,          \* fires that may run at the same time
  None,
  MailCap,       \* bound: the mails that ever arrive
  PAGE,          \* ids on a page of the backfill
  MAX_RETRIES,
  TRIPS,         \* SHEET_BREAKER_TRIPS
  TroubleCap,    \* bound: crashes, outages, overruns and batches that stay unanswered
  WhimCap        \* bound: what the person does: deletes, removes, revokes, disconnects

ASSUME FireAssumption ==
  /\ None \notin Slot
  /\ MailCap \in Nat /\ PAGE \in Nat \ {0} /\ MAX_RETRIES \in Nat
  /\ TRIPS \in Nat \ {0} /\ TroubleCap \in Nat /\ WhimCap \in Nat

Mail == 1 .. MailCap

VARIABLES
  arrived,    \* how much mail has arrived
  gone,       \* the mails she has deleted
  link,       \* "up", "stale" (connected, the grant revoked at Google) or "down"
  checkpoint, \* id: the history id; at: the mail there was when its fire began
  backfill,   \* the newest mail the backfill has not listed; 0 when it is done
  tracked,    \* the retry bookkeeping of each mail; attempts 0: no document
  lease,      \* by: whose token is on it; expired: its time has passed
  breaker,    \* consecutive unreachable fires, and whether fires are skipped
  log,        \* the sheet (see MailLog)
  flight,     \* batches sent, that may yet land
  pc, work,   \* each fire's next step, and what it has gathered
  trouble,    \* crashes, outages and overruns so far
  whims,      \* what she has done so far
  handled,    \* the mails that have ever had a row
  forgotten,  \* the mails a fire has struck off the backfill of a later connection
  behind      \* something has put the tracking behind the sheet (see ReviewRowsTracked)

storeVars == <<link, checkpoint, backfill, tracked, lease, breaker>>
mailVars == <<arrived, gone, whims>>
sheetVars == <<log, flight, handled>>
vars == <<mailVars, storeVars, sheetVars, pc, work, trouble, forgotten, behind>>

-----------------------------------------------------------------------------
OnSheet == {m \in Mail : log[m] # "absent"}
(* A row is asked again while it is due, and not more than MAX_RETRIES times. *)
Tries == {t \in [attempts : 0 .. 1 + MAX_RETRIES, due : BOOLEAN] :
            t.due => t.attempts <= MAX_RETRIES}
Untracked == [attempts |-> 0, due |-> FALSE]
Due == {m \in Mail : tracked[m].due}

(* What a fire knows: the document as it was when the lease was taken, the  *)
(* ids on the sheet, what it will write, and what it will persist. Its grant *)
(* is the connection's, a former one's if she has connected again since, or *)
(* none if the document had no token.                                       *)
Grants == {"current", "former", "none"}
Blank ==
  [grant |-> "none", began |-> 0, point |-> [id |-> 0, at |-> 0], bf |-> 0, failures |-> 0, map |-> {},
   fresh |-> 0, unread |-> {}, answered |-> {}, again |-> {}, tries |-> <<>>, save |-> None]
Writes(w) == w.unread \cup w.answered \cup w.again

History == 0 .. MailCap
Bookkeeping == UNION {[ms -> Tries] : ms \in SUBSET Mail}
Knowledge ==
  [grant : Grants, began : History, point : [id : History, at : History], bf : History, failures : 0 .. TRIPS,
   map : SUBSET Mail, fresh : History, unread : SUBSET Mail, answered : SUBSET Mail,
   again : SUBSET Mail, tries : Bookkeeping,
   save : History \cup {None}]
Batch ==
  [by : Slot \cup {None}, new : SUBSET Mail, unread : SUBSET Mail, again : SUBSET Mail]
Step ==
  {"idle", "starting", "leased", "list", "relist", "write", "sent", "landed", "tracking",
   "saving", "failed", "unreachable", "revoked", "release"}

TypeOK ==
  /\ arrived \in History /\ gone \subseteq Mail /\ whims \in 0 .. WhimCap
  /\ link \in {"up", "stale", "down"}
  /\ checkpoint \in [id : History, at : History]
  /\ backfill \in History
  /\ tracked \in [Mail -> Tries]
  /\ lease \in [by : Slot \cup {None}, expired : BOOLEAN]
  /\ breaker \in [failures : 0 .. TRIPS, open : BOOLEAN]
  /\ log \in [Mail -> {"absent", "review", "read"}]
  /\ flight \subseteq Batch
  /\ pc \in [Slot -> Step] /\ work \in [Slot -> Knowledge]
  /\ trouble \in 0 .. TroubleCap
  /\ handled \subseteq Mail /\ forgotten \subseteq Mail /\ behind \in BOOLEAN

(* Connected with some mail already in the inbox; an empty sheet. *)
Init ==
  /\ arrived \in 0 .. MailCap /\ gone = {}
  /\ link = "up"
  /\ checkpoint = [id |-> arrived, at |-> arrived]
  /\ backfill = arrived
  /\ tracked = [m \in Mail |-> Untracked]
  /\ lease = [by |-> None, expired |-> FALSE]
  /\ breaker = [failures |-> 0, open |-> FALSE]
  /\ log = [m \in Mail |-> "absent"] /\ flight = {} /\ handled = {}
  /\ pc = [f \in Slot |-> "idle"] /\ work = [f \in Slot |-> Blank]
  /\ trouble = 0 /\ whims = 0 /\ forgotten = {} /\ behind = FALSE

Goto(f, label) == pc' = [pc EXCEPT ![f] = label]
(* The fire is over: what it knew is gone. *)
Leave(f) == Goto(f, "idle") /\ work' = [work EXCEPT ![f] = Blank]
Trouble == trouble < TroubleCap /\ trouble' = trouble + 1
Whim == whims < WhimCap /\ whims' = whims + 1

-----------------------------------------------------------------------------
(* The cron starts a fire for a connected person whose breaker is closed. *)
Start(f) ==
  /\ pc[f] = "idle"
  /\ link # "down" /\ ~breaker.open
  /\ Goto(f, "starting")
  /\ work' = [work EXCEPT ![f].began = arrived]
  /\ UNCHANGED <<mailVars, storeVars, sheetVars, trouble, forgotten, behind>>

(* take_inbox_lease, one transaction: free or past its time, and the         *)
(* document is read in it; otherwise the previous fire is still running.     *)
LeaseFreeNever == lease.by = None  \* variant
LeaseFree == lease.by = None \/ lease.expired
AsRead(w) ==
  [w EXCEPT !.grant = IF link = "down" THEN "none" ELSE "current",
            !.point = checkpoint, !.bf = backfill, !.failures = breaker.failures]
TakeLease(f) ==
  /\ pc[f] = "starting"
  /\ IF LeaseFree
     THEN /\ lease' = [by |-> f, expired |-> FALSE]
          /\ work' = [work EXCEPT ![f] = AsRead(work[f])]
          /\ Goto(f, "leased")
     ELSE Leave(f) /\ UNCHANGED lease
  /\ UNCHANGED <<mailVars, link, checkpoint, backfill, tracked, breaker, sheetVars, trouble, forgotten, behind>>

(* When the sheet's check is due, the fire goes on with the document as it  *)
(* is after it.                                                             *)
Recheck(f) ==
  /\ pc[f] = "leased"
  /\ work' = [work EXCEPT ![f] = AsRead(work[f])]
  /\ UNCHANGED <<mailVars, storeVars, sheetVars, pc, trouble, forgotten, behind>>

(* Its token is opened and refreshed at Google, and the ids on the sheet are *)
(* read, once per fire. Disconnecting revokes the token at best effort.      *)
MayRead(f) == work[f].grant = "former" \/ (work[f].grant = "current" /\ link # "stale")
MayBeRevoked(f) == work[f].grant # "current" \/ link # "up"
ReadMap(f) ==
  /\ pc[f] = "leased"
  /\ \/ MayRead(f) /\ Goto(f, "list") /\ work' = [work EXCEPT ![f].map = OnSheet]
     \/ MayBeRevoked(f) /\ Goto(f, "revoked") /\ UNCHANGED work
  /\ UNCHANGED <<mailVars, storeVars, sheetVars, trouble, forgotten, behind>>

(* What the fire takes of the ids it lists: those neither on the sheet nor  *)
(* deleted. A row is asked again only while it is on the sheet.             *)
Taken(f, ids) == (ids \ work[f].map) \ gone
NextTryForever(f, m, answered) ==  \* variant
  [attempts |-> tracked[m].attempts + 1, due |-> m \notin answered]
NextTry(f, m, answered) ==
  IF m \notin work[f].map \/ m \in gone
  THEN [attempts |-> tracked[m].attempts, due |-> FALSE]
  ELSE [attempts |-> tracked[m].attempts + 1,
        due |-> m \notin answered /\ tracked[m].attempts + 1 < 1 + MAX_RETRIES]

(* The cursor moves only past pages of which every id was handled. *)
Cursor(from, to) == IF to = 0 THEN 0 ELSE from - PAGE * ((from - to) \div PAGE)

(* New mail first, then the rows due another try, then the backfill, each   *)
(* until the time is up: "all" and "rest" say which got to their end. The   *)
(* checkpoint is kept for later only if all of the new mail was handled. A  *)
(* fire cut short has read a mail, or gone through a page: each fire is     *)
(* assumed to have the time for that.                                       *)
SaveAlways(all, point) == point  \* variant
SaveIfAll(all, point) == IF all THEN point ELSE None
Gather(f, new, all, point) ==
  \E retried \in SUBSET Due, down \in 0 .. work[f].bf :
    LET rest == all /\ retried = Due
        asked == {m \in retried : m \in work[f].map /\ m \notin gone}
        taken == Taken(f, new \cup (down + 1 .. work[f].bf))
    IN  /\ ~all => retried = {}
        /\ ~rest => down = work[f].bf
        /\ (rest /\ down = 0) \/ taken \cup asked # {} \/ Cursor(work[f].bf, down) < work[f].bf
        /\ \E answered \in SUBSET (taken \cup asked) :
             work' = [work EXCEPT ![f] =
               [work[f] EXCEPT
                  !.unread = taken \ answered, !.answered = answered \cap taken,
                  !.again = answered \cap asked,
                  !.tries = [m \in retried |-> NextTry(f, m, answered)],
                  !.save = SaveIfAll(all, point), !.bf = Cursor(work[f].bf, down),
                  !.point = Blank.point, !.map = {}, !.fresh = 0]]
        /\ Goto(f, "write")
        /\ UNCHANGED <<mailVars, storeVars, sheetVars, trouble, forgotten, behind>>

(* The mail since the checkpoint, oldest first, up to "to". *)
ListHistory(f) ==
  /\ pc[f] = "list"
  /\ \E to \in work[f].point.id .. arrived :
       /\ to = work[f].point.id => to = arrived
       /\ Gather(f, work[f].point.id + 1 .. to, to = arrived, arrived)

(* Google no longer has that history: a fresh checkpoint is taken from the   *)
(* profile, and only then the mail since the last complete poll listed,      *)
(* newest first.                                                             *)
HistoryExpired(f) ==
  /\ pc[f] = "list"
  /\ work' = [work EXCEPT ![f].fresh = arrived]
  /\ Goto(f, "relist")
  /\ UNCHANGED <<mailVars, storeVars, sheetVars, trouble, forgotten, behind>>
LastComplete(f) == work[f].point.at
Relist(f) ==
  /\ pc[f] = "relist"
  /\ \E downTo \in LastComplete(f) .. arrived :
       /\ downTo = arrived => LastComplete(f) = arrived
       /\ Gather(f, downTo + 1 .. arrived, downTo = LastComplete(f), work[f].fresh)

-----------------------------------------------------------------------------
(* write_rows. With nothing to write it returns at once, and proves nothing. *)
(* Otherwise the lease is proved and renewed, and the batch planned from the *)
(* sheet as it is now: a new mail that is there already is left alone, and a *)
(* row that is gone is not written again.                                    *)
FreshlyAbsentStale(f) == work[f].unread \cup work[f].answered  \* variant
FreshlyAbsent(f) == (work[f].unread \cup work[f].answered) \ OnSheet
WriteRows(f) ==
  LET b == [by |-> f, new |-> FreshlyAbsent(f), unread |-> work[f].unread,
            again |-> work[f].again \cap OnSheet]
  IN  /\ pc[f] = "write"
      /\ \/ Writes(work[f]) = {} /\ Goto(f, "tracking") /\ UNCHANGED <<lease, flight, work>>
         \/ Writes(work[f]) # {} /\ lease.by # f /\ Leave(f) /\ UNCHANGED <<lease, flight>>
         \/ /\ Writes(work[f]) # {} /\ lease.by = f
            /\ lease' = [lease EXCEPT !.expired = FALSE]
            /\ IF b.new \cup b.again = {}
               THEN Goto(f, "tracking") /\ UNCHANGED flight
               ELSE Goto(f, "sent") /\ flight' = flight \cup {b}
            /\ UNCHANGED work
      /\ UNCHANGED <<mailVars, link, checkpoint, backfill, tracked, breaker, log, handled,
                     trouble, forgotten, behind>>

(* A batch lands, once, whole, and with its stamp every other one planned  *)
(* before is refused from then on. (Rows that move under a batch are       *)
(* SheetRows' matter: one that was removed under it is not written.)       *)
Land(b) ==
  /\ log' = [m \in Mail |->
       IF m \in b.new THEN (IF m \in b.unread THEN "review" ELSE "read")
       ELSE IF m \in b.again \cap OnSheet THEN "read" ELSE log[m]]
  /\ handled' = handled \cup b.new
  /\ flight' = {}
  /\ pc' = IF b.by # None /\ pc[b.by] = "sent" THEN [pc EXCEPT ![b.by] = "landed"] ELSE pc
  /\ behind' = (behind \/ b.by = None)
  /\ UNCHANGED <<mailVars, storeVars, work, trouble, forgotten>>

(* The answer, or the batch's stamp read off the sheet. *)
Answered(f) ==
  /\ pc[f] = "landed"
  /\ Goto(f, "tracking")
  /\ UNCHANGED <<mailVars, storeVars, sheetVars, work, trouble, forgotten, behind>>

(* Refused, another batch having landed: it is planned afresh. *)
Refused(f) ==
  /\ pc[f] = "sent"
  /\ \A b \in flight : b.by # f
  /\ Goto(f, "write")
  /\ UNCHANGED <<mailVars, storeVars, sheetVars, work, trouble, forgotten, behind>>

(* The batch that f no longer waits for: lost, or adrift and late. *)
Drop(f) == {b \in flight : b.by # f}
SetAdrift(f) == {[b EXCEPT !.by = IF @ = f THEN None ELSE @] : b \in flight}

(* No answer, and the sheet cannot be asked, or shows nothing; or refused. *)
GiveUp(f) ==
  /\ pc[f] \in {"sent", "landed"}
  /\ Trouble
  /\ Goto(f, "unreachable") \/ Goto(f, "failed")
  /\ flight' = Drop(f) \/ flight' = SetAdrift(f)
  /\ behind' = (behind \/ pc[f] = "landed")
  /\ UNCHANGED <<mailVars, storeVars, log, handled, work, forgotten>>

(* A later attempt's proof finds the lease another's: nothing more is done. *)
LeaseLost(f) ==
  /\ pc[f] \in {"sent", "landed"}
  /\ lease.by # f
  /\ Leave(f)
  /\ flight' = Drop(f) \/ flight' = SetAdrift(f)
  /\ behind' = (behind \/ pc[f] = "landed")
  /\ UNCHANGED <<mailVars, storeVars, log, handled, trouble, forgotten>>

-----------------------------------------------------------------------------
(* _persist: the tracking documents of what was written and asked again ... *)
TriesOfAnsweredOnly(f) ==  \* variant
  [m \in work[f].answered |-> [attempts |-> 1, due |-> FALSE]]
FirstTries(f) ==
  [m \in work[f].unread \cup work[f].answered |->
     [attempts |-> 1, due |-> m \in work[f].unread /\ 1 < 1 + MAX_RETRIES]]
SaveTracking(f) ==
  /\ pc[f] = "tracking"
  /\ tracked' = [m \in Mail |->
       IF m \in DOMAIN work[f].tries THEN work[f].tries[m]
       ELSE IF m \in DOMAIN FirstTries(f) THEN FirstTries(f)[m] ELSE tracked[m]]
  /\ Goto(f, "saving")
  /\ UNCHANGED <<mailVars, link, checkpoint, backfill, lease, breaker, sheetVars, work, trouble, forgotten,
                 behind>>

(* ... then the connection document, merged over whatever it says by now,   *)
(* without another look at the lease: also over a connection made since.    *)
Forgets(f) ==
  IF work[f].grant = "current" THEN {} ELSE {m \in Mail : work[f].bf < m /\ m <= backfill}
SaveConnection(f) ==
  /\ pc[f] = "saving"
  /\ backfill' = work[f].bf
  /\ checkpoint' = IF work[f].save = None THEN checkpoint
                   ELSE [id |-> work[f].save, at |-> work[f].began]
  /\ breaker' = IF work[f].failures = 0 THEN breaker ELSE [failures |-> 0, open |-> FALSE]
  /\ forgotten' = forgotten \cup Forgets(f)
  /\ Goto(f, "release")
  /\ UNCHANGED <<mailVars, link, tracked, lease, sheetVars, work, trouble, behind>>

(* A failed poll: only an unreachable sheet counts towards the breaker, from *)
(* the count read with the lease.                                            *)
Counted(n) == IF n + 1 < TRIPS THEN n + 1 ELSE TRIPS
RecordFailure(f) ==
  /\ pc[f] \in {"failed", "unreachable"}
  /\ breaker' = IF pc[f] = "failed" THEN breaker
                ELSE [failures |-> Counted(work[f].failures),
                      open |-> work[f].failures + 1 >= TRIPS]
  /\ Goto(f, "release")
  /\ UNCHANGED <<mailVars, link, checkpoint, backfill, tracked, lease, sheetVars, work, trouble, forgotten,
                 behind>>

MarkRevoked(f) ==
  /\ pc[f] = "revoked"
  /\ link' = "down"
  /\ Goto(f, "release")
  /\ UNCHANGED <<mailVars, checkpoint, backfill, tracked, lease, breaker, sheetVars, work,
                 trouble, forgotten, behind>>

(* Only its own lease. *)
Release(f) ==
  /\ pc[f] = "release"
  /\ lease' = IF lease.by = f THEN [by |-> None, expired |-> FALSE] ELSE lease
  /\ Leave(f)
  /\ UNCHANGED <<mailVars, link, checkpoint, backfill, tracked, breaker, sheetVars, trouble, forgotten, behind>>

-----------------------------------------------------------------------------
(* Google or the model fails before anything was sent. *)
Outage(f) ==
  /\ pc[f] \in {"leased", "list", "relist"}
  /\ Trouble
  /\ Goto(f, "unreachable") \/ Goto(f, "failed")
  /\ UNCHANGED <<mailVars, storeVars, sheetVars, work, forgotten, behind>>

(* The service is killed under the fire. Its lease stays until its time is up. *)
Crash(f) ==
  /\ pc[f] # "idle"
  /\ Trouble
  /\ Leave(f)
  /\ flight' = Drop(f) \/ flight' = SetAdrift(f)
  /\ behind' = (behind \/ pc[f] \in {"landed", "tracking"})
  /\ UNCHANGED <<mailVars, storeVars, log, handled, forgotten>>

(* Five minutes pass, over a fire that was killed or over one that is still *)
(* running. So does the breaker's cool-off.                                 *)
LeaseExpires ==
  /\ lease.by # None /\ ~lease.expired
  /\ lease' = [lease EXCEPT !.expired = TRUE]
  /\ IF pc[lease.by] \in {"idle", "starting"} THEN UNCHANGED <<trouble, behind>>
     ELSE Trouble /\ behind' = TRUE
  /\ UNCHANGED <<mailVars, link, checkpoint, backfill, tracked, breaker, sheetVars, pc, work,
                 forgotten>>
CoolOff ==
  /\ breaker.open
  /\ breaker' = [breaker EXCEPT !.open = FALSE]
  /\ UNCHANGED <<mailVars, link, checkpoint, backfill, tracked, lease, sheetVars, pc, work,
                 trouble, forgotten, behind>>

-----------------------------------------------------------------------------
Arrive ==
  /\ arrived < MailCap
  /\ arrived' = arrived + 1
  /\ UNCHANGED <<gone, whims, storeVars, sheetVars, pc, work, trouble, forgotten, behind>>
DeleteMail(m) ==
  /\ m <= arrived /\ m \notin gone
  /\ Whim /\ gone' = gone \cup {m}
  /\ UNCHANGED <<arrived, storeVars, sheetVars, pc, work, trouble, forgotten, behind>>
RemoveRow(m) ==
  /\ m \in OnSheet
  /\ Whim /\ log' = [log EXCEPT ![m] = "absent"]
  /\ behind' = (behind \/ log[m] = "review")
  /\ UNCHANGED <<arrived, gone, storeVars, flight, handled, pc, work, trouble, forgotten>>
RevokeAtGoogle ==
  /\ link = "up"
  /\ Whim /\ link' = "stale"
  /\ UNCHANGED <<arrived, gone, checkpoint, backfill, tracked, lease, breaker, sheetVars, pc, work,
                 trouble, forgotten, behind>>

(* Revoke, forget the tracking documents, the checkpoint and the token, and *)
(* clear the lease. (A checkpoint that is not there is written as 0.)       *)
Disconnect ==
  /\ link # "down"
  /\ Whim /\ link' = "down"
  /\ checkpoint' = [id |-> 0, at |-> 0]
  /\ backfill' = arrived
  /\ tracked' = [m \in Mail |-> Untracked]
  /\ lease' = [by |-> None, expired |-> FALSE]
  /\ behind' = (behind \/ \E m \in Mail : log[m] = "review")
  /\ UNCHANGED <<arrived, gone, breaker, sheetVars, pc, work, trouble, forgotten>>

(* She comes through Google's consent, once more perhaps while she is       *)
(* connected. A fire at work goes on with the document it has read; the     *)
(* lease is not its any more.                                               *)
AtWork(f) == pc[f] \notin {"idle", "starting"}
Superseded(w) == [w EXCEPT !.grant = IF @ = "current" THEN "former" ELSE @]
Connect ==
  /\ IF link = "down" THEN UNCHANGED whims ELSE Whim
  /\ link' = "up"
  /\ checkpoint' = [id |-> arrived, at |-> arrived]
  /\ backfill' = arrived
  /\ lease' = [by |-> None, expired |-> FALSE]
  /\ work' = [f \in Slot |-> IF AtWork(f) THEN Superseded(work[f]) ELSE work[f]]
  /\ behind' = (behind \/ \E f \in Slot : AtWork(f))
  /\ UNCHANGED <<arrived, gone, tracked, breaker, sheetVars, pc, trouble, forgotten>>

-----------------------------------------------------------------------------
FireStep(f) ==
  \/ Start(f) \/ TakeLease(f) \/ ReadMap(f)
  \/ ListHistory(f) \/ HistoryExpired(f) \/ Relist(f)
  \/ WriteRows(f) \/ Answered(f) \/ Refused(f) \/ LeaseLost(f)
  \/ SaveTracking(f) \/ SaveConnection(f) \/ RecordFailure(f) \/ MarkRevoked(f) \/ Release(f)

Next ==
  \/ \E f \in Slot : FireStep(f) \/ Recheck(f) \/ GiveUp(f) \/ Outage(f) \/ Crash(f)
  \/ \E b \in flight : Land(b)
  \/ LeaseExpires \/ CoolOff
  \/ Arrive \/ (\E m \in Mail : DeleteMail(m) \/ RemoveRow(m))
  \/ RevokeAtGoogle \/ Disconnect \/ Connect

Spec == Init /\ [][Next]_vars

(* The cron goes on firing, a fire goes on to its end, Sheets answers what   *)
(* it applies, and time passes. Nothing that fails is fair: TroubleCap says  *)
(* how much of it there is.                                                  *)
FairSpec ==
  /\ Spec
  /\ \A f \in Slot : WF_vars(FireStep(f)) /\ WF_vars(\E b \in flight : b.by = f /\ Land(b))
  /\ WF_vars(LeaseExpires /\ trouble' = trouble) /\ WF_vars(CoolOff)

-----------------------------------------------------------------------------
(* What the poll does to the sheet is what MailLog promises: no mail twice,  *)
(* no row written over, whichever fires overlap, die or land late.           *)
Log == INSTANCE MailLog WITH noted <- {}, crossed <- FALSE
IsMailLog == Log!Spec

(* "Mail is delayed, not lost": whatever was cut short, killed, answered     *)
(* late or written over by an older fire, each mail of the inbox has had its *)
(* row, or is deleted, or is after the checkpoint, or still in the backfill. *)
(* The exception is the backfill of a new connection: a fire begun before it *)
(* persists its own over it, and what that strikes off is read by nobody.    *)
NoMailLost ==
  \A m \in 1 .. arrived : \/ m \in handled \cup gone \cup forgotten
                           \/ m > checkpoint.id \/ m <= backfill

(* And it is only delayed: while she stays connected, each of them gets its  *)
(* row, once the troubles are over.                                          *)
MailReachesTheSheet ==
  \A m \in Mail : (m <= arrived /\ link = "up")
                  ~> (m \in handled \cup gone \cup forgotten \/ link # "up")

(* A row that needs review is asked again until its tries are used up or its *)
(* mail is deleted, at any time no fire runs ...                             *)
AwaitsRetry(m) == tracked[m].due \/ tracked[m].attempts = 1 + MAX_RETRIES
ReviewRowsBelongToRetry ==
  (\A f \in Slot : pc[f] = "idle") => \A m \in Mail \ gone : log[m] = "review" => AwaitsRetry(m)

(* ... as long as no fire was stopped after its rows landed, or outlived its *)
(* lease, and she neither disconnected nor removed a row that needs review,  *)
(* nor connected while a fire was at work.                                   *)
ReviewRowsTracked == ~behind => ReviewRowsBelongToRetry
=============================================================================
