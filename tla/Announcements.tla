---- MODULE Announcements ----
(***************************************************************************)
(* One announcement and its deliveries by mail: it is written, edited,     *)
(* scheduled, sent, retried and deleted by administrators, and the cron    *)
(* mails it in waves, a delivery for each tick.                            *)
(*   announcements.service.ts, announcement-delivery.schema.ts             *)
(*                                                                         *)
(* The cron holds its lock for nine seconds at most, and a tick mails as   *)
(* many as ten announcements: ticks overlap.  Hours, daily limits and the  *)
(* pauses between waves only set nextProcessAt, which is null or a time    *)
(* that comes: due.                                                        *)
(***************************************************************************)
EXTENDS Requests

CONSTANTS
    Recipients,          \* addresses of the announcement
    MaxDeliveryAttempts, \* ANNOUNCEMENT_DELIVERY_MAX_ATTEMPTS
    MaxWaveFailures,     \* MAX_WAVE_FAILURES
    MaxSends             \* bound: sends, retries and editions

ASSUME AnnouncementsAssumption == {MaxDeliveryAttempts, MaxWaveFailures, MaxSends} \subseteq Nat

VARIABLES
    announcement,
    deliveries,     \* the delivery of each recipient, or NoDelivery
    nextId,         \* the id of the next insertion
    mails,          \* history: mails accepted for each recipient, and answered
    unheard,        \* history: mails accepted whose answer was lost
    orders,         \* history: sends, retries and editions so far
    torn            \* history: an unfinished delivery was taken from its worker

announceOnly == <<announcement, deliveries, nextId, mails, unheard, orders, torn>>
announceVars == <<reqVars, announceOnly>>

AnnouncementStatus == {"DRAFT", "SCHEDULED", "SENDING", "SENT", "FAILED", "deleted"}
NoDelivery == [id |-> 0, status |-> "none", attempts |-> 0]
Deliveries == [id : Nat, status : {"none", "PENDING", "PROCESSING", "SENT", "FAILED"},
               attempts : Nat]

AnnouncementsTypeOK ==
    /\ announcement \in [status : AnnouncementStatus, due : BOOLEAN,
                         failures : Nat, stopped : BOOLEAN]
    /\ deliveries \in [Recipients -> Deliveries]
    /\ mails \in [Recipients -> Nat] /\ unheard \in [Recipients -> Nat]
    /\ orders \in 0..MaxSends /\ torn \in BOOLEAN

AnnouncementsInit ==
    /\ RequestsInit
    /\ announcement \in [status : {"DRAFT", "SCHEDULED"}, due : {FALSE},
                         failures : {0}, stopped : {FALSE}]
    /\ deliveries = [r \in Recipients |-> NoDelivery]
    /\ nextId = 1
    /\ mails = [r \in Recipients |-> 0] /\ unheard = [r \in Recipients |-> 0]
    /\ orders = 0 /\ torn = FALSE

(* What a handler remembers: the announcement as it read it, the recipient *)
(* and the delivery it works on, whether it was mailed, what it counted.   *)
NoAnnouncement == [status |-> "deleted", due |-> FALSE, failures |-> 0, stopped |-> FALSE]
Holding(ann) == [subject |-> "announcement", ann |-> ann, to |-> {}, delivery |-> NoDelivery,
                 success |-> FALSE, counts |-> <<0, 0, 0>>]
AnnFrame == Holding(announcement)
Ann(p) == stack[p].ann
Job(p) == stack[p].delivery
Recipient(p) == CHOOSE r \in Recipients : r \in stack[p].to

AnnExists == announcement.status # "deleted"
InStatus(status) == {r \in Recipients : deliveries[r].status \in status}
Unfinished == {"PENDING", "PROCESSING"}
Tallied == <<Cardinality(InStatus({"SENT"})), Cardinality(InStatus(Unfinished)),
           Cardinality(InStatus({"FAILED"}))>>

(* Somebody is between taking the delivery of r and writing how it ended.  *)
Held(r) ==
    \E p \in Procs : /\ pc[p] \in {"mail", "mailed", "unmailed"}
                     /\ stack[p].to = {r} /\ Job(p).id = deliveries[r].id

(* save of a document that was read: fields that were not changed are not  *)
(* written, and a document that is gone is not saved.                      *)
SaveAnnouncement(p, new) ==
    announcement' =
        IF ~AnnExists THEN announcement
        ELSE [f \in DOMAIN announcement |->
                 IF f \in DOMAIN new /\ (new[f] # Ann(p)[f] \/ f = "due")
                 THEN new[f] ELSE announcement[f]]

ByAdmin ==
    /\ AnnExists
    /\ orders < MaxSends /\ orders' = orders + 1
    /\ UNCHANGED <<announcement, deliveries, nextId, mails, unheard, torn>>

RestUnchanged == UNCHANGED <<deliveries, nextId, mails, unheard, orders, torn>>

----
(* sendAnnouncement: of the button, of creation or of the cron of          *)
(* scheduled announcements.                                                *)
StartSend(p) ==
    /\ announcement.status \notin {"SENT", "SENDING"}
    /\ ByAdmin
    /\ Begin(p, "claim", AnnFrame)

(* The claim, then the recipients: when none is resolved, the announcement *)
(* is saved as FAILED.                                                     *)
ClaimSend(p) ==
    /\ pc[p] = "claim"
    /\ IF announcement.status \in {"SENDING", "SENT", "deleted"}
       THEN Return(p) /\ UNCHANGED announcement
       ELSE /\ announcement' = [announcement EXCEPT !.status = "SENDING"]
            /\ \E next \in {"clear", "nobody"} : Jump(p, next)
    /\ RestUnchanged

SaveNobody(p) ==
    /\ pc[p] = "nobody"
    /\ SaveAnnouncement(p, [status |-> "FAILED"])
    /\ Return(p) /\ RestUnchanged

\* Mutant: everybody's deliveries are deleted.
ClearAllDeliveries(p) ==
    /\ pc[p] = "clear"
    /\ deliveries' = [r \in Recipients |-> NoDelivery]
    /\ torn' = (torn \/ \E r \in Recipients : deliveries[r].status # "SENT" /\ Held(r))
    /\ Jump(p, "insert")
    /\ UNCHANGED <<announcement, nextId, mails, unheard, orders>>

(* enqueueDeliveries deletes what is not sent and inserts the recipients;  *)
(* the unique index keeps those that were sent.                            *)
ClearDeliveries(p) ==
    /\ pc[p] = "clear"
    /\ deliveries' = [r \in Recipients |->
                         IF deliveries[r].status = "SENT" THEN deliveries[r] ELSE NoDelivery]
    /\ torn' = (torn \/ \E r \in Recipients : deliveries[r].status # "SENT" /\ Held(r))
    /\ Jump(p, "insert")
    /\ UNCHANGED <<announcement, nextId, mails, unheard, orders>>

InsertDeliveries(p) ==
    /\ pc[p] = "insert"
    /\ deliveries' = [r \in Recipients |->
                         IF deliveries[r] = NoDelivery
                         THEN [id |-> nextId, status |-> "PENDING", attempts |-> 0]
                         ELSE deliveries[r]]
    /\ nextId' = nextId + 1
    /\ Jump(p, "started")
    /\ UNCHANGED <<announcement, mails, unheard, orders, torn>>

SaveStarted(p) ==
    /\ pc[p] = "started"
    /\ SaveAnnouncement(p, [status |-> "SENDING", due |-> TRUE, failures |-> 0, stopped |-> FALSE])
    /\ Return(p) /\ RestUnchanged

(* retryFailedDeliveries.                                                  *)
StartRetry(p) ==
    /\ announcement.status # "SENDING"
    /\ ByAdmin
    /\ Begin(p, "retry", AnnFrame)

ResetFailed(p) ==
    /\ pc[p] = "retry"
    /\ LET failed == InStatus({"FAILED", "PENDING"})
       IN  /\ deliveries' = [r \in Recipients |->
                 IF r \in failed THEN [deliveries[r] EXCEPT !.status = "PENDING", !.attempts = 0]
                 ELSE deliveries[r]]
           /\ IF failed = {} THEN Return(p) ELSE Jump(p, "started")
    /\ UNCHANGED <<announcement, nextId, mails, unheard, orders, torn>>

(* update: an announcement that is being sent may be edited.               *)
StartEdit(p) ==
    /\ announcement.status \notin {"SENT", "FAILED"}
    /\ ByAdmin
    /\ Begin(p, "update", AnnFrame)

SaveEdit(p) ==
    /\ pc[p] = "update"
    /\ \E status \in {"DRAFT", "SCHEDULED"} : SaveAnnouncement(p, [status |-> status])
    /\ Return(p) /\ RestUnchanged

(* delete.                                                                 *)
StartDelete(p) ==
    /\ AnnExists /\ orders < MaxSends
    /\ Begin(p, "delete", NoStack)
    /\ announcement' = [announcement EXCEPT !.status = "deleted", !.due = FALSE]
    /\ RestUnchanged

DeleteDeliveries(p) ==
    /\ pc[p] = "delete"
    /\ deliveries' = [r \in Recipients |-> NoDelivery]
    /\ Return(p)
    /\ UNCHANGED <<announcement, nextId, mails, unheard, orders, torn>>

----
(* The cron of the waves.                                                  *)

StartWave(p) ==
    /\ announcement.status = "SENDING" /\ ~announcement.stopped /\ announcement.due
    /\ Begin(p, "take", Holding(NoAnnouncement))
    /\ UNCHANGED announceOnly

(* The worker sees the delivery as it was before it was taken: its         *)
(* attempts are those made before.                                         *)
TakeDelivery(p, r) ==
    /\ pc[p] = "take"
    /\ deliveries[r].status = "PENDING"
    /\ deliveries' = [deliveries EXCEPT ![r].status = "PROCESSING", ![r].attempts = @ + 1]
    /\ JumpWith(p, "mail", [stack[p] EXCEPT !.to = {r}, !.delivery = deliveries[r]])
    /\ UNCHANGED <<announcement, nextId, mails, unheard, orders, torn>>

TakeNoDelivery(p) ==
    /\ pc[p] = "take"
    /\ InStatus({"PENDING"}) = {}
    /\ IF InStatus({"PROCESSING"}) = {}
       THEN JumpWith(p, "finish", [stack[p] EXCEPT !.counts = Tallied])
       ELSE Return(p)
    /\ UNCHANGED announceOnly

(* Everything is done; the announcement is not read again.                 *)
FinishAnnouncement(p) ==
    /\ pc[p] = "finish"
    /\ LET sent == stack[p].counts[1]
           failed == stack[p].counts[3]
       IN  announcement' = IF ~AnnExists THEN announcement
                           ELSE [announcement EXCEPT
                                    !.status = IF failed > 0 /\ sent = 0 THEN "FAILED" ELSE "SENT",
                                    !.due = FALSE]
    /\ Return(p) /\ RestUnchanged

MailDelivery(p) ==
    /\ pc[p] = "mail"
    /\ IF AnnExists
       THEN \/ mails' = [mails EXCEPT ![Recipient(p)] = @ + 1] /\ Jump(p, "mailed")
            \/ UNCHANGED mails /\ Jump(p, "unmailed")
       ELSE UNCHANGED mails /\ Jump(p, "unmailed")
    /\ UNCHANGED <<announcement, deliveries, nextId, unheard, orders, torn>>

(* The mail server takes the mail and its answer is lost, or comes too     *)
(* late: for the cron the delivery has failed.                             *)
MailUnheard(p) ==
    /\ pc[p] = "mail" /\ AnnExists
    /\ unheard' = [unheard EXCEPT ![Recipient(p)] = @ + 1]
    /\ FaultyJump(p, "outage", "unmailed")
    /\ UNCHANGED <<announcement, deliveries, nextId, mails, orders, torn>>

(* The delivery is written by its id, whatever happened to it meanwhile.   *)
WriteDelivery(p, status) ==
    deliveries' = IF deliveries[Recipient(p)].id = Job(p).id
                  THEN [deliveries EXCEPT ![Recipient(p)].status = status]
                  ELSE deliveries

MarkSent(p) ==
    /\ pc[p] = "mailed"
    /\ WriteDelivery(p, "SENT")
    /\ JumpWith(p, "progress", [Holding(NoAnnouncement) EXCEPT !.success = TRUE])
    /\ UNCHANGED <<announcement, nextId, mails, unheard, orders, torn>>

(* A write that fails, or whose answer is lost, is a failure of the        *)
(* delivery, although it was mailed.                                       *)
MarkSentFails(p) ==
    /\ pc[p] = "mailed"
    /\ FaultyJump(p, "write", "unmailed")
    /\ WriteDelivery(p, "SENT") \/ UNCHANGED deliveries
    /\ UNCHANGED <<announcement, nextId, mails, unheard, orders, torn>>

MarkDeliveryFailed(p) ==
    /\ pc[p] = "unmailed"
    /\ WriteDelivery(p, IF Job(p).attempts >= MaxDeliveryAttempts THEN "FAILED" ELSE "PENDING")
    /\ IF AnnExists THEN JumpWith(p, "progress", Holding(NoAnnouncement)) ELSE Return(p)
    /\ UNCHANGED <<announcement, nextId, mails, unheard, orders, torn>>

(* updateWaveProgress reads the announcement, counts and writes.           *)
ReadProgress(p) ==
    /\ pc[p] = "progress"
    /\ IF AnnExists THEN JumpWith(p, "tally", [stack[p] EXCEPT !.ann = announcement])
       ELSE Return(p)
    /\ UNCHANGED announceOnly

TallyProgress(p) ==
    /\ pc[p] = "tally"
    /\ JumpWith(p, "advance", [stack[p] EXCEPT !.counts = Tallied])
    /\ UNCHANGED announceOnly

AdvanceProgress(p) ==
    /\ pc[p] = "advance"
    /\ LET failures == Ann(p).failures + (IF stack[p].success THEN 0 ELSE 1)
           stops == ~stack[p].success /\ failures >= MaxWaveFailures
           done == stack[p].counts[2] = 0 /\ ~Ann(p).stopped /\ ~stops
           sent == stack[p].counts[1]
       IN  announcement' =
             IF ~AnnExists THEN announcement
             ELSE [announcement EXCEPT
                      !.failures = IF stack[p].success THEN @ ELSE failures,
                      !.stopped = @ \/ stops,
                      !.due = ~stops /\ ~done,
                      !.status = IF stops THEN "FAILED" ELSE IF ~done THEN @
                                 ELSE IF sent = 0 /\ stack[p].counts[3] > 0 THEN "FAILED"
                                 ELSE "SENT"]
    /\ Return(p) /\ RestUnchanged

(* releaseStaleProcessingDeliveries, of every tick: a delivery that has    *)
(* been under way for ten minutes is nobody's any more.                    *)
ReleaseStale(r) ==
    /\ deliveries[r].status = "PROCESSING" /\ ~Held(r)
    /\ deliveries' = [deliveries EXCEPT ![r].status = "PENDING"]
    /\ UNCHANGED <<reqVars, announcement, nextId, mails, unheard, orders, torn>>

AnnouncementsCrash(p) ==
    /\ pc[p] # "idle"
    /\ FaultyReturn(p, "crash")
    /\ UNCHANGED announceOnly

AnnouncementsNext ==
    \/ \E r \in Recipients : ReleaseStale(r)
    \/ \E p \in Procs :
        \/ StartSend(p) \/ ClaimSend(p) \/ SaveNobody(p) \/ ClearDeliveries(p) \/ InsertDeliveries(p)
        \/ SaveStarted(p) \/ StartRetry(p) \/ ResetFailed(p)
        \/ StartEdit(p) \/ SaveEdit(p) \/ StartDelete(p) \/ DeleteDeliveries(p)
        \/ StartWave(p) \/ TakeNoDelivery(p) \/ FinishAnnouncement(p)
        \/ MailDelivery(p) \/ MailUnheard(p)
        \/ \E r \in Recipients : TakeDelivery(p, r)
        \/ MarkSent(p) \/ MarkSentFails(p) \/ MarkDeliveryFailed(p)
        \/ ReadProgress(p) \/ TallyProgress(p) \/ AdvanceProgress(p) \/ AnnouncementsCrash(p)

AnnouncementsSpec == AnnouncementsInit /\ [][AnnouncementsNext]_announceVars

----
(* However often an announcement is sent, retried and edited, and however  *)
(* many ticks are at work, nobody gets more than one mail of it, and one   *)
(* for each answer of the mail server that was lost: the delivery is then  *)
(* retried (announcements.service.ts 672-674).  The claim is not made when *)
(* an instance stops or a write fails after the mail, or the announcement  *)
(* is sent again while a worker still has a mail in its hands.             *)
MailedOnce ==
    \/ Happened("crash") \/ Happened("write") \/ torn
    \/ \A r \in Recipients : mails[r] + unheard[r] <= 1 + LostAnswers
====
