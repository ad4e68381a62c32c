---- MODULE Payout ----
(***************************************************************************)
(* One outgoing transaction (withdrawal, transfer or API payout, already   *)
(* debited from its owner's wallet) from the moment it waits for approval: *)
(* the transfer ordered from the payment provider, the payout document     *)
(* that follows it, the jobs that verify it, and the refund when it fails. *)
(*   flutterwave.service.ts   payout                                       *)
(*   payout.service.ts        createPayout, verifyPayout, callbacks, force *)
(*   payout.cron.ts           handleCron                                   *)
(*   transaction.service.ts   status table, claim, reject, refund,         *)
(*                            verifyTransactionPayoutStatus                *)
(*                                                                         *)
(* A process runs jobs one after the other; each database operation and    *)
(* each call of the provider is one step, and the jobs of different        *)
(* processes interleave.  The refund is a keyed credit: that it reaches    *)
(* the wallet at most once per key is what Wallet.tla shows, so here it is *)
(* a flag.                                                                 *)
(***************************************************************************)
EXTENDS Integers, FiniteSets

CONSTANTS
    Procs,      \* what may be at work at the same time
    Jobs,       \* the jobs each process may run
    Providers,  \* the providers the transaction may go through
    Faults,     \* what may go wrong, see FaultKinds
    MaxFaults,  \* bound: how many faults one behaviour has
    MaxCallbacks    \* bound: how often the provider calls back

JobKinds == {"payout", "reject", "bulkReject", "cron", "poll", "check",
             "txCron", "callback"}

ASSUME JobsAssumption == Jobs \in [Procs -> SUBSET JobKinds]

ASSUME ProvidersAssumption == Providers \subseteq {"flutterwave", "mpesa"}

(* "crash": a process stops in the middle of a job.  "lostAnswer": the     *)
(* provider takes the order, its answer is an error or never comes.        *)
(* "write": a database write of payout() fails.  "outage": the provider    *)
(* does not answer a verification.  "credit": the refund's credit throws.  *)
FaultKinds == {"crash", "lostAnswer", "write", "outage", "credit"}

ASSUME PayoutFaultsAssumption ==
    Faults \subseteq FaultKinds /\ MaxFaults \in Nat /\ MaxCallbacks \in Nat

VARIABLES
    status,     \* of the transaction
    marked,     \* payoutFailureRefundedAt is set
    refunded,   \* movement payout-failure-refund:<tx> is on the ledger
    provider,   \* who pays
    sent,       \* orders the provider took
    called,     \* callbacks it delivered
    transfer,   \* status of the transfer at the provider
    doc,        \* status of the payout document
    raw,        \* status in the provider's last answer kept in the document
    aged,       \* which documents were not written for eight hours
    pc, job, old, seen, late,   \* what each process has on its stack
    mishaps     \* history: what went wrong, or was forced, so far

txVars == <<status, marked, refunded>>
payVars == <<provider, sent, called, transfer, doc, raw>>
vars == <<txVars, payVars, aged, pc, job, old, seen, late, mishaps>>

None == "none"
Terminal == {"SUCCESSFUL", "FAILED"}
TransferStatuses == {None, "NEW", "PENDING"} \cup Terminal
Statuses == {"PAYINSUCCESS", "PAYOUTPENDING", "PAYOUTSUCCESS", "PAYOUTERROR",
             "PAYOUTCLOSED", "PAYOUTREJECTED"}
Paying == {"post", "save", "confirm", "error"}
Refunding == {"mark", "credit", "unmark"}
Verifying == {"look", "fetch", "write", "settle", "force", "forced",
              "txLook", "txFetch", "txWrite"}
Labels == {"idle"} \cup Paying \cup Refunding \cup Verifying

TypeOK ==
    /\ status \in Statuses
    /\ marked \in BOOLEAN /\ refunded \in BOOLEAN
    /\ provider \in Providers
    /\ sent \in Nat /\ called \in 0..MaxCallbacks
    /\ transfer \in TransferStatuses
    /\ doc \in TransferStatuses /\ raw \in TransferStatuses
    /\ aged \subseteq {"tx", "doc"}
    /\ pc \in [Procs -> Labels]
    /\ job \in [Procs -> JobKinds \cup {None}]
    /\ old \in [Procs -> TransferStatuses] /\ seen \in [Procs -> TransferStatuses]
    /\ late \in [Procs -> BOOLEAN]
    /\ mishaps \subseteq FaultKinds \cup {"forced", "bulkReject"}

Init ==
    /\ status = "PAYINSUCCESS"
    /\ marked = FALSE /\ refunded = FALSE
    /\ provider \in Providers
    /\ sent = 0 /\ called = 0
    /\ transfer = None /\ doc = None /\ raw = None
    /\ aged = {}
    /\ pc = [p \in Procs |-> "idle"]
    /\ job = [p \in Procs |-> None]
    /\ old = [p \in Procs |-> None] /\ seen = [p \in Procs |-> None]
    /\ late = [p \in Procs |-> FALSE]
    /\ mishaps = {}

----
(* Steps of a process.                                                     *)

Start(p, kind) ==
    /\ pc[p] = "idle"
    /\ kind \in Jobs[p]
    /\ job' = [job EXCEPT ![p] = kind]

Goto(p, label) == pc' = [pc EXCEPT ![p] = label]

(* The job ends and its stack is gone.                                     *)
End(p) ==
    /\ Goto(p, "idle")
    /\ job' = [job EXCEPT ![p] = None]
    /\ old' = [old EXCEPT ![p] = None]
    /\ seen' = [seen EXCEPT ![p] = None]
    /\ late' = [late EXCEPT ![p] = FALSE]

(* The job goes on at another label with the same stack.                   *)
Continue(p, label) == Goto(p, label) /\ UNCHANGED <<job, old, seen, late>>

(* An exception: the payout cron force-fails a payout older than eight     *)
(* hours, every other job just ends.                                       *)
Throw(p) ==
    IF job[p] = "cron" /\ late[p] THEN Continue(p, "force") ELSE End(p)

(* A fault of each kind happens once at most, and MaxFaults in all.        *)
Suffer(m) ==
    /\ m \in Faults \ mishaps
    /\ Cardinality(mishaps \cap FaultKinds) < MaxFaults
    /\ mishaps' = mishaps \cup {m}

(* TRANSACTION_STATUS_FROM without the status itself.                      *)
From(target) ==
    CASE target = "PAYOUTPENDING" -> {"PAYINSUCCESS", "PAYOUTERROR"}
      [] target = "PAYOUTSUCCESS" -> {"PAYOUTPENDING"}
      [] target = "PAYOUTERROR" -> {"PAYOUTPENDING"}
      [] target = "PAYOUTCLOSED" -> {"PAYOUTPENDING", "PAYOUTERROR"}

(* updateTransactionStatus: one conditional write, a no-op from any other  *)
(* status; a payout that turned to PAYOUTERROR is refunded.                *)
SetStatus(p, target) ==
    /\ IF status \in From(target)
       THEN /\ status' = target
            /\ aged' = aged \ {"tx"}
            /\ IF target = "PAYOUTERROR" THEN Continue(p, "mark") ELSE End(p)
       ELSE UNCHANGED <<status, aged>> /\ End(p)
    /\ UNCHANGED <<marked, refunded>>

----
(* payout(): by an administrator, by auto-approval or by the API.          *)

\* Mutant of Claimable: a payout under way can be claimed or rejected.
ClaimableTwice == status \in {"PAYINSUCCESS", "PAYOUTPENDING"}

Claimable == status = "PAYINSUCCESS"

Claim(p) ==
    /\ Start(p, "payout")
    /\ Claimable
    /\ status' = "PAYOUTPENDING"
    /\ aged' = aged \ {"tx"}
    /\ Goto(p, "post")
    /\ UNCHANGED <<marked, refunded, payVars, old, seen, late, mishaps>>

\* Mutant of FirstStatus: a status the code does not know.
FirstStatusQueued == IF provider = "mpesa" THEN "PENDING" ELSE "QUEUED"

FirstStatus == IF provider = "mpesa" THEN "PENDING" ELSE "NEW"

TakeOrder == sent' = sent + 1 /\ transfer' = FirstStatus

Post(p) ==
    /\ pc[p] = "post"
    /\ TakeOrder
    /\ Continue(p, "save")
    /\ UNCHANGED <<txVars, provider, called, doc, raw, aged, mishaps>>

(* The provider refuses the order: insufficient funds, invalid account.    *)
Refuse(p) ==
    /\ pc[p] = "post"
    /\ Continue(p, "error")
    /\ UNCHANGED <<txVars, payVars, aged, mishaps>>

LoseAnswer(p) ==
    /\ pc[p] = "post"
    /\ Suffer("lostAnswer")
    /\ TakeOrder
    /\ Continue(p, "error")
    /\ UNCHANGED <<txVars, provider, called, doc, raw, aged>>

(* createPayout: NEW and PENDING are both stored as PENDING.               *)
SaveDocument(p) ==
    /\ pc[p] = "save"
    /\ doc' = "PENDING" /\ raw' = "PENDING"
    /\ aged' = aged \ {"doc"}
    /\ Continue(p, "confirm")
    /\ UNCHANGED <<txVars, provider, sent, called, transfer, mishaps>>

(* updateTransactionStatus with the status of the answer, NEW or PENDING.  *)
Confirm(p) ==
    /\ pc[p] = "confirm"
    /\ SetStatus(p, "PAYOUTPENDING")
    /\ UNCHANGED <<payVars, mishaps>>

FailToWrite(p) ==
    /\ pc[p] \in {"save", "confirm"}
    /\ Suffer("write")
    /\ Continue(p, "error")
    /\ UNCHANGED <<txVars, payVars, aged>>

(* The catch of payout(): whatever went wrong, PAYOUTERROR and a refund.   *)
FailPayout(p) ==
    /\ pc[p] = "error"
    /\ SetStatus(p, "PAYOUTERROR")
    /\ UNCHANGED <<payVars, mishaps>>

----
(* The refund: mark, credit under the key of the transaction, unmark when  *)
(* the credit throws.                                                      *)

Mark(p) ==
    /\ pc[p] = "mark"
    /\ IF marked THEN End(p) ELSE Continue(p, "credit")
    /\ marked' = TRUE
    /\ aged' = IF marked THEN aged ELSE aged \ {"tx"}
    /\ UNCHANGED <<status, refunded, payVars, mishaps>>

\* Mutant of Credit: the credit is started and not awaited, and lost.
CreditNotAwaited(p) ==
    /\ pc[p] = "credit"
    /\ End(p)
    /\ UNCHANGED <<status, marked, refunded, payVars, aged, mishaps>>

Credit(p) ==
    /\ pc[p] = "credit"
    /\ refunded' = TRUE
    /\ End(p)
    /\ UNCHANGED <<status, marked, payVars, aged, mishaps>>

FailToCredit(p) ==
    /\ pc[p] = "credit"
    /\ Suffer("credit")
    /\ Continue(p, "unmark")
    /\ UNCHANGED <<txVars, payVars, aged>>

Unmark(p) ==
    /\ pc[p] = "unmark"
    /\ marked' = FALSE
    /\ aged' = aged \ {"tx"}
    /\ Throw(p)
    /\ UNCHANGED <<status, refunded, payVars, mishaps>>

----
(* rejectPayoutTransaction and bulkRejectPayout.                           *)

Reject(p) ==
    /\ Start(p, "reject")
    /\ Claimable
    /\ status' = "PAYOUTREJECTED"
    /\ aged' = aged \ {"tx"}
    /\ Goto(p, "mark")
    /\ UNCHANGED <<marked, refunded, payVars, old, seen, late, mishaps>>

(* The bulk version changes the status and refunds nobody.                 *)
BulkReject(p) ==
    /\ pc[p] = "idle"
    /\ "bulkReject" \in Jobs[p]
    /\ Claimable
    /\ status' = "PAYOUTREJECTED"
    /\ aged' = aged \ {"tx"}
    /\ mishaps' = mishaps \cup {"bulkReject"}
    /\ UNCHANGED <<marked, refunded, payVars, pc, job, old, seen, late>>

----
(* verifyPayout: by the cron, whose list holds the payouts that are        *)
(* PENDING; by the API's status query of a transaction in PAYOUTPENDING    *)
(* (poll); by an administrator, whenever the payout exists (check).        *)
Listed(kind) ==
    CASE kind = "cron" -> doc = "PENDING"
      [] kind = "poll" -> doc # None /\ status = "PAYOUTPENDING"
      [] kind = "check" -> doc # None

StartVerify(p, kind) ==
    /\ Start(p, kind)
    /\ Listed(kind)
    /\ late' = [late EXCEPT ![p] = "doc" \in aged]
    /\ Goto(p, "look")
    /\ UNCHANGED <<txVars, payVars, aged, old, seen, mishaps>>

LookFlutterwave(p) ==
    /\ pc[p] = "look"
    /\ provider = "flutterwave"
    /\ old' = [old EXCEPT ![p] = doc]
    /\ Goto(p, "fetch")
    /\ UNCHANGED <<txVars, payVars, aged, job, seen, late, mishaps>>

Fetch(p) ==
    /\ pc[p] = "fetch"
    /\ IF old[p] = transfer
       THEN End(p)
       ELSE /\ seen' = [seen EXCEPT ![p] = transfer]
            /\ Goto(p, "write")
            /\ UNCHANGED <<job, old, late>>
    /\ UNCHANGED <<txVars, payVars, aged, mishaps>>

\* Mutant of FailToFetch: a transfer the provider does not find has failed.
FailToFetchIsFailure(p) ==
    /\ pc[p] = "fetch"
    /\ Suffer("outage")
    /\ seen' = [seen EXCEPT ![p] = "FAILED"]
    /\ Goto(p, "write")
    /\ UNCHANGED <<txVars, payVars, aged, job, old, late>>

FailToFetch(p) ==
    /\ pc[p] = "fetch"
    /\ Suffer("outage")
    /\ Throw(p)
    /\ UNCHANGED <<txVars, payVars, aged>>

(* updatePayout: the status as the provider spells it, never over a final  *)
(* one; finding it final throws, except for a callback, which is skipped.  *)
(* What the document's last answer will say when it is read again: the     *)
(* timeout callback sets FAILED and keeps an answer without a result code. *)
Reported(p) ==
    IF job[p] = "callback" /\ seen[p] = "FAILED"
    THEN {"FAILED", "PENDING"} ELSE {seen[p]}

Open == doc \notin Terminal

Write(p) ==
    /\ pc[p] = "write"
    /\ IF Open
       THEN /\ doc' = seen[p]
            /\ raw' \in Reported(p)
            /\ aged' = aged \ {"doc"}
            /\ Continue(p, "settle")
       ELSE UNCHANGED <<doc, raw, aged>> /\ Throw(p)
    /\ UNCHANGED <<txVars, provider, sent, called, transfer, mishaps>>

(* The transaction follows.  PENDING is passed on by a poll and by a       *)
(* callback, NEW by nobody.                                                *)
PassesPendingOn(p) == job[p] \in {"poll", "callback"}

Settle(p) ==
    /\ pc[p] = "settle"
    /\ \/ seen[p] = "SUCCESSFUL" /\ SetStatus(p, "PAYOUTSUCCESS")
       \/ seen[p] = "FAILED" /\ SetStatus(p, "PAYOUTERROR")
       \/ /\ seen[p] = "PENDING" /\ PassesPendingOn(p)
          /\ SetStatus(p, "PAYOUTPENDING")
       \/ /\ \/ seen[p] = "NEW"
             \/ seen[p] = "PENDING" /\ ~PassesPendingOn(p)
          /\ End(p)
          /\ UNCHANGED <<txVars, aged>>
    /\ UNCHANGED <<payVars, mishaps>>

(* M-Pesa has no status query: the document's last answer is read again.   *)
(* Where it differs from the status, the status is final and stays.  The   *)
(* cron then force-fails what is older than eight hours.                   *)
LookMpesa(p) ==
    /\ pc[p] = "look"
    /\ provider = "mpesa"
    /\ IF job[p] = "cron" \/ (raw = doc /\ doc \in Terminal)
       THEN Throw(p)
       ELSE /\ seen' = [seen EXCEPT ![p] = raw]
            /\ Goto(p, "settle")
            /\ UNCHANGED <<job, old, late>>
    /\ UNCHANGED <<txVars, payVars, aged, mishaps>>

(* handleMpesaB2CResult and handleMpesaB2CTimeout: delivered any number of *)
(* times, at any time, once the transfer is final; dropped when the        *)
(* document is not there yet.  A failure whose result code is not one of   *)
(* the five known ones counts as PENDING.                                  *)
\* Mutant of Outcomes: a result without a code counts as code 0.
OutcomesByDefault == {transfer, "SUCCESSFUL"}

Outcomes == IF transfer = "FAILED" THEN {"FAILED", "PENDING"} ELSE {transfer}

Callback(p) ==
    /\ Start(p, "callback")
    /\ provider = "mpesa"
    /\ transfer \in Terminal
    /\ doc # None
    /\ called < MaxCallbacks
    /\ called' = called + 1
    /\ \E s \in Outcomes : seen' = [seen EXCEPT ![p] = s]
    /\ Goto(p, "write")
    /\ UNCHANGED <<txVars, provider, sent, transfer, doc, raw, aged, old, late,
                   mishaps>>

(* forceFailStuckPayout: FAILED whatever the document says by now.         *)
ForceFail(p) ==
    /\ pc[p] = "force"
    /\ mishaps' = mishaps \cup {"forced"}
    /\ doc' = "FAILED"
    /\ aged' = aged \ {"doc"}
    /\ late' = [late EXCEPT ![p] = FALSE]
    /\ Goto(p, "forced")
    /\ UNCHANGED <<txVars, provider, sent, called, transfer, raw, job, old, seen>>

FailForced(p) ==
    /\ pc[p] = "forced"
    /\ SetStatus(p, "PAYOUTERROR")
    /\ UNCHANGED <<payVars, mishaps>>

----
(* verifyTransactionPayoutStatus: transactions pending for eight hours.    *)

StartTxCron(p) ==
    /\ Start(p, "txCron")
    /\ status = "PAYOUTPENDING"
    /\ "tx" \in aged
    /\ Goto(p, "txLook")
    /\ UNCHANGED <<txVars, payVars, aged, old, seen, late, mishaps>>

\* Mutant of TxLook: a transaction without a payout document is skipped.
TxLookSkips(p) ==
    /\ pc[p] = "txLook"
    /\ \/ doc = None /\ End(p) /\ UNCHANGED <<txVars, aged>>
       \/ doc = "SUCCESSFUL" /\ SetStatus(p, "PAYOUTSUCCESS")
       \/ doc = "FAILED" /\ SetStatus(p, "PAYOUTERROR")
       \/ /\ doc \in {"NEW", "PENDING"}
          /\ IF provider = "flutterwave" THEN Continue(p, "txFetch") ELSE End(p)
          /\ UNCHANGED <<txVars, aged>>
    /\ UNCHANGED <<payVars, mishaps>>

TxLook(p) ==
    /\ pc[p] = "txLook"
    /\ \/ doc = None /\ SetStatus(p, "PAYOUTCLOSED")
       \/ doc = "SUCCESSFUL" /\ SetStatus(p, "PAYOUTSUCCESS")
       \/ doc = "FAILED" /\ SetStatus(p, "PAYOUTERROR")
       \/ /\ doc \in {"NEW", "PENDING"}
          /\ IF provider = "flutterwave" THEN Continue(p, "txFetch") ELSE End(p)
          /\ UNCHANGED <<txVars, aged>>
    /\ UNCHANGED <<payVars, mishaps>>

TxFetch(p) ==
    /\ pc[p] = "txFetch"
    /\ IF transfer \in Terminal
       THEN /\ seen' = [seen EXCEPT ![p] = transfer]
            /\ Goto(p, "txWrite")
            /\ UNCHANGED <<job, old, late>>
       ELSE End(p)
    /\ UNCHANGED <<txVars, payVars, aged, mishaps>>

(* A success is written over anything but a success, a failure over        *)
(* nothing that is final; the transaction follows in any case.             *)
TxWrite(p) ==
    /\ pc[p] = "txWrite"
    /\ doc' = IF seen[p] = "SUCCESSFUL" \/ Open THEN seen[p] ELSE doc
    /\ aged' = IF doc' # doc THEN aged \ {"doc"} ELSE aged
    /\ Continue(p, "settle")
    /\ UNCHANGED <<txVars, provider, sent, called, transfer, raw, mishaps>>

----
(* The provider works on the transfer; a final status stays.               *)
Progress(s) ==
    /\ transfer \in {"NEW", "PENDING"}
    /\ s \in {"PENDING", "SUCCESSFUL", "FAILED"} \ {transfer}
    /\ transfer' = s
    /\ UNCHANGED <<txVars, provider, sent, called, doc, raw, aged, pc, job, old, seen,
                   late, mishaps>>

(* Eight hours without a write pass; no payout() call takes that long.     *)
Age ==
    /\ status # "PAYINSUCCESS"
    /\ \A p \in Procs : pc[p] \notin Paying
    /\ aged # {"tx", "doc"}
    /\ aged' = {"tx", "doc"}
    /\ UNCHANGED <<txVars, payVars, pc, job, old, seen, late, mishaps>>

Crash(p) ==
    /\ pc[p] # "idle"
    /\ Suffer("crash")
    /\ End(p)
    /\ UNCHANGED <<txVars, payVars, aged>>

(* What a running job does next, faults aside.                             *)
Advance(p) ==
    \/ Post(p) \/ Refuse(p) \/ SaveDocument(p) \/ Confirm(p) \/ FailPayout(p)
    \/ Mark(p) \/ Credit(p) \/ Unmark(p)
    \/ LookFlutterwave(p) \/ LookMpesa(p) \/ Fetch(p) \/ Write(p) \/ Settle(p)
    \/ ForceFail(p) \/ FailForced(p)
    \/ TxLook(p) \/ TxFetch(p) \/ TxWrite(p)

Begin(p) ==
    \/ Claim(p) \/ Reject(p) \/ BulkReject(p)
    \/ StartVerify(p, "cron") \/ StartVerify(p, "poll") \/ StartVerify(p, "check")
    \/ StartTxCron(p) \/ Callback(p)

Fault(p) ==
    LoseAnswer(p) \/ FailToWrite(p) \/ FailToCredit(p) \/ FailToFetch(p) \/ Crash(p)

Next ==
    \/ \E p \in Procs : Begin(p) \/ Advance(p) \/ Fault(p)
    \/ \E s \in TransferStatuses : Progress(s)
    \/ Age

Running(k) == {p \in Procs : k \in Jobs[p]}

(* Running jobs go on, both crons come again and again, time passes and    *)
(* the provider decides.  No poll, callback or approval is assumed.        *)
Fairness ==
    /\ \A p \in Procs : WF_vars(Advance(p))
    /\ \A p \in Running("cron") : SF_vars(StartVerify(p, "cron"))
    /\ \A p \in Running("txCron") : SF_vars(StartTxCron(p))
    /\ WF_vars(Age)
    /\ WF_vars(\E s \in Terminal : Progress(s))

Spec == Init /\ [][Next]_vars /\ Fairness

----
Idle == \A p \in Procs : pc[p] = "idle"

(* The provider is asked to pay at most once, however many approvals,      *)
(* auto-approvals and rejections run at once and whatever fails            *)
(* (claimTransactionForPayout, flutterwave.service.ts 2532-2543).          *)
AtMostOneTransfer == sent <= 1

(* A rejected transaction was never sent to the provider and never will    *)
(* be: no process has a claim on it (transaction.service.ts 1240, 1267).   *)
RejectedIsNeverPaid ==
    status = "PAYOUTREJECTED" => sent = 0 /\ \A p \in Procs : pc[p] \notin Paying

(* Paid by the provider and refunded to the owner: only after an order     *)
(* whose answer was lost, a failed write of payout(), or a force-fail.     *)
PaidAndRefundedNeedsMishap ==
    refunded /\ transfer = "SUCCESSFUL"
        => mishaps \cap {"lostAnswer", "write", "forced"} # {}

(* When nobody is at work, an outgoing payment that failed, was closed or  *)
(* was rejected has been refunded; the exceptions are a crash, a credit    *)
(* that threw, and the bulk rejection.                                     *)
UnpaidIsRefunded ==
    /\ Idle
    /\ status \in {"PAYOUTERROR", "PAYOUTCLOSED", "PAYOUTREJECTED"}
    => refunded \/ mishaps \cap {"crash", "credit", "bulkReject"} # {}

(* A transaction reported as paid was paid, on whatever stale reads the    *)
(* job that reported it worked.                                            *)
SuccessIsPaid == status = "PAYOUTSUCCESS" => transfer = "SUCCESSFUL"

(* Once a payout was claimed its transaction does not stay under way: the  *)
(* crons end it even when the process that paid crashed, an answer was     *)
(* lost or every callback was dropped.                                     *)
PayoutEnds == status = "PAYOUTPENDING" ~> status # "PAYOUTPENDING"
====
