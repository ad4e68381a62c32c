---- MODULE Payin ----
(***************************************************************************)
(* One incoming payment: the transaction, the payin document that follows  *)
(* the charge at the payment provider, everything that verifies or closes  *)
(* it, and what a successful payment sets off.                             *)
(*   flutterwave.service.ts   create*, verifyPayin, verifyAndClosePayin,   *)
(*                            processSuccessfulPayin, webhook, openPayin   *)
(*   payin.service.ts         the payin document and its verification      *)
(*   payin.cron.ts, transaction.cron.ts, payin.controller.ts,              *)
(*   paystack.controller.ts   who starts what                              *)
(*                                                                         *)
(* A process runs jobs one after the other; each database operation and    *)
(* each call of the provider is one step, and the jobs of different        *)
(* processes interleave.  The credit of the wallet is keyed and reaches it *)
(* at most once (Wallet.tla), so here it is a flag.                        *)
(***************************************************************************)
EXTENDS Integers, FiniteSets

CONSTANTS
    Procs,      \* what may be at work at the same time
    Jobs,       \* the jobs each process may run
    Routes,     \* how the payment may be made
    Kinds,      \* what may be paid: an invoice, or anything else ("plain")
    Faults,     \* what may go wrong, see FaultKinds
    MaxFaults,  \* bound: how many faults one behaviour has
    MaxTries,   \* bound: how often the payer tries on the hosted page
    MaxNotices, \* bound: how often the provider notifies
    MaxAge      \* 1: the behaviour ends before 8 hours, 2: it does not

JobKinds == {"create", "verify", "close", "cron", "txCron", "reconcile",
             "webhook", "callback", "redirect", "open", "get"}

(* "crash": a process stops in the middle of a job.  "lost": the answer to *)
(* a charge is lost.  "outage": the provider does not answer a query.      *)
(* "credit", "invoice", "share": that step of a successful payment throws  *)
(* (the credit of the receiver, the invoice, the credit of the system).    *)
FaultKinds == {"crash", "lost", "outage", "credit", "invoice", "share"}

ASSUME PayinJobsAssumption == Jobs \in [Procs -> SUBSET JobKinds]

ASSUME PayinScopeAssumption ==
    /\ Routes \subseteq {"hosted", "direct", "mpesa", "paystack"}
    /\ Kinds \subseteq {"plain", "invoice"}

ASSUME PayinBoundsAssumption ==
    /\ Faults \subseteq FaultKinds
    /\ MaxFaults \in Nat /\ MaxTries \in Nat \ {0} /\ MaxNotices \in Nat
    /\ MaxAge \in 1..2

VARIABLES
    route, kind,    \* how it is paid, and what for
    tx,         \* status of the transaction
    payin,      \* status of the payin document
    credited,   \* movement payin-credit:<tx> is on the ledger
    payed,      \* the invoice is marked as paid
    handled,    \* how often the handlers reserved to the claimer ran
    charge,     \* status of each attempt at the provider
    pin,        \* flwTxId of the payin: the attempt it names, 0 for none
    notices,    \* see MaxNotices
    age,        \* of the payin: 1 beyond the direct window, 2 beyond 8 hours
    pc, job, closing, asked, got, local, mine,  \* the stack of each process
    mishaps     \* history: what went wrong so far

txVars == <<tx, credited, payed, handled>>
payinVars == <<payin, pin>>
chargeVars == <<charge, notices>>
stack == <<pc, job, closing, asked, got, local, mine>>
vars == <<route, kind, txVars, payinVars, chargeVars, age, stack, mishaps>>

None == "none"
Terminal == {"successful", "failed", "cancelled"}
PayinStatuses == {None, "pending"} \cup Terminal
TxStatuses ==
    {None, "PAYINPENDING", "PAYINSUCCESS", "PAYINERROR", "PAYINCLOSED"}
Creating == {"persist", "order", "attach"}
Asking == {"look", "ask", "read", "local", "save", "put", "fail", "judge"}
Closing == {"settle", "overwrite", "expire", "finish", "txLook", "reopen"}
Processing == {"recheck", "repair", "claim", "invoice", "credit", "handle"}
Labels == {"idle"} \cup Creating \cup Asking \cup Closing \cup Processing

TypeOK ==
    /\ route \in Routes /\ kind \in Kinds
    /\ tx \in TxStatuses /\ payin \in PayinStatuses
    /\ credited \in BOOLEAN /\ payed \in BOOLEAN /\ handled \in Nat
    /\ charge \in [1..MaxTries -> PayinStatuses] /\ pin \in 0..MaxTries
    /\ notices \in 0..MaxNotices
    /\ age \in 0..2
    /\ pc \in [Procs -> Labels]
    /\ job \in [Procs -> JobKinds \cup {None}]
    /\ closing \in [Procs -> BOOLEAN] /\ mine \in [Procs -> BOOLEAN]
    /\ asked \in [Procs -> 0..MaxTries]
    /\ got \in [Procs -> PayinStatuses] /\ local \in [Procs -> PayinStatuses]
    /\ mishaps \subseteq FaultKinds

Init ==
    /\ route \in Routes /\ kind \in Kinds
    /\ tx = None /\ payin = None
    /\ credited = FALSE /\ payed = FALSE /\ handled = 0
    /\ charge = [n \in 1..MaxTries |-> None] /\ pin = 0 /\ notices = 0
    /\ age = 0
    /\ pc = [p \in Procs |-> "idle"]
    /\ job = [p \in Procs |-> None]
    /\ closing = [p \in Procs |-> FALSE] /\ mine = [p \in Procs |-> FALSE]
    /\ asked = [p \in Procs |-> 0]
    /\ got = [p \in Procs |-> None] /\ local = [p \in Procs |-> None]
    /\ mishaps = {}

----
(* Steps of a process.                                                     *)

Goto(p, label) == pc' = [pc EXCEPT ![p] = label]

(* A job of the given kind starts at the given label.                      *)
Begin(p, k, label) ==
    /\ pc[p] = "idle"
    /\ k \in Jobs[p]
    /\ job' = [job EXCEPT ![p] = k]
    /\ Goto(p, label)

(* The job goes on at another label, with the same stack, or with the      *)
(* payin status it has just learnt.                                        *)
Continue(p, label) ==
    Goto(p, label) /\ UNCHANGED <<job, closing, asked, got, local, mine>>

Learn(p, s, label) ==
    /\ got' = [got EXCEPT ![p] = s]
    /\ Goto(p, label)
    /\ UNCHANGED <<job, closing, asked, local, mine>>

(* processSuccessfulPayin is called: what the verification knew is not     *)
(* needed any more.                                                        *)
Finalise(p, label) ==
    /\ Goto(p, label)
    /\ closing' = [closing EXCEPT ![p] = FALSE]
    /\ got' = [got EXCEPT ![p] = None]
    /\ UNCHANGED <<job, asked, local, mine>>

(* The job ends, by returning or by an exception, and its stack is gone.   *)
End(p) ==
    /\ Goto(p, "idle")
    /\ job' = [job EXCEPT ![p] = None]
    /\ closing' = [closing EXCEPT ![p] = FALSE]
    /\ mine' = [mine EXCEPT ![p] = FALSE]
    /\ asked' = [asked EXCEPT ![p] = 0]
    /\ got' = [got EXCEPT ![p] = None]
    /\ local' = [local EXCEPT ![p] = None]

(* A fault of each kind happens once at most, and MaxFaults in all.        *)
Suffer(m) ==
    /\ m \in Faults \ mishaps
    /\ Cardinality(mishaps) < MaxFaults
    /\ mishaps' = mishaps \cup {m}

\* Mutant of From: an expired payment can be closed whatever its status.
FromAnywhere(target) ==
    CASE target = "PAYINERROR" -> {"PAYINPENDING"}
      [] target = "PAYINCLOSED" -> TxStatuses \ {None}

(* TRANSACTION_STATUS_FROM without the status itself; the transaction of a *)
(* payin is created as PAYINPENDING, so INITIALIZED does not occur.        *)
From(target) ==
    CASE target = "PAYINERROR" -> {"PAYINPENDING"}
      [] target = "PAYINCLOSED" -> {"PAYINPENDING"}

(* updateTransactionStatus: one conditional write.                         *)
SetTx(target) ==
    /\ tx' = IF tx \in From(target) THEN target ELSE tx
    /\ UNCHANGED <<credited, payed, handled>>

Unpaid == UNCHANGED <<route, kind, txVars, age>>
Quiet == UNCHANGED <<route, kind, chargeVars, age, mishaps>>

(* {status: {$nin: ['successful', 'failed', 'cancelled']}}                 *)
Open == payin \notin Terminal

----
(* createPayin, createMpesaPayin, createPaystackPayin, createDirectPayin   *)
(* and createDirectCharge.                                                 *)
Create(p) ==
    /\ Begin(p, "create", IF route = "mpesa" THEN "order" ELSE "persist")
    /\ tx = None
    /\ tx' = "PAYINPENDING"
    /\ UNCHANGED <<credited, payed, handled, payinVars>>
    /\ UNCHANGED <<closing, asked, got, local, mine>>
    /\ Quiet

(* The hosted page and Paystack's give their link before, M-Pesa has sent  *)
(* its prompt to the phone; a direct charge is still to be ordered.        *)
Persist(p) ==
    /\ pc[p] = "persist"
    /\ payin' = "pending"
    /\ IF route = "direct" THEN Continue(p, "order") ELSE End(p)
    /\ UNCHANGED <<txVars, pin>>
    /\ Quiet

(* No link comes back, the prompt is not sent; or a direct charge fails    *)
(* without having been taken, but not provably so: recordChargeFailure     *)
(* leaves the payin pending.                                               *)
RefuseLink(p) ==
    /\ \/ pc[p] = "persist" /\ route \in {"hosted", "paystack"}
       \/ pc[p] = "order" /\ route \in {"direct", "mpesa"}
    /\ End(p)
    /\ UNCHANGED <<txVars, payinVars>>
    /\ Quiet

(* A charge is taken and answered with its status: a mobile money charge   *)
(* waits for the payer or, the direct one, is decided at once.             *)
Order(p) ==
    /\ pc[p] = "order"
    /\ \E s \in {"pending"} \cup (IF route = "direct" THEN Terminal ELSE {}) :
         /\ charge' = [charge EXCEPT ![1] = s]
         /\ Learn(p, s, IF route = "direct" THEN "attach" ELSE "persist")
    /\ Unpaid
    /\ UNCHANGED <<payinVars, notices, mishaps>>

(* The charge is refused before anything is sent: isPreChargeRejection.    *)
RejectCharge(p) ==
    /\ pc[p] = "order"
    /\ route = "direct"
    /\ Learn(p, "failed", "attach")
    /\ UNCHANGED <<txVars, payinVars>>
    /\ Quiet

(* The charge is taken, but its answer is lost.                            *)
LoseAnswer(p) ==
    /\ pc[p] = "order"
    /\ Suffer("lost")
    /\ charge' = [charge EXCEPT ![1] = "pending"]
    /\ End(p)
    /\ Unpaid
    /\ UNCHANGED <<payinVars, notices>>

(* attachChargeResult: only `pending` spares a payin that is final.        *)
Attach(p) ==
    /\ pc[p] = "attach"
    /\ payin' = IF got[p] # "pending" \/ Open THEN got[p] ELSE payin
    /\ IF got[p] = "successful" THEN Finalise(p, "claim") ELSE End(p)
    /\ UNCHANGED <<txVars, pin>>
    /\ Quiet

----
(* The payer and the provider.                                             *)

Made == Cardinality({n \in 1..MaxTries : charge[n] # None})

(* What the provider says of an attempt: 0 is one it does not know.        *)
Status(n) == IF n = 0 THEN None ELSE charge[n]

(* The hosted page and Paystack's are opened; after a failed attempt on    *)
(* the hosted page the payer may try again, which is a transaction of its  *)
(* own at the provider (flutterwave.service.ts 1835-1839).                 *)
Try ==
    /\ route \in {"hosted", "paystack"}
    /\ payin # None
    /\ Made < MaxTries
    /\ \/ Made = 0
       \/ route = "hosted" /\ Status(Made) \in {"failed", "cancelled"}
    /\ charge' = [charge EXCEPT ![Made + 1] = "pending"]
    /\ UNCHANGED <<route, kind, txVars, payinVars, notices>>
    /\ UNCHANGED <<age, stack, mishaps>>

Decide(s) ==
    /\ \E n \in 1..MaxTries : /\ charge[n] = "pending"
                              /\ charge' = [charge EXCEPT ![n] = s]
    /\ UNCHANGED <<route, kind, txVars, payinVars, notices>>
    /\ UNCHANGED <<age, stack, mishaps>>

----
(* PayinService.verifyPayin, by the crons (which list what is pending and  *)
(* close what is beyond its window), by an HTTP request of either kind, by *)
(* M-Pesa's callback, and by the redirect from Paystack's page, which only *)
(* asks and writes.                                                        *)

Window == IF route = "direct" THEN 1 ELSE 2

StartVerify(p, k) ==
    /\ Begin(p, k, IF k = "redirect" THEN "ask" ELSE "look")
    /\ CASE k = "cron" -> payin = "pending"
         [] k = "redirect" -> payin # None /\ route = "paystack"
         [] k \in {"verify", "close"} -> payin # None
    /\ closing' = [closing EXCEPT ![p] = \/ k = "close"
                                         \/ k = "cron" /\ age >= Window]
    /\ UNCHANGED <<txVars, payinVars, asked, got, local, mine>>
    /\ Quiet

Flutterwave == route \in {"hosted", "direct"}

(* Flutterwave is asked for the transaction the payin names, if it does.   *)
GoAsk(p) ==
    /\ asked' = [asked EXCEPT ![p] = pin]
    /\ Goto(p, "ask")
    /\ UNCHANGED <<job, closing, got, local, mine>>

Look(p) ==
    /\ pc[p] = "look"
    /\ IF ~Flutterwave /\ ~Open
       THEN Learn(p, payin, "judge") ELSE GoAsk(p)
    /\ UNCHANGED <<txVars, payinVars>>
    /\ Quiet

(* verify by its id, or verify_by_reference: the last attempt.             *)
Asked(p) == IF asked[p] = 0 THEN Made ELSE asked[p]
Reply(p) == Status(Asked(p))

\* Mutant of Answer: the provider's own word for what is pending is kept.
AnswerRaw(p) ==
    IF Reply(p) = "pending" /\ ~Flutterwave THEN "processing" ELSE Reply(p)

\* Mutant of Answer: a query that succeeds means that the payment did.
AnswerOptimistically(p) ==
    IF route = "mpesa" /\ ~closing[p] THEN "successful" ELSE Reply(p)

(* What the answer is taken for.  M-Pesa: a failure is one only when       *)
(* closing; Paystack: a page nobody paid on is pending.                    *)
Answer(p) ==
    CASE Flutterwave -> Reply(p)
      [] route = "mpesa" ->
           IF Reply(p) = "successful" \/ closing[p] THEN Reply(p) ELSE "pending"
      [] route = "paystack" ->
           IF Reply(p) = None THEN "pending" ELSE Reply(p)

(* Flutterwave: a success or a pending charge is saved, a failure only     *)
(* when closing; a charge it does not know leaves the local record.        *)
Saves(p) ==
    \/ Reply(p) \in {"pending", "successful"}
    \/ closing[p] /\ Reply(p) # None

Ask(p) ==
    /\ pc[p] = "ask"
    /\ asked' =
         [asked EXCEPT ![p] = IF Flutterwave /\ Saves(p) THEN Asked(p) ELSE 0]
    /\ \/ /\ Flutterwave /\ Saves(p)
          /\ Goto(p, "local")
          /\ got' = [got EXCEPT ![p] = Answer(p)]
       \/ /\ Flutterwave /\ ~Saves(p)
          /\ Goto(p, "read")
          /\ UNCHANGED got
       \/ /\ ~Flutterwave
          /\ Goto(p, "put")
          /\ got' = [got EXCEPT ![p] = Answer(p)]
    /\ UNCHANGED <<txVars, payinVars, job, closing, local, mine>>
    /\ Quiet

(* No answer.  Flutterwave: FAILED when closing.  M-Pesa: pending if the   *)
(* error is a temporary one, otherwise thrown.  Paystack: cancelled when   *)
(* closing; the redirect gives up.                                         *)
FailToAsk(p) ==
    /\ pc[p] = "ask"
    /\ Suffer("outage")
    /\ \/ Flutterwave /\ Continue(p, IF closing[p] THEN "fail" ELSE "read")
       \/ route = "mpesa" /\ (Learn(p, "pending", "put") \/ End(p))
       \/ /\ route = "paystack"
          /\ IF job[p] = "redirect"
             THEN End(p)
             ELSE Learn(p, IF closing[p] THEN "cancelled" ELSE "pending", "put")
    /\ Unpaid
    /\ UNCHANGED <<payinVars, chargeVars>>

(* The local record is all there is.                                       *)
Read(p) ==
    /\ pc[p] = "read"
    /\ Learn(p, payin, "judge")
    /\ UNCHANGED <<txVars, payinVars>>
    /\ Quiet

(* saveFlutterwaveResult: read, then write what is not final; when nothing *)
(* was written, the record read before is what the caller gets.            *)
ReadBeforeSave(p) ==
    /\ pc[p] = "local"
    /\ local' = [local EXCEPT ![p] = payin]
    /\ Goto(p, "save")
    /\ UNCHANGED <<txVars, payinVars, job, closing, asked, got, mine>>
    /\ Quiet

Save(p) ==
    /\ pc[p] = "save"
    /\ payin' = IF Open THEN got[p] ELSE payin
    /\ pin' = IF Open THEN asked[p] ELSE pin
    /\ got' = [got EXCEPT ![p] = IF Open THEN got[p] ELSE local[p]]
    /\ asked' = [asked EXCEPT ![p] = 0]
    /\ local' = [local EXCEPT ![p] = None]
    /\ Goto(p, "judge")
    /\ UNCHANGED <<txVars, job, closing, mine>>
    /\ Quiet

(* M-Pesa and Paystack: the write has no condition.                        *)
Put(p) ==
    /\ pc[p] = "put"
    /\ payin' = got[p]
    /\ IF job[p] = "redirect" THEN End(p) ELSE Continue(p, "judge")
    /\ UNCHANGED <<txVars, pin>>
    /\ Quiet

Fail(p) ==
    /\ pc[p] = "fail"
    /\ payin' = "failed"
    /\ End(p)
    /\ UNCHANGED <<txVars, pin>>
    /\ Quiet

(* FlutterwaveService.verifyPayin and verifyAndClosePayin, once they have  *)
(* the payin: what the payment comes to.                                   *)
Refused(p) == closing[p] /\ got[p] \in {"failed", "cancelled"}

\* Mutant of Expired: it does not matter what the last look found.
ExpiredWhatever(p) == closing[p] /\ age = 2

\* Mutant of Expired: what is still pending after 8 hours is left alone.
ExpiredNever(p) == FALSE

Expired(p) == closing[p] /\ got[p] = "pending" /\ age = 2

Judge(p) ==
    /\ pc[p] = "judge"
    /\ \/ got[p] = "successful" /\ tx # "PAYINSUCCESS" /\ Finalise(p, "claim")
       \/ got[p] = "successful" /\ tx = "PAYINSUCCESS" /\ Finalise(p, "repair")
       \/ /\ Refused(p)
          /\ IF got[p] = "cancelled" /\ tx = "PAYINCLOSED"
             THEN End(p) ELSE Continue(p, "settle")
       \/ Expired(p) /\ Learn(p, "cancelled", "expire")
       \/ got[p] # "successful" /\ ~Refused(p) /\ ~Expired(p) /\ End(p)
    /\ UNCHANGED <<txVars, payinVars>>
    /\ Quiet

TargetOf(s) == IF s = "failed" THEN "PAYINERROR" ELSE "PAYINCLOSED"

(* A failure settles the transaction, then the payin; an expiry the payin, *)
(* then the transaction.                                                   *)
Settle(p) ==
    /\ pc[p] \in {"settle", "finish"}
    /\ SetTx(TargetOf(got[p]))
    /\ IF pc[p] = "settle" THEN Continue(p, "overwrite") ELSE End(p)
    /\ UNCHANGED payinVars
    /\ Quiet

(* updatePayinStatus: the write has no condition.                          *)
Overwrite(p) ==
    /\ pc[p] \in {"overwrite", "expire"}
    /\ payin' = got[p]
    /\ IF pc[p] = "expire" THEN Continue(p, "finish") ELSE End(p)
    /\ UNCHANGED <<txVars, pin>>
    /\ Quiet

----
(* verifyWebhookPayin: the delivery of an outcome, however late or often.  *)
(* One that finds the payin already successful looks again and goes on.    *)
Webhook(p, n) ==
    /\ Flutterwave /\ payin # None
    /\ charge[n] \in Terminal
    /\ notices < MaxNotices
    /\ notices' = notices + 1
    /\ payin' = IF Open THEN charge[n] ELSE payin
    /\ pin' = IF Open THEN n ELSE pin
    /\ IF charge[n] = "successful"
       THEN Begin(p, "webhook", IF Open THEN "claim" ELSE "recheck")
       ELSE /\ pc[p] = "idle" /\ "webhook" \in Jobs[p]
            /\ UNCHANGED <<pc, job>>
    /\ Unpaid
    /\ UNCHANGED <<charge, closing, asked, got, local, mine, mishaps>>

(* handleMpesaStkCallback writes without a condition, `pending` for a code *)
(* that is missing or means nothing to it; the controller then verifies, or*)
(* closes what failed.                                                     *)
Callback(p) ==
    /\ route = "mpesa" /\ payin # None
    /\ charge[1] # None
    /\ notices < MaxNotices
    /\ notices' = notices + 1
    /\ Begin(p, "callback", "look")
    /\ payin' \in {charge[1], "pending"}
    /\ closing' = [closing EXCEPT ![p] = (payin' \in {"failed", "cancelled"})]
    /\ Unpaid
    /\ UNCHANGED <<charge, pin, asked, got, local, mine, mishaps>>

(* openPayin: the owner reopens a payin that is not paid.                  *)
StartOpen(p) ==
    /\ payin \in {"pending", "failed", "cancelled"}
    /\ tx \in {"PAYINPENDING", "PAYINERROR", "PAYINCLOSED"}
    /\ Begin(p, "open", "reopen")
    /\ UNCHANGED <<txVars, payinVars, closing, asked, got, local, mine>>
    /\ Quiet

(* The transaction stays: PAYINPENDING is reached from INITIALIZED alone.  *)
Reopen(p) ==
    /\ pc[p] = "reopen"
    /\ payin' = "pending"
    /\ End(p)
    /\ UNCHANGED <<txVars, pin>>
    /\ Quiet

----
(* processSuccessfulPayin, and who gets to it without asking the provider: *)
(* the payer's page that polls (get-txRef), the reconciliation of invoices *)
(* every 15 minutes, and after 8 hours the transaction cron.               *)
StartGet(p) ==
    /\ payin # None
    /\ Begin(p, "get", "recheck")
    /\ UNCHANGED <<txVars, payinVars, closing, asked, got, local, mine>>
    /\ Quiet

\* Mutant of Reconcilable: what was claimed is taken for done.
ReconcilableUnclaimed ==
    payin = "successful" /\ kind = "invoice" /\ ~payed /\ tx # "PAYINSUCCESS"

Reconcilable == payin = "successful" /\ kind = "invoice" /\ ~payed

StartReconcile(p) ==
    /\ Reconcilable
    /\ Begin(p, "reconcile", "claim")
    /\ UNCHANGED <<txVars, payinVars, closing, asked, got, local, mine>>
    /\ Quiet

StartTxCron(p) ==
    /\ tx = "PAYINPENDING" /\ age = 2
    /\ Begin(p, "txCron", "txLook")
    /\ UNCHANGED <<txVars, payinVars, closing, asked, got, local, mine>>
    /\ Quiet

(* verifyTransactionPayinStatus.                                           *)
\* Mutant of TxLook: a success is taken for credited already.
TxLookTrusts(p) ==
    /\ pc[p] = "txLook"
    /\ IF payin \in {"failed", "cancelled"}
       THEN Learn(p, payin, "finish")
       ELSE IF payin = None THEN Learn(p, "failed", "finish") ELSE End(p)
    /\ UNCHANGED <<txVars, payinVars>>
    /\ Quiet

\* Mutant of TxLook: a transaction without a payin is skipped.
TxLookSkips(p) ==
    /\ pc[p] = "txLook"
    /\ \/ payin = None /\ End(p)
       \/ payin = "successful" /\ Continue(p, "claim")
       \/ payin \in {"failed", "cancelled"} /\ Learn(p, payin, "finish")
       \/ payin = "pending" /\ End(p)
    /\ UNCHANGED <<txVars, payinVars>>
    /\ Quiet

TxLook(p) ==
    /\ pc[p] = "txLook"
    /\ \/ payin = None /\ Learn(p, "failed", "finish")
       \/ payin = "successful" /\ Continue(p, "claim")
       \/ payin \in {"failed", "cancelled"} /\ Learn(p, payin, "finish")
       \/ payin = "pending" /\ End(p)
    /\ UNCHANGED <<txVars, payinVars>>
    /\ Quiet

Recheck(p) ==
    /\ pc[p] = "recheck"
    /\ IF payin = "successful" THEN Continue(p, "claim") ELSE End(p)
    /\ UNCHANGED <<txVars, payinVars>>
    /\ Quiet

\* Mutant of Claimable: the claim does not exclude what is claimed already.
ClaimableTwice == tx # None

Claimable == tx \in {"PAYINPENDING", "PAYINERROR", "PAYINCLOSED"}

AfterClaim == IF kind = "invoice" THEN "invoice" ELSE "credit"

Claim(p) ==
    /\ pc[p] = "claim"
    /\ tx' = IF Claimable THEN "PAYINSUCCESS" ELSE tx
    /\ mine' = [mine EXCEPT ![p] = Claimable]
    /\ Goto(p, AfterClaim)
    /\ UNCHANGED <<credited, payed, handled, payinVars>>
    /\ UNCHANGED <<job, closing, asked, got, local>>
    /\ Quiet

(* handleInvoice; its error is swallowed.                                  *)
MarkInvoice(p) ==
    /\ pc[p] = "invoice"
    /\ payed' = TRUE
    /\ Continue(p, "credit")
    /\ UNCHANGED <<tx, credited, handled, payinVars>>
    /\ Quiet

FailToMark(p) ==
    /\ pc[p] = "invoice"
    /\ Suffer("invoice")
    /\ Continue(p, "credit")
    /\ Unpaid
    /\ UNCHANGED <<payinVars, chargeVars>>

\* Mutant of AfterCredit: `if (claimed) return` for `if (!claimed)`.
AfterCreditInverted(p) ==
    IF mine[p] \/ kind = "invoice" THEN End(p) ELSE Continue(p, "handle")

(* The keyed credit, claimed or not; its error is swallowed.               *)
AfterCredit(p) ==
    IF mine[p] /\ kind # "invoice" THEN Continue(p, "handle") ELSE End(p)

Credit(p) ==
    /\ pc[p] = "credit"
    /\ credited' = TRUE
    /\ AfterCredit(p)
    /\ UNCHANGED <<tx, payed, handled, payinVars>>
    /\ Quiet

FailToCredit(p) ==
    /\ pc[p] = "credit"
    /\ Suffer("credit")
    /\ AfterCredit(p)
    /\ Unpaid
    /\ UNCHANGED <<payinVars, chargeVars>>

(* The system's share is credited before the handlers run; its error is    *)
(* not swallowed, and the handlers are left out.                           *)
FailToShare(p) ==
    /\ pc[p] = "handle"
    /\ Suffer("share")
    /\ End(p)
    /\ Unpaid
    /\ UNCHANGED <<payinVars, chargeVars>>

(* handleSubscription, handleService, handleFundraising...                 *)
Handle(p) ==
    /\ pc[p] = "handle"
    /\ handled' = handled + 1
    /\ End(p)
    /\ UNCHANGED <<tx, credited, payed, payinVars>>
    /\ Quiet

(* repairInvoiceFinalization.                                              *)
Repair(p) ==
    /\ pc[p] = "repair"
    /\ payed' = (payed \/ kind = "invoice")
    /\ End(p)
    /\ UNCHANGED <<tx, credited, handled, payinVars>>
    /\ Quiet

----
(* A window ends, the first one matters to direct charges alone; no call   *)
(* that creates a payin takes that long.                                   *)
GrowOld ==
    /\ age < 2
    /\ age' = IF route = "direct" THEN age + 1 ELSE 2
    /\ age' <= MaxAge
    /\ tx # None
    /\ \A p \in Procs : pc[p] \notin Creating
    /\ UNCHANGED <<route, kind, txVars, payinVars, chargeVars, stack, mishaps>>

Crash(p) ==
    /\ pc[p] # "idle"
    /\ Suffer("crash")
    /\ End(p)
    /\ Unpaid
    /\ UNCHANGED <<payinVars, chargeVars>>

(* What a running job does next, faults aside.                             *)
Advance(p) ==
    \/ Persist(p) \/ RefuseLink(p) \/ Order(p) \/ RejectCharge(p) \/ Attach(p)
    \/ Look(p) \/ Ask(p) \/ Read(p) \/ ReadBeforeSave(p) \/ Save(p) \/ Put(p)
    \/ Fail(p) \/ Judge(p) \/ Settle(p) \/ Overwrite(p) \/ Reopen(p)
    \/ TxLook(p) \/ Recheck(p) \/ Repair(p)
    \/ Claim(p) \/ MarkInvoice(p) \/ Credit(p) \/ Handle(p)

Start(p) ==
    \/ Create(p)
    \/ \E k \in {"cron", "verify", "close", "redirect"} : StartVerify(p, k)
    \/ \E n \in 1..MaxTries : Webhook(p, n)
    \/ Callback(p)
    \/ StartOpen(p) \/ StartGet(p) \/ StartReconcile(p) \/ StartTxCron(p)

Fault(p) ==
    \/ LoseAnswer(p) \/ FailToAsk(p) \/ FailToMark(p) \/ FailToCredit(p)
    \/ FailToShare(p) \/ Crash(p)

Next ==
    \/ \E p \in Procs : Start(p) \/ Advance(p) \/ Fault(p)
    \/ Try
    \/ \E s \in Terminal : Decide(s)
    \/ GrowOld

Running(k) == {p \in Procs : k \in Jobs[p]}

(* Running jobs go on, the crons come again and again, and time passes.    *)
(* Nothing is assumed of the payer, the provider or its notices.           *)
Fairness ==
    /\ \A p \in Procs : WF_vars(Advance(p))
    /\ \A p \in Running("cron") : SF_vars(StartVerify(p, "cron"))
    /\ \A p \in Running("reconcile") : SF_vars(StartReconcile(p))
    /\ \A p \in Running("txCron") : SF_vars(StartTxCron(p))
    /\ WF_vars(GrowOld)

Spec == Init /\ [][Next]_vars /\ Fairness

----
Idle == \A p \in Procs : pc[p] = "idle"

(* Money is only given out for money that came in: whatever is recorded as *)
(* paid, credited or handled, the provider did reach a success.            *)
PaidBeforeCredited ==
    (credited \/ payed \/ handled > 0 \/ tx = "PAYINSUCCESS")
        => \E n \in 1..MaxTries : charge[n] = "successful"

(* What only the claimer may do (a subscription, a donation) happens once, *)
(* however many webhooks, crons and polls see the success at the same time *)
(* (claimTransactionForSuccessfulPayin).                                   *)
HandledOnce == handled <= 1

(* Who claims a payment hands out what was paid for (a subscription, a     *)
(* donation), and nobody else will: a claimed payment is handled or in the *)
(* hands of its claimer.  A crash, or the error of a credit that comes     *)
(* before, loses it.                                                       *)
ClaimIsHandled ==
    tx = "PAYINSUCCESS" /\ kind = "plain"
        => \/ handled > 0
           \/ \E p \in Procs : mine[p]
           \/ mishaps \cap {"crash", "share"} # {}

(* A job that closes the payment from what it read before the success      *)
(* arrived does not take the success from the transaction.                 *)
SuccessStays == [][tx = "PAYINSUCCESS" => tx' = "PAYINSUCCESS"]_vars

(* A payin that is recorded as successful within 8 hours is credited in    *)
(* the end, by the job that recorded it or, when that one only wrote the   *)
(* status (Paystack's redirect), by the transaction cron; unless a crash   *)
(* or an error hit the credit, or a stale writer took the success back.    *)
SuccessIsCredited ==
    (payin = "successful" /\ age < 2)
        ~> (\/ credited \/ payin # "successful"
            \/ mishaps \cap {"crash", "credit"} # {})

(* An invoice whose payin is successful is marked as paid, whatever        *)
(* crashed: the reconciliation of payin.cron.ts 106-118.                   *)
InvoiceIsPayed ==
    (payin = "successful" /\ kind = "invoice")
        ~> (payed \/ payin # "successful")

(* No payin stays pending: beyond its window the cron closes it, even when *)
(* a job that was writing it stopped half-way.                             *)
PayinEnds == (payin = "pending") ~> (payin # "pending")

(* No transaction stays PAYINPENDING, not even one whose payin was never   *)
(* created or was closed by a job that stopped before the transaction.     *)
TxEnds == (tx = "PAYINPENDING") ~> (tx # "PAYINPENDING")

(* A payment that succeeds at the first try while its payin is young, and  *)
(* nobody is at work on it, is credited without any notice of the provider.*)
InTimeIsCredited ==
    (/\ Status(1) = "successful" /\ payin = "pending" /\ age = 0 /\ Idle
     /\ mishaps = {})
    ~> (credited \/ mishaps # {})

(* flutterwave.service.ts 1835-1839: "Keep the transaction "pending"       *)
(* because the user can relaunch new payment attempts on the flutterwave   *)
(* front": when an attempt after one that failed succeeds, its notice makes *)
(* the payin successful.  The webhook job is one a success starts.         *)
LaterAttemptCounts ==
    [][\A p \in Procs :
         job[p] # "webhook" /\ job'[p] = "webhook"
             => payin' = "successful"]_vars
====
