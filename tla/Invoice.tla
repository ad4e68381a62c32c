---- MODULE Invoice ----
(***************************************************************************)
(* One invoice: its owner publishes, changes and archives it or marks it   *)
(* as paid; payers start payments of it, directly or on the hosted page;   *)
(* and what comes of a payment is found by its notice, by a visit of the   *)
(* public page and by a cron that runs on every instance without a lock.   *)
(*   invoice.service.ts, invoice.cron.ts, payin-route.service.ts           *)
(*                                                                         *)
(* A handler reads the document, awaits other calls and saves it without a *)
(* condition; save() writes the fields the handler has changed.  How the   *)
(* transaction of a payment comes to its end is in Payin.                  *)
(***************************************************************************)
EXTENDS Requests, Sequences, FiniteSetsExt

CONSTANTS
    MaxTxs,     \* bound: payments begun
    MaxOwner    \* bound: requests of the owner

ASSUME InvoiceAssumption == MaxTxs \in Nat /\ MaxOwner \in Nat

VARIABLES
    inv,        \* the document
    txs,        \* transactions of the invoice in the order of their creation
    owned,      \* history: requests of the owner
    settled,    \* history: the invoice has been paid
    crossed     \* history: somebody saved an invoice that was no longer as
                \* he had read it, or reopened it while a payer was at work

invoiceOnly == <<inv, txs, owned, settled, crossed>>
invoiceVars == <<reqVars, invoiceOnly>>

InvoiceStatuses == {"draft", "completed", "paying", "payed", "archived"}
InvoiceDocs == [status : InvoiceStatuses, payed : BOOLEAN, tx : Nat]
(* charge: what the provider has of it.                                    *)
InvoiceTxs == [status : {"pending", "closed", "success"},
               charge : {"none", "open", "paid", "refused"}]
InvoiceLabels == {"idle", "claim", "route", "release", "savePay", "success", "saveSuccess",
                  "repair", "sync", "reopen", "update", "mark"}

InvoiceTypeOK ==
    /\ inv \in InvoiceDocs
    /\ txs \in Seq(InvoiceTxs) /\ Len(txs) <= MaxTxs
    /\ owned \in 0..MaxOwner
    /\ {settled, crossed} \subseteq BOOLEAN
    /\ pc \in [Procs -> InvoiceLabels]

(* create.                                                                 *)
InvoiceInit ==
    /\ RequestsInit
    /\ inv = [status |-> "completed", payed |-> FALSE, tx |-> 0]
    /\ txs = <<>> /\ owned = 0
    /\ settled = FALSE /\ crossed = FALSE

InvFrame == [subject |-> "invoice", seen |-> inv, tx |-> 0]
Seen(p) == stack[p].seen

(* save() of the fields that differ between the document read and doc.     *)
SaveInvoice(p, doc) ==
    /\ inv' = [f \in DOMAIN inv |-> IF doc[f] # Seen(p)[f] THEN doc[f] ELSE inv[f]]
    /\ settled' = (settled \/ inv'.payed)
    /\ crossed' = (crossed \/ inv # Seen(p))

----
(* initiatePayment.                                                        *)

(* It goes on when the invoice is payable.  While a payment is under way   *)
(* its link is returned, and nothing changes.                              *)
StartPay(p) ==
    /\ inv.status = "completed" /\ ~inv.payed /\ Len(txs) < MaxTxs
    /\ Begin(p, "claim", InvFrame)
    /\ UNCHANGED invoiceOnly

\* Mutant: the status that was read decides.
ClaimUnconditionally(p) ==
    /\ pc[p] = "claim"
    /\ inv' = [inv EXCEPT !.status = "paying"]
    /\ JumpWith(p, "route", [stack[p] EXCEPT !.seen = inv'])
    /\ UNCHANGED <<txs, owned, settled, crossed>>

(* findOneAndUpdate: of all payers one gets the invoice.                   *)
ClaimInvoice(p) ==
    /\ pc[p] = "claim"
    /\ IF inv.status = "completed" /\ ~inv.payed
       THEN /\ inv' = [inv EXCEPT !.status = "paying"]
            /\ JumpWith(p, "route", [stack[p] EXCEPT !.seen = inv'])
       ELSE Return(p) /\ UNCHANGED inv
    /\ UNCHANGED <<txs, owned, settled, crossed>>

AddTx(status, charge) ==
    /\ Len(txs) < MaxTxs
    /\ txs' = Append(txs, [status |-> status, charge |-> charge])

(* PayinRouteService.resolve, on either route: the charge is on its way.   *)
RouteOk(p) ==
    /\ pc[p] = "route"
    /\ AddTx("pending", "open")
    /\ JumpWith(p, "savePay", [stack[p] EXCEPT !.tx = Len(txs) + 1])
    /\ UNCHANGED <<inv, owned, settled, crossed>>

(* The charge is refused at once, or nothing was sent: the hosted page is  *)
(* not made, or the number is rejected before the charge.                  *)
RouteRefused(p) ==
    /\ pc[p] = "route"
    /\ \/ AddTx("closed", "refused")
       \/ AddTx("pending", "none")
       \/ UNCHANGED txs
    /\ Jump(p, "release")
    /\ UNCHANGED <<inv, owned, settled, crossed>>

\* Mutant: the invoice is released after every error.
RouteReleased(p) ==
    /\ pc[p] = "route"
    /\ \E charge \in {"none", "open"} : AddTx("pending", charge)
    /\ FaultyJump(p, "outage", "release")
    /\ UNCHANGED <<inv, owned, settled, crossed>>

(* A direct charge whose answer is lost may be on its way: the invoice is  *)
(* not released, nor after an error before its transaction was written if  *)
(* there is one of an earlier attempt.                                     *)
RouteLost(p) ==
    /\ pc[p] = "route"
    /\ \/ \E charge \in {"none", "open"} : AddTx("pending", charge)
       \/ txs # <<>> /\ UNCHANGED txs
    /\ FaultyReturn(p, "outage")
    /\ UNCHANGED <<inv, owned, settled, crossed>>

Release(p) ==
    /\ pc[p] = "release"
    /\ inv' = IF inv.status = "paying" THEN [inv EXCEPT !.status = "completed"] ELSE inv
    /\ Return(p)
    /\ UNCHANGED <<txs, owned, settled, crossed>>

(* The final save.  The document was read as "completed", before the       *)
(* claim, so that the status counts as changed.                            *)
SavePay(p) ==
    /\ pc[p] = "savePay"
    /\ inv' = [inv EXCEPT !.status = "paying", !.tx = stack[p].tx]
    /\ crossed' = (crossed \/ inv # Seen(p))
    /\ Return(p)
    /\ UNCHANGED <<txs, owned, settled>>

----
(* What becomes of a payment.                                              *)

Charge(n) ==
    /\ txs[n].charge = "open"
    /\ \E c \in {"paid", "refused"} : txs' = [txs EXCEPT ![n].charge = c]
    /\ UNCHANGED <<reqVars, inv, owned, settled, crossed>>

(* Payin gives the transaction up: the charge was refused, or its window   *)
(* is over.                                                                *)
CloseTx(n) ==
    /\ txs[n].status = "pending" /\ txs[n].charge # "paid"
    /\ txs' = [txs EXCEPT ![n].status = "closed"]
    /\ UNCHANGED <<reqVars, inv, owned, settled, crossed>>

(* processSuccessfulPayin claims the transaction and calls                 *)
(* handlePaymentSuccess.                                                   *)
StartSuccess(p, n) ==
    /\ txs[n].charge = "paid" /\ txs[n].status # "success"
    /\ txs' = [txs EXCEPT ![n].status = "success"]
    /\ Begin(p, "success", [InvFrame EXCEPT !.tx = n])
    /\ UNCHANGED <<inv, owned, settled, crossed>>

(* getPublic looks for a transaction that succeeded: the last one.         *)
Succeeded == {n \in DOMAIN txs : txs[n].status = "success"}

StartRepair(p) ==
    /\ inv.status \in {"completed", "paying"} /\ Succeeded # {}
    /\ Begin(p, "success", [InvFrame EXCEPT !.tx = Max(Succeeded)])
    /\ UNCHANGED invoiceOnly

(* handlePaymentSuccess reads the invoice; a paid one is left alone.       *)
ReadForSuccess(p) ==
    /\ pc[p] = "success"
    /\ IF inv.payed THEN Return(p)
       ELSE JumpWith(p, "saveSuccess", [stack[p] EXCEPT !.seen = inv])
    /\ UNCHANGED invoiceOnly

\* Mutant: the flag alone is set.
SaveFlag(p) ==
    /\ pc[p] = "saveSuccess"
    /\ SaveInvoice(p, [Seen(p) EXCEPT !.payed = TRUE, !.tx = stack[p].tx])
    /\ Return(p)
    /\ UNCHANGED <<txs, owned>>

SaveSuccess(p) ==
    /\ pc[p] = "saveSuccess"
    /\ SaveInvoice(p, [Seen(p) EXCEPT !.status = "payed", !.payed = TRUE,
                                      !.tx = stack[p].tx])
    /\ Return(p)
    /\ UNCHANGED <<txs, owned>>

(* syncPayingInvoices reads the invoices under payment, and then the last  *)
(* transaction of each.                                                    *)
StartSync(p) ==
    /\ inv.status = "paying" /\ ~inv.payed
    /\ Begin(p, "sync", InvFrame)
    /\ UNCHANGED invoiceOnly

\* Mutant: a transaction that has no end yet is given up as well.
SyncImpatiently(p) ==
    /\ pc[p] = "sync"
    /\ LET n == Len(txs)
       IN  IF n = 0 THEN Return(p)
           ELSE JumpWith(p, IF txs[n].status = "success" THEN "success" ELSE "reopen",
                         [stack[p] EXCEPT !.tx = n])
    /\ UNCHANGED invoiceOnly

Sync(p) ==
    /\ pc[p] = "sync"
    /\ LET n == Len(txs)
       IN  IF n = 0 \/ (n > 0 /\ txs[n].status = "pending") THEN Return(p)
           ELSE JumpWith(p, IF txs[n].status = "success" THEN "success" ELSE "reopen",
                         [stack[p] EXCEPT !.tx = n])
    /\ UNCHANGED invoiceOnly

Requesting == {q \in Procs : pc[q] \in {"route", "release"}}

(* The payment failed: payable again, whatever the invoice is by now.  The *)
(* transaction looked at may be one of before: a payer whose request runs  *)
(* for more than a minute has claimed the invoice and has none yet.        *)
Reopen(p) ==
    /\ pc[p] = "reopen"
    /\ inv' = [inv EXCEPT !.status = "completed", !.payed = FALSE, !.tx = 0]
    /\ crossed' = (crossed \/ inv # Seen(p) \/ stack[p].tx # Len(txs) \/ Requesting # {})
    /\ Return(p)
    /\ UNCHANGED <<txs, owned, settled>>

----
(* The owner.                                                              *)

InvTransitions(from) ==
    CASE from = "draft"     -> {"completed", "archived"}
      [] from = "completed" -> {"draft", "archived"}
      [] from = "payed"     -> {"archived"}
      [] from = "archived"  -> {"draft", "completed"}
      [] OTHER              -> {}

OwnerAsks(p, label) ==
    /\ owned < MaxOwner /\ owned' = owned + 1
    /\ ~inv.payed
    /\ Begin(p, label, InvFrame)
    /\ UNCHANGED <<inv, txs, settled, crossed>>

StartUpdate(p) == OwnerAsks(p, "update")

(* update and archive of another status.  A change of the items alone      *)
(* leaves the status as it is.                                             *)
UpdateInvoice(p) ==
    /\ pc[p] = "update"
    /\ \E to \in InvTransitions(Seen(p).status) :
        SaveInvoice(p, [Seen(p) EXCEPT !.status = to])
    /\ Return(p)
    /\ UNCHANGED <<txs, owned>>

StartMark(p) == inv.status # "archived" /\ OwnerAsks(p, "mark")

(* markAsPaid: paid in cash.                                               *)
MarkAsPaid(p) ==
    /\ pc[p] = "mark"
    /\ SaveInvoice(p, [Seen(p) EXCEPT !.status = "payed", !.payed = TRUE])
    /\ Return(p)
    /\ UNCHANGED <<txs, owned>>

InvoiceCrash(p) ==
    /\ pc[p] # "idle"
    /\ FaultyReturn(p, "crash")
    /\ UNCHANGED invoiceOnly

InvoiceNext ==
    \/ \E n \in DOMAIN txs : Charge(n) \/ CloseTx(n)
    \/ \E p \in Procs :
        \/ \E n \in DOMAIN txs : StartSuccess(p, n)
        \/ StartPay(p) \/ ClaimInvoice(p) \/ RouteOk(p) \/ RouteRefused(p) \/ RouteLost(p)
        \/ Release(p) \/ SavePay(p) \/ StartRepair(p) \/ ReadForSuccess(p) \/ SaveSuccess(p)
        \/ StartSync(p) \/ Sync(p) \/ Reopen(p) \/ StartUpdate(p) \/ UpdateInvoice(p)
        \/ StartMark(p) \/ MarkAsPaid(p) \/ InvoiceCrash(p)

InvoiceSpec == InvoiceInit /\ [][InvoiceNext]_invoiceVars

----
UnderWayTxs == {n \in DOMAIN txs : txs[n].status = "pending" /\ txs[n].charge = "open"}

(* Nobody is asked for the money of one invoice twice at a time: of two    *)
(* payers one loses the claim, and an attempt that may still take the      *)
(* money keeps the invoice (invoice.service.ts 575-597, 661-681), unless a *)
(* save crosses another or the cron reopens it on a payer's request.       *)
OneChargeAtATime == crossed \/ Cardinality(UnderWayTxs) <= 1

(* An invoice that was paid stays paid and is shown as paid, whatever      *)
(* crons, visits, payers and its owner do at the same time, unless one of  *)
(* them saves over what the others did.                                    *)
PayedIsKept == settled /\ ~crossed => inv.payed /\ inv.status = "payed"
====
