---- MODULE Fulfilment ----
(***************************************************************************)
(* What a payin is for: a payment request of a user, a donation to a       *)
(* fundraising, or the sale of a service.                                  *)
(*   flutterwave.service.ts      processSuccessfulPayin, its handlers,     *)
(*                               verifyAndClosePayin                       *)
(*   payment-request.service.ts, payment-request.cron.ts                   *)
(*   fundraising.service.ts, service-payment.service.ts                    *)
(*                                                                         *)
(* How the provider's answer reaches the payin is in Payin; the credit of  *)
(* the wallet, which comes before the handlers, in Payin and Wallet.       *)
(***************************************************************************)
EXTENDS Requests, Functions

CONSTANTS
    Asked,      \* transactions of payment requests
    Given,      \* transactions of donations
    Sold,       \* transactions of service sales
    MaxOrders   \* bound: how many orders are placed

Orders == Asked \cup Given \cup Sold

ASSUME FulfilmentAssumption ==
    /\ MaxOrders \in Nat
    /\ \A t \in Given : Amount(t) \in Nat \ {0}
    /\ Asked \cap Given = {} /\ Asked \cap Sold = {} /\ Given \cap Sold = {}

VARIABLES
    orderTx,    \* status of each transaction
    charged,    \* what the provider has of it
    request,    \* status of the payment requests
    campaign,   \* the fundraising: still taking donations?
    donations,  \* transactions with a donation
    collectedAmount,
    sales,      \* number of service payments of each sale
    crossing    \* history: payment requests two handlers have worked on at
                \* the same time

fulfilOnly == <<orderTx, charged, request, campaign, donations, collectedAmount, sales, crossing>>
fulfilmentVars == <<reqVars, fulfilOnly>>

OrderStatuses == {"none", "pending", "error", "closed", "success"}
RequestStatuses == {"none", "PENDING", "SUCCESS", "FAILED", "CANCELED"}
FulfilLabels == {"idle", "accept", "refuse", "fees", "request", "giveUp", "donate",
                 "insert", "collect", "find", "sell", "closeTx", "closeRequest",
                 "look", "write"}

FulfilmentTypeOK ==
    /\ orderTx \in [Orders -> OrderStatuses]
    /\ charged \in [Orders -> {"none", "open", "failed", "cancelled", "paid"}]
    /\ request \in [Asked -> RequestStatuses]
    /\ campaign \in BOOLEAN
    /\ donations \subseteq Given /\ collectedAmount \in Nat
    /\ sales \in [Sold -> Nat]
    /\ crossing \subseteq Asked
    /\ pc \in [Procs -> FulfilLabels]

FulfilmentInit ==
    /\ RequestsInit
    /\ orderTx = [t \in Orders |-> "none"]
    /\ charged = [t \in Orders |-> "none"]
    /\ request = [t \in Asked |-> "none"]
    /\ campaign = TRUE
    /\ donations = {} /\ collectedAmount = 0
    /\ sales = [t \in Sold |-> 0]
    /\ crossing = {}

OrderOf(p) == stack[p].subject
Touching(p, t) == t \in {stack[p].subject} \cup stack[p].todo

(* A handler for the transactions in S begins.  Another one at work on the *)
(* same payment request is remembered.                                     *)
Handle(p, label, frame, S) ==
    /\ Begin(p, label, frame)
    /\ crossing' = crossing \cup
           {t \in S \cap Asked : \E q \in Procs : pc[q] # "idle" /\ Touching(q, t)}

ForOrder(t, to) == [subject |-> t, to |-> to, first |-> "tx", todo |-> {},
                    seen |-> [u \in Asked |-> "none"]]

SetTx(t, s) == orderTx' = [orderTx EXCEPT ![t] = s]
SetRequest(t, s) == request' = [request EXCEPT ![t] = s]

----
(* Orders come in.                                                         *)

PlaceOrder(t, c) ==
    /\ orderTx[t] = "none"
    /\ Cardinality({u \in Orders : orderTx[u] # "none"}) < MaxOrders
    /\ SetTx(t, "pending")
    /\ charged' = [charged EXCEPT ![t] = c]
    /\ UNCHANGED <<request, campaign, donations, collectedAmount, sales>>

ChargeAnswers == {"open", "failed", "cancelled"}

(* createCurrentUserPaymentRequest: the transaction and its charge, which  *)
(* may be refused on the spot.                                             *)
RequestPayment(p, t) ==
    \E c \in ChargeAnswers :
        /\ PlaceOrder(t, c)
        /\ Handle(p, IF c = "open" THEN "accept" ELSE "refuse", ForOrder(t, c), {t})

(* buildDonationTransactionData: a donation needs a fundraising that is    *)
(* active, public and not over.                                            *)
Donate(t) ==
    /\ campaign
    /\ \E c \in ChargeAnswers : PlaceOrder(t, c)
    /\ UNCHANGED <<reqVars, crossing>>

(* createServicePayment.                                                   *)
BuyService(t) ==
    /\ \E c \in ChargeAnswers : PlaceOrder(t, c)
    /\ UNCHANGED <<reqVars, crossing>>

(* The upsert of the payment request, whatever its status is by now.       *)
Accept(p) ==
    /\ pc[p] = "accept"
    /\ SetRequest(OrderOf(p), "PENDING")
    /\ Return(p)
    /\ UNCHANGED <<orderTx, charged, campaign, donations, collectedAmount, sales, crossing>>

EndStatus(c) == IF c = "cancelled" THEN "closed" ELSE "error"

(* A refused charge closes its transaction unless it has ended, and no     *)
(* payment request is made.                                                *)
Refuse(p) ==
    /\ pc[p] = "refuse"
    /\ orderTx' = [orderTx EXCEPT ![OrderOf(p)] = IF @ = "pending" THEN EndStatus(stack[p].to)
                                                                   ELSE @]
    /\ Return(p)
    /\ UNCHANGED <<charged, request, campaign, donations, collectedAmount, sales, crossing>>

(* The payer acts; a charge that was given up may be paid after all.       *)
PayerActs(t) ==
    /\ charged[t] \in {"open", "failed", "cancelled"}
    /\ \E c \in {"paid"} \cup (IF charged[t] = "open" THEN {"failed", "cancelled"} ELSE {}) :
        charged' = [charged EXCEPT ![t] = c]
    /\ UNCHANGED <<reqVars, orderTx, request, campaign, donations, collectedAmount, sales,
                   crossing>>

(* updateStatus, updateVisibility, and the end date.                       *)
EndCampaign ==
    /\ campaign' \in BOOLEAN \ {campaign}
    /\ UNCHANGED <<reqVars, orderTx, charged, request, donations, collectedAmount, sales,
                   crossing>>

----
(* processSuccessfulPayin.                                                 *)

\* Mutant: the handlers do not depend on the claim.
FulfilUnclaimed(p, t) ==
    /\ charged[t] = "paid"
    /\ SetTx(t, "success")
    /\ Handle(p, "fees", ForOrder(t, "paid"), {t})
    /\ UNCHANGED <<charged, request, campaign, donations, collectedAmount, sales>>

(* The claim, from every status but success, and what comes first: the     *)
(* credits.                                                                *)
StartFulfil(p, t) ==
    /\ charged[t] = "paid" /\ orderTx[t] \in {"pending", "error", "closed"}
    /\ SetTx(t, "success")
    /\ Handle(p, "fees", ForOrder(t, "paid"), {t})
    /\ UNCHANGED <<charged, request, campaign, donations, collectedAmount, sales>>

(* The credit of the fees to the platform is outside of any try: when it   *)
(* throws, the handlers do not run.                                        *)
CreditFees(p) ==
    /\ pc[p] = "fees"
    /\ Jump(p, CASE OrderOf(p) \in Asked -> "request"
                 [] OrderOf(p) \in Given -> "donate"
                 [] OTHER                -> "find")
    /\ UNCHANGED fulfilOnly

FailToCreditFees(p) ==
    /\ pc[p] = "fees"
    /\ FaultyReturn(p, "write")
    /\ UNCHANGED fulfilOnly

\* Mutant: only a pending payment request is marked.
MarkPendingRequest(p) ==
    /\ pc[p] = "request"
    /\ request' = [request EXCEPT ![OrderOf(p)] =
                       IF @ \in {"none", "PENDING"} THEN "SUCCESS" ELSE @]
    /\ Return(p)
    /\ UNCHANGED <<orderTx, charged, campaign, donations, collectedAmount, sales, crossing>>

(* handlePaymentRequest: an upsert.                                        *)
MarkRequest(p) ==
    /\ pc[p] = "request"
    /\ SetRequest(OrderOf(p), "SUCCESS")
    /\ Return(p)
    /\ UNCHANGED <<orderTx, charged, campaign, donations, collectedAmount, sales, crossing>>

(* When the write throws, the payment request is marked as failed.         *)
FailToMarkRequest(p) ==
    /\ pc[p] = "request"
    /\ FaultyJump(p, "write", "giveUp")
    /\ UNCHANGED fulfilOnly

GiveUpRequest(p) ==
    /\ pc[p] = "giveUp"
    /\ request' = [request EXCEPT ![OrderOf(p)] = IF @ = "none" THEN @ ELSE "FAILED"]
    /\ Return(p)
    /\ UNCHANGED <<orderTx, charged, campaign, donations, collectedAmount, sales, crossing>>

(* handleSuccessfulDonation: is there one already?  One donation per       *)
(* transaction: the index refuses another.  Whether the fundraising still  *)
(* takes donations is not asked again.                                     *)
FindDonation(p) ==
    /\ pc[p] = "donate"
    /\ IF OrderOf(p) \in donations THEN Return(p) ELSE Jump(p, "insert")
    /\ UNCHANGED fulfilOnly

InsertDonation(p) ==
    /\ pc[p] = "insert"
    /\ IF OrderOf(p) \in donations THEN Return(p) ELSE Jump(p, "collect")
    /\ donations' = donations \cup {OrderOf(p)}
    /\ UNCHANGED <<orderTx, charged, request, campaign, collectedAmount, sales, crossing>>

CollectDonation(p) ==
    /\ pc[p] = "collect"
    /\ collectedAmount' = collectedAmount + Amount(OrderOf(p))
    /\ Return(p)
    /\ UNCHANGED <<orderTx, charged, request, campaign, donations, sales, crossing>>

(* handleService: the same, with no index.                                 *)
FindSale(p) ==
    /\ pc[p] = "find"
    /\ IF sales[OrderOf(p)] > 0 THEN Return(p) ELSE Jump(p, "sell")
    /\ UNCHANGED fulfilOnly

CreateSale(p) ==
    /\ pc[p] = "sell"
    /\ sales' = [sales EXCEPT ![OrderOf(p)] = @ + 1]
    /\ Return(p)
    /\ UNCHANGED <<orderTx, charged, request, campaign, donations, collectedAmount, crossing>>

(* A write throws; handleFundraising and handleService swallow it.         *)
FailToDeliver(p) ==
    /\ pc[p] \in {"insert", "collect", "sell"}
    /\ FaultyReturn(p, "write")
    /\ UNCHANGED fulfilOnly

----
(* Payins that came to nothing.                                            *)

(* verifyAndClosePayin writes the transaction first, verifyTransaction-    *)
(* PayinStatus the payment request.  Both work on the status they read.    *)
StartGivingUp(p, t, first) ==
    /\ charged[t] \in {"failed", "cancelled"} /\ orderTx[t] \notin {"none", "success"}
    /\ t \in Asked \/ first = "tx"
    /\ Handle(p, IF first = "tx" THEN "closeTx" ELSE "closeRequest",
              [ForOrder(t, charged[t]) EXCEPT !.first = first], {t})
    /\ UNCHANGED <<orderTx, charged, request, campaign, donations, collectedAmount, sales>>

(* updateTransactionStatus: from a pending status only.                    *)
CloseOrderTx(p) ==
    /\ pc[p] = "closeTx"
    /\ orderTx' = [orderTx EXCEPT ![OrderOf(p)] = IF @ = "pending" THEN EndStatus(stack[p].to)
                                                                   ELSE @]
    /\ IF OrderOf(p) \in Asked /\ stack[p].first = "tx" THEN Jump(p, "closeRequest") ELSE Return(p)
    /\ UNCHANGED <<charged, request, campaign, donations, collectedAmount, sales, crossing>>

(* updatePaymentRequestStatusByTransaction: from any status.               *)
CloseRequest(p) ==
    /\ pc[p] = "closeRequest"
    /\ request' = [request EXCEPT ![OrderOf(p)] =
                       CASE @ = "none" -> @
                         [] stack[p].to = "cancelled" -> "CANCELED"
                         [] OTHER -> "FAILED"]
    /\ IF stack[p].first = "tx" THEN Return(p) ELSE Jump(p, "closeTx")
    /\ UNCHANGED <<orderTx, charged, campaign, donations, collectedAmount, sales, crossing>>

(* A payin nobody paid within eight hours.                                 *)
ExpireOrder(t) ==
    /\ orderTx[t] = "pending" /\ charged[t] = "open"
    /\ SetTx(t, "closed")
    /\ UNCHANGED <<reqVars, charged, request, campaign, donations, collectedAmount, sales,
                   crossing>>

----
(* syncPendingPaymentRequests, by the cron of any instance: it reads the   *)
(* pending requests, then their transactions, then writes one by one.      *)

MappedStatus(s) ==
    CASE s = "success" -> "SUCCESS"
      [] s = "error"   -> "FAILED"
      [] s = "closed"  -> "CANCELED"
      [] OTHER         -> "PENDING"

PendingRequests == {t \in Asked : request[t] = "PENDING"}

StartRequestSync(p) ==
    /\ PendingRequests # {}
    /\ Handle(p, "look", [ForOrder("cron", "") EXCEPT !.todo = PendingRequests], PendingRequests)
    /\ UNCHANGED <<orderTx, charged, request, campaign, donations, collectedAmount, sales>>

LookAtTxs(p) ==
    /\ pc[p] = "look"
    /\ LET ended == {t \in stack[p].todo : MappedStatus(orderTx[t]) # "PENDING"}
       IN  IF ended = {} THEN Return(p)
           ELSE JumpWith(p, "write", [stack[p] EXCEPT !.todo = ended,
                                                      !.seen = [t \in Asked |-> orderTx[t]]])
    /\ UNCHANGED fulfilOnly

WriteSynced(p) ==
    /\ pc[p] = "write"
    /\ \E t \in stack[p].todo :
        /\ SetRequest(t, MappedStatus(stack[p].seen[t]))
        /\ IF stack[p].todo = {t} THEN Return(p)
           ELSE JumpWith(p, "write", [stack[p] EXCEPT !.todo = @ \ {t}])
    /\ UNCHANGED <<orderTx, charged, campaign, donations, collectedAmount, sales, crossing>>

FulfilmentCrash(p) ==
    /\ pc[p] # "idle"
    /\ FaultyReturn(p, "crash")
    /\ UNCHANGED fulfilOnly

FulfilmentNext ==
    \/ \E t \in Orders : PayerActs(t) \/ ExpireOrder(t)
    \/ EndCampaign
    \/ \E t \in Given : Donate(t)
    \/ \E t \in Sold : BuyService(t)
    \/ \E p \in Procs :
        \/ \E t \in Asked : RequestPayment(p, t)
        \/ \E t \in Orders :
            \/ StartFulfil(p, t)
            \/ \E first \in {"tx", "request"} : StartGivingUp(p, t, first)
        \/ Accept(p) \/ Refuse(p) \/ CreditFees(p) \/ FailToCreditFees(p) \/ MarkRequest(p)
        \/ FailToMarkRequest(p) \/ GiveUpRequest(p) \/ FindDonation(p) \/ InsertDonation(p)
        \/ CollectDonation(p) \/ FindSale(p) \/ CreateSale(p) \/ FailToDeliver(p)
        \/ CloseOrderTx(p) \/ CloseRequest(p)
        \/ StartRequestSync(p) \/ LookAtTxs(p) \/ WriteSynced(p) \/ FulfilmentCrash(p)

FulfilmentSpec == FulfilmentInit /\ [][FulfilmentNext]_fulfilmentVars

----
Worked(t) == \E p \in Procs : pc[p] # "idle" /\ Touching(p, t)

(* A payment request that is not pending tells whether it was paid: a      *)
(* payment that arrives after the request was given up is seen on it.  It  *)
(* may be wrong after two handlers worked on it at the same time, as only  *)
(* pending requests are looked at again                                    *)
(* (payment-request.service.ts 270-316, 440-494).                          *)
RequestFollowsTx ==
    Serene => \A t \in Asked \ crossing :
        request[t] \notin {"none", "PENDING"} /\ ~Worked(t) =>
            (request[t] = "SUCCESS" <=> orderTx[t] = "success")

(* What was paid for is delivered exactly once, however many notices,      *)
(* crons and clients report the payment at the same time; it is lost when  *)
(* an instance stops or a write fails after the claim                      *)
(* (flutterwave.service.ts 2245-2275).                                     *)
PaidIsDeliveredOnce ==
    LET Done(S) == {t \in S : orderTx[t] = "success" /\ ~Worked(t)}
        Collecting == \E p \in Procs : pc[p] = "collect"
    IN  /\ \A t \in Sold : sales[t] <= 1
        /\ Serene =>
            /\ \A t \in Done(Sold) : sales[t] = 1
            /\ Done(Given) \subseteq donations
            /\ Collecting \/ collectedAmount =
                    SumFunctionOnSet([t \in Given |-> Amount(t)], donations)
====
