---- MODULE Money ----
(***************************************************************************)
(* The money of one order: what its fees are computed from, what is taken  *)
(* from the payer, and what becomes of it                                  *)
(* (transaction.service.ts 1040-1165 and 1525-1872, flutterwave.service.ts *)
(* 1717-1825 and 2120-2247, payment-method.service.ts 201-310,             *)
(* commission-resolver.service.ts).  Amounts are whole units of one        *)
(* currency; rates are percentages, and an administrator may change them   *)
(* while the order is under way.                                           *)
(***************************************************************************)
EXTENDS Requests

CONSTANTS
    Prices,         \* estimations
    Rates,          \* values of invoiceTaxes and of providerCommission
    Methods,        \* payment methods: a function from codes to MethodDocs
    MaxRateChanges  \* bound: changes of the rates

MethodDocs == [statusPayin : BOOLEAN, statusPayout : BOOLEAN,
               taxesPayment : Nat, taxesTransfer : Nat]

ASSUME MoneyAssumption ==
    /\ Prices \subseteq Nat \ {0} /\ Rates \subseteq 0..100 /\ MaxRateChanges \in Nat
    /\ \A c \in DOMAIN Methods : Methods[c] \in MethodDocs

VARIABLES
    invoiceTaxes,       \* the system's rate
    providerCommission, \* the gateway's rate
    order,              \* the transaction, or NoOrder
    stage,              \* what is being done with it
    flows,              \* history: what has been moved so far
    rateChanges         \* history

moneyOnly == <<invoiceTaxes, providerCommission, order, stage, flows, rateChanges>>
moneyVars == <<reqVars, moneyOnly>>

NoCode == "none"
NoRate == -1
Refused == -2
Payers == {"customer", "organization"}
Sales == {"sale"}   \* service, subscription, donation, request, invoice, API
OrderTypes == Sales \cup {"transfer", "balanceTransfer", "withdrawal", "recharge"}

Stages == {"none", "record", "payin", "paid", "payout", "sent", "refunded", "done"}
NoOrder == [type |-> "sale", price |-> 0, total |-> 0, override |-> NoRate,
            gateway |-> FALSE, payer |-> "customer"]
NoFlows == [taken |-> 0, collected |-> 0, credited |-> 0, shared |-> 0, sent |-> 0,
            returned |-> 0]

MoneyTypeOK ==
    /\ {invoiceTaxes, providerCommission} \subseteq Rates
    /\ order \in [type : OrderTypes, price : Nat, total : Nat, override : Int,
                  gateway : BOOLEAN, payer : Payers]
    /\ stage \in Stages
    /\ DOMAIN flows = DOMAIN NoFlows /\ \A f \in DOMAIN flows : flows[f] \in Int
    /\ rateChanges \in 0..MaxRateChanges

MoneyInit ==
    /\ RequestsInit
    /\ invoiceTaxes \in Rates /\ providerCommission \in Rates
    /\ order = NoOrder /\ stage = "none" /\ flows = NoFlows /\ rateChanges = 0

----
(* arrondOnExeed of a percentage: rounded up.                              *)
ArrondOnExeed(amount, rate) == (amount * rate + 99) \div 100

IsTransfer(type) == type \in {"transfer", "balanceTransfer"}

(* resolveTaxOverride.  A transfer is charged at the rate of the method its *)
(* payer pays with, or else of the one its receiver is paid by; anything    *)
(* else at the rate of the one method.  The currencies and the bounds of    *)
(* the methods agree.                                                       *)
ResolveTaxOverride(type, payerCode, legacyCode) ==
    LET ofPayer == IsTransfer(type) /\ payerCode # NoCode
        code == IF ofPayer THEN payerCode ELSE legacyCode
        known == code \in DOMAIN Methods
        open == IF IsTransfer(type) /\ ~ofPayer THEN Methods[code].statusPayout
                ELSE Methods[code].statusPayin
        cannotReceive == ofPayer /\ legacyCode \in DOMAIN Methods
                         /\ ~Methods[legacyCode].statusPayout
    IN  CASE code = NoCode           -> NoRate
          [] code # NoCode /\ ~known /\ ofPayer  -> Refused
          [] code # NoCode /\ ~known /\ ~ofPayer -> NoRate
          [] known /\ (cannotReceive \/ ~open)   -> Refused
          [] OTHER -> IF IsTransfer(type) THEN Methods[code].taxesTransfer
                      ELSE Methods[code].taxesPayment

(* Who pays the fees: the customer of a transfer, whoever was named, and   *)
(* else what the profile of the payer says (getCommissionPayer).           *)
CommissionPayer(type, named, profile) ==
    IF type # "sale" THEN "customer"
    ELSE IF named \in Payers THEN named ELSE profile

(* calculatePaymentAmount: the customer's amount.                          *)
PaymentAmount(price, gatewayCommission, payer, rate) ==
    LET base == price + ArrondOnExeed(price, rate)
    IN  IF payer = "customer" THEN base + ArrondOnExeed(base, gatewayCommission) ELSE price

NoFees(type) == type \in {"withdrawal", "recharge"}

(* What createTransaction stores as paymentWithTaxes, at the rates of the  *)
(* moment.                                                                 *)
StoredTotal(o) ==
    IF NoFees(o.type) THEN o.price
    ELSE PaymentAmount(o.price, IF o.gateway THEN providerCommission ELSE 0, o.payer,
                       IF o.override = NoRate THEN invoiceTaxes ELSE o.override)

Requested(type) ==
    {[type |-> type, price |-> price, total |-> 0, gateway |-> gateway,
      override |-> ResolveTaxOverride(type, payerCode, legacyCode),
      payer |-> CommissionPayer(type, named, profile)] :
        price \in Prices, gateway \in BOOLEAN, named \in Payers \cup {NoCode},
        profile \in Payers, payerCode \in DOMAIN Methods \cup {NoCode},
        legacyCode \in DOMAIN Methods \cup {NoCode, "unknown"}}

Store(o) == order' = [o EXCEPT !.total = StoredTotal(o)]

Move(amounts) == flows' = [f \in DOMAIN flows |-> IF f \in DOMAIN amounts
                                                  THEN flows[f] + amounts[f] ELSE flows[f]]

RatesStay == UNCHANGED <<invoiceTaxes, providerCommission, rateChanges>>

----
(* createPayin, of a sale, a transfer or a recharge of the system.         *)
CreateOrder ==
    /\ stage = "none"
    /\ \E o \in Requested("sale") \cup Requested("transfer") \cup Requested("recharge") :
        o.override # Refused /\ Store(o)
    /\ stage' = "payin"
    /\ RatesStay
    /\ UNCHANGED <<reqVars, flows>>

(* A withdrawal takes the price from the wallet.                           *)
Withdraw ==
    /\ stage = "none"
    /\ \E o \in Requested("withdrawal") :
        /\ o.override = NoRate /\ Store(o)
        /\ Move([taken |-> o.price])
    /\ stage' = "payout"
    /\ RatesStay
    /\ UNCHANGED reqVars

(* createTransferFromBalance computes the fees by itself                   *)
(* (calculateTaxesAmount), debits the wallet, and lets createTransaction   *)
(* compute them again.  A rate of 0 counts as none.  The request names its *)
(* transactionType, "transfer", as the web client does.                    *)
DebitedTotal(o) ==
    o.price + ArrondOnExeed(o.price, IF o.override \in {NoRate, 0} THEN invoiceTaxes
                                     ELSE o.override)

DebitTransfer(p) ==
    /\ stage = "none"
    /\ \E o \in Requested("balanceTransfer") :
        /\ o.override # Refused
        /\ order' = o
        /\ Move([taken |-> DebitedTotal(o)])
    /\ stage' = "record"
    /\ Begin(p, "record", NoStack)
    /\ RatesStay

RecordTransfer(p) ==
    /\ pc[p] = "record"
    /\ Store(order)
    /\ stage' = "payout"
    /\ Return(p)
    /\ RatesStay
    /\ UNCHANGED flows

(* It is not stored: the debit is rolled back.                             *)
RollBackTransfer(p) ==
    /\ pc[p] = "record"
    /\ Faulty("write")
    /\ pc' = [pc EXCEPT ![p] = "idle"] /\ UNCHANGED stack
    /\ stage' = "done"
    /\ Move([returned |-> flows.taken])
    /\ RatesStay
    /\ UNCHANGED order

(* The payer is charged what was stored.                                   *)
CollectTotal ==
    /\ stage = "payin"
    /\ stage' = "paid"
    /\ Move([collected |-> order.total])
    /\ RatesStay
    /\ UNCHANGED <<reqVars, order>>

\* Mutant: the receiver gets what the customer paid.
SettleOrderGross ==
    /\ stage = "paid"
    /\ IF IsTransfer(order.type)
       THEN stage' = "payout" /\ UNCHANGED flows
       ELSE /\ stage' = "done"
            /\ Move([credited |-> order.total,
                     shared |-> IF order.total > order.price THEN order.total - order.price ELSE 0])
    /\ RatesStay
    /\ UNCHANGED <<reqVars, order>>

(* processSuccessfulPayin: the receiver gets the estimation, whoever pays  *)
(* the fees, and the system what the customer paid beyond it.  A recharge  *)
(* goes to the system, less the commission at the gateway's rate of now.   *)
SettleOrder ==
    /\ stage = "paid"
    /\ IF IsTransfer(order.type)
       THEN stage' = "payout" /\ UNCHANGED flows
       ELSE /\ stage' = "done"
            /\ IF order.type = "recharge"
               THEN Move([shared |-> order.price - (IF order.gateway
                                        THEN ArrondOnExeed(order.price, providerCommission)
                                        ELSE 0)])
               ELSE Move([credited |-> order.price,
                          shared |-> IF order.total > order.price
                                     THEN order.total - order.price ELSE 0])
    /\ RatesStay
    /\ UNCHANGED <<reqVars, order>>

(* The payout of the price (sender and receiver have one currency), or its *)
(* failure or rejection and the refund:                                    *)
(* what a transfer stored as its total, the price of anything else.        *)
PayTheReceiver ==
    /\ stage = "payout" /\ stage' = "sent"
    /\ Move([sent |-> order.price])
    /\ RatesStay
    /\ UNCHANGED <<reqVars, order>>

\* Mutant: the fees of a transfer are not given back.
RefundPrice == order.price

RefundAmount == IF IsTransfer(order.type) THEN order.total ELSE order.price

RefundPayout ==
    /\ stage = "payout" /\ stage' = "refunded"
    /\ Move([returned |-> RefundAmount])
    /\ RatesStay
    /\ UNCHANGED <<reqVars, order>>

(* reclaimPayoutFailureRefundForRetry takes the refund back.               *)
Reclaim ==
    /\ stage = "refunded" /\ stage' = "payout"
    /\ Move([returned |-> -RefundAmount])
    /\ RatesStay
    /\ UNCHANGED <<reqVars, order>>

(* An administrator changes a rate.                                        *)
ChangeRates ==
    /\ rateChanges < MaxRateChanges /\ rateChanges' = rateChanges + 1
    /\ invoiceTaxes' \in Rates /\ providerCommission' \in Rates
    /\ UNCHANGED <<reqVars, order, stage, flows>>

(* The instance stops between the debit and the transaction.               *)
MoneyCrash(p) ==
    /\ pc[p] = "record"
    /\ FaultyReturn(p, "crash")
    /\ stage' = "done"
    /\ RatesStay
    /\ UNCHANGED <<order, flows>>

MoneyNext ==
    \/ CreateOrder \/ Withdraw \/ CollectTotal \/ SettleOrder \/ PayTheReceiver \/ RefundPayout
    \/ Reclaim \/ ChangeRates
    \/ \E p \in Procs :
        DebitTransfer(p) \/ RecordTransfer(p) \/ RollBackTransfer(p) \/ MoneyCrash(p)

MoneySpec == MoneyInit /\ [][MoneyNext]_moneyVars

----
Received == flows.taken + flows.collected

(* What a customer paid for a sale is what its seller and the system got,  *)
(* to the last unit, whoever pays the fees and however they are rounded;   *)
(* and nothing is paid out or credited that was not received.              *)
CollectedAddsUp ==
    /\ order.type = "sale" /\ stage = "done" =>
        flows.collected = flows.credited + flows.shared
    /\ flows.credited + flows.sent <= Received

(* A payout that does not go through gives back exactly what was taken for *)
(* it, and a retry takes exactly that again.  A transfer from the balance  *)
(* needs fees that are computed twice in the same way for it: a rate of    *)
(* its method other than 0, or none and an unchanged rate of the system,   *)
(* and no commission of a gateway.                                         *)
RefundGivesBack ==
    (order.type = "balanceTransfer" =>
        /\ order.override # 0 /\ ~order.gateway
        /\ order.override = NoRate => rateChanges = 0) =>
    /\ stage = "refunded" => flows.returned = Received
    /\ stage \in {"payout", "sent"} => flows.returned = 0

(* docs/plans/per-method-taxes.md 72-74, of a transfer: the rate of its    *)
(* method is "utilisé pour le débit et la persistance, cohérents".         *)
DebitIsRecorded ==
    order.type = "balanceTransfer" /\ stage = "payout" /\ order.override # NoRate
        /\ ~order.gateway
        => order.total = flows.taken
====
