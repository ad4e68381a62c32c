---- MODULE MCBackOffice ----
(***************************************************************************)
(* The back office: the components in which money changes hands.  Their    *)
(* handlers share the steps of Requests, but they touch different          *)
(* documents, so a behaviour exercises one of them, its part, and the      *)
(* others keep their initial state.                                        *)
(***************************************************************************)
EXTENDS SystemBalance, Spending, Reconcile, Invoice, Fulfilment, Money, DevKeys,
        TLC

CONSTANT Parts  \* the parts that the run exercises

ASSUME PartsAssumption ==
    Parts \subseteq {"system balance", "spending", "reconcile", "invoice", "fulfilment", "money",
              "developer keys"}

VARIABLE part

officeVars ==
    <<reqVars, sysVars, spendVars, reconcileOnly, invoiceOnly, fulfilOnly, moneyOnly, cacheOnly,
      keyOnly, part>>

(* Reconcile and Money have several initial states; when they are not the  *)
(* part, one.                                                              *)
Resting ==
    /\ part # "reconcile" => \A t \in Txs : /\ local[t] \in {"PAYINERROR", "PAYOUTERROR"}
                                            /\ remote[t] = "failed"
    /\ part # "money" => invoiceTaxes = 0 /\ providerCommission = 0

OfficeInit ==
    /\ part \in Parts
    /\ SystemInit /\ SpendingInit /\ ReconcileInit /\ InvoiceInit /\ FulfilmentInit /\ MoneyInit
    /\ DevKeysInit
    /\ Resting

(* A behaviour has one fault, of any kind.                                 *)
OneFault == \A j, k \in Faults : j # k => faults[j] = 0 \/ faults[k] = 0

(* The last payment of an invoice is begun, and goes on, only as long as   *)
(* neither its owner nor a fault steps in.                                 *)
LastTxAlone ==
    part = "invoice" /\ Len(txs) = MaxTxs => owned = 0 /\ \A k \in Faults : faults[k] = 0

OfficeNext ==
    /\ UNCHANGED part
    /\ \/ /\ part = "system balance" /\ SystemNext
          /\ UNCHANGED <<spendVars, reconcileOnly, invoiceOnly, fulfilOnly, moneyOnly,
                         cacheOnly, keyOnly>>
       \/ /\ part = "spending" /\ SpendingNext
          /\ UNCHANGED <<sysVars, reconcileOnly, invoiceOnly, fulfilOnly, moneyOnly,
                         cacheOnly, keyOnly>>
       \/ /\ part = "reconcile" /\ ReconcileNext
          /\ UNCHANGED <<sysVars, spendVars, invoiceOnly, fulfilOnly, moneyOnly,
                         cacheOnly, keyOnly>>
       \/ /\ part = "invoice" /\ InvoiceNext
          /\ UNCHANGED <<sysVars, spendVars, reconcileOnly, fulfilOnly, moneyOnly,
                         cacheOnly, keyOnly>>
       \/ /\ part = "fulfilment" /\ FulfilmentNext
          /\ UNCHANGED <<sysVars, spendVars, reconcileOnly, invoiceOnly, moneyOnly,
                         cacheOnly, keyOnly>>
       \/ /\ part = "money" /\ MoneyNext
          /\ UNCHANGED <<sysVars, spendVars, reconcileOnly, invoiceOnly, fulfilOnly,
                         cacheOnly, keyOnly>>
       \/ /\ part = "developer keys" /\ DevKeysNext
          /\ UNCHANGED <<sysVars, spendVars, reconcileOnly, invoiceOnly, fulfilOnly, moneyOnly>>
    /\ OneFault' /\ LastTxAlone'

OfficeSpec == OfficeInit /\ [][OfficeNext]_officeVars

----
(* The values of the run.                                                  *)
OfficeAmount(x) == IF x \in {"w1", "t", "in"} THEN 2 ELSE 1

OfficeKind(a) ==
    CASE a = "t" -> "transfer" [] a = "w" -> "withdrawal" [] a = "i" -> "payin"
      [] OTHER -> "payout"

OfficeKey(a) == IF a \in {"o1", "o2", "i"} THEN "k" ELSE "none"

OfficeLowest == [deposit |-> 0, withdrawal |-> 1]
OfficeHighest == [deposit |-> 3, withdrawal |-> 3]

OfficeMethods ==
    [mobile |-> [statusPayin |-> TRUE, statusPayout |-> TRUE, taxesPayment |-> 3, taxesTransfer |-> 0],
     card |-> [statusPayin |-> TRUE, statusPayout |-> FALSE, taxesPayment |-> 5, taxesTransfer |-> 7]]

(* Handlers are interchangeable.                                           *)
OfficeSymmetry == Permutations(Procs)
====
