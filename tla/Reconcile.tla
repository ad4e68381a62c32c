---- MODULE Reconcile ----
(***************************************************************************)
(* TransactionService.reconcileUserBalance (transaction.service.ts 2139-   *)
(* 2400): an administrator compares the transactions of a user with what   *)
(* the provider says of them, corrects their status and posts the net      *)
(* difference to the wallet.  A late notice of a payin may be processed    *)
(* before, between and after such runs.                                    *)
(***************************************************************************)
EXTENDS Requests, FiniteSetsExt

CONSTANTS
    Txs,        \* transactions of the user
    Outgoing,   \* those of them that are payouts; the others are API payins
    MaxRuns,    \* bound: how many times reconciliation is started
    Savings     \* the wallet at the beginning

ASSUME ReconcileAssumption ==
    /\ Outgoing \subseteq Txs /\ MaxRuns \in Nat /\ Savings \in Nat
    /\ \A t \in Txs : Amount(t) \in Nat \ {0}

VARIABLES
    local,      \* status of each transaction here
    remote,     \* its status at the provider
    savings,    \* the wallet
    adjusted,   \* history: what reconciliation posted for each transaction
    noticed,    \* payins credited under their own key payin-credit:<tx>
    late,       \* history: those noticed after a run had read or credited them
    runs,       \* history: runs started
    overlapped  \* history: two runs were at work at once

reconcileOnly == <<local, remote, savings, adjusted, noticed, late, runs, overlapped>>
reconcileVars == <<reqVars, reconcileOnly>>

PayinEnds == {"PAYINSUCCESS", "PAYINERROR", "PAYINCLOSED"}
PayoutEnds == {"PAYOUTSUCCESS", "PAYOUTERROR", "PAYOUTCLOSED", "PAYOUTREJECTED"}
RemoteStatuses == {"pending", "successful", "failed"}
Step == [Txs -> Int]

ReconcileTypeOK ==
    /\ local \in [Txs -> PayinEnds \cup PayoutEnds]
    /\ remote \in [Txs -> RemoteStatuses]
    /\ savings \in Int /\ adjusted \in Step
    /\ noticed \subseteq Txs \ Outgoing /\ late \subseteq noticed
    /\ runs \in 0..MaxRuns /\ overlapped \in BOOLEAN
    /\ pc \in [Procs -> {"idle", "check", "post"}]

(* PAYINPENDING and INITIALIZED are not in the list.                       *)
ReconcileInit ==
    /\ RequestsInit
    /\ local \in [Txs -> PayinEnds \cup PayoutEnds]
    /\ \A t \in Txs : local[t] \in PayoutEnds <=> t \in Outgoing
    /\ remote \in [Txs -> RemoteStatuses]
    /\ savings = Savings
    /\ adjusted = [t \in Txs |-> 0]
    /\ noticed = {t \in Txs \ Outgoing : local[t] = "PAYINSUCCESS"}
    /\ late = {} /\ runs = 0 /\ overlapped = FALSE

\* Mutant: PAYINSUCCESS is not reached from a failure.
FromPendingOnly(target) ==
    CASE target = "PAYINSUCCESS"  -> {"PAYINPENDING"}
      [] target = "PAYINERROR"    -> {"PAYINPENDING"}
      [] target = "PAYOUTSUCCESS" -> {"PAYOUTPENDING"}
      [] target = "PAYOUTERROR"   -> {"PAYOUTPENDING"}

(* TRANSACTION_STATUS_FROM, for the targets of reconciliation.             *)
ReconcileFrom(target) ==
    CASE target = "PAYINSUCCESS"  -> {"PAYINPENDING", "PAYINERROR", "PAYINCLOSED"}
      [] target = "PAYINERROR"    -> {"PAYINPENDING"}
      [] target = "PAYOUTSUCCESS" -> {"PAYOUTPENDING"}
      [] target = "PAYOUTERROR"   -> {"PAYOUTPENDING"}

(* updateTransactionStatus does nothing when the table does not allow the  *)
(* change, and does not say so.                                            *)
Correct(t, target) ==
    local' = IF local[t] \in ReconcileFrom(target)
             THEN [local EXCEPT ![t] = target] ELSE local

(* A run reads the transactions once; it works on these statuses.          *)
StartRun(p) ==
    /\ runs < MaxRuns
    /\ runs' = runs + 1
    /\ overlapped' = (overlapped \/ \E q \in Procs : pc[q] # "idle")
    /\ Begin(p, "check", [subject |-> "user", todo |-> Txs, seen |-> local,
                          step |-> [t \in Txs |-> 0]])
    /\ UNCHANGED <<local, remote, savings, adjusted, noticed, late>>

(* What is done for a transaction: the correction and the new status.      *)
Discrepancy(t, here, there) ==
    IF t \in Outgoing
    THEN CASE here = "PAYOUTSUCCESS" /\ there = "failed" ->
                    [amount |-> Amount(t), target |-> "PAYOUTERROR"]
           [] here # "PAYOUTSUCCESS" /\ there = "successful" ->
                    [amount |-> -Amount(t), target |-> "PAYOUTSUCCESS"]
           [] OTHER -> [amount |-> 0, target |-> here]
    ELSE CASE here # "PAYINSUCCESS" /\ there = "successful" ->
                    [amount |-> Amount(t), target |-> "PAYINSUCCESS"]
           [] here = "PAYINSUCCESS" /\ there # "successful" ->
                    [amount |-> -Amount(t), target |-> "PAYINERROR"]
           [] OTHER -> [amount |-> 0, target |-> here]

(* One transaction: ask the provider, then write the status.               *)
CheckTx(p) ==
    /\ pc[p] = "check" /\ stack[p].todo # {}
    /\ \E t \in stack[p].todo :
        LET d == Discrepancy(t, stack[p].seen[t], remote[t])
        IN  /\ JumpWith(p, "check", [stack[p] EXCEPT !.todo = @ \ {t},
                                                     !.step[t] = d.amount])
            /\ IF d.amount # 0 THEN Correct(t, d.target) ELSE UNCHANGED local
    /\ UNCHANGED <<remote, savings, adjusted, noticed, late, runs, overlapped>>

(* The provider does not answer: the transaction is passed over.           *)
SkipTx(p) ==
    /\ pc[p] = "check" /\ stack[p].todo # {}
    /\ Faulty("outage")
    /\ \E t \in stack[p].todo :
        stack' = [stack EXCEPT ![p].todo = @ \ {t}]
    /\ UNCHANGED <<pc, reconcileOnly>>

Net(step) == MapThenSumSet(LAMBDA t : step[t], Txs)

(* The net is posted at the end; a debit that is not covered throws.       *)
PostNet(p) ==
    /\ pc[p] = "check" /\ stack[p].todo = {}
    /\ LET net == Net(stack[p].step)
       IN  IF savings + net >= 0
           THEN /\ savings' = savings + net
                /\ adjusted' = [t \in Txs |-> adjusted[t] + stack[p].step[t]]
           ELSE UNCHANGED <<savings, adjusted>>
    /\ Return(p)
    /\ UNCHANGED <<local, remote, noticed, late, runs, overlapped>>

(* A run has read the payin as unsuccessful, or has credited it.           *)
Read(t) ==
    \/ adjusted[t] > 0
    \/ \E p \in Procs : pc[p] # "idle" /\ stack[p].seen[t] # "PAYINSUCCESS"

(* processSuccessfulPayin of a late notice, of a payin that openPayin has  *)
(* reopened: its credit is made whenever the payin's own key is not on the *)
(* ledger, claimed or not.                                                 *)
Notice(t) ==
    /\ t \in Txs \ Outgoing /\ t \notin noticed /\ remote[t] = "successful"
    /\ local' = [local EXCEPT ![t] = "PAYINSUCCESS"]
    /\ savings' = savings + Amount(t)
    /\ noticed' = noticed \cup {t}
    /\ late' = IF Read(t) THEN late \cup {t} ELSE late
    /\ UNCHANGED <<reqVars, remote, adjusted, runs, overlapped>>

(* The provider brings a pending transaction to an end.                    *)
Decided(t) ==
    /\ remote[t] = "pending"
    /\ \E s \in {"successful", "failed"} : remote' = [remote EXCEPT ![t] = s]
    /\ UNCHANGED <<reqVars, local, savings, adjusted, noticed, late, runs, overlapped>>

RunStops(p) ==
    /\ pc[p] # "idle"
    /\ FaultyReturn(p, "crash")
    /\ UNCHANGED reconcileOnly

ReconcileNext ==
    \/ \E t \in Txs : Notice(t) \/ Decided(t)
    \/ \E p \in Procs : StartRun(p) \/ CheckTx(p) \/ SkipTx(p) \/ PostNet(p) \/ RunStops(p)

ReconcileSpec == ReconcileInit /\ [][ReconcileNext]_reconcileVars

----
(* What the wallet got for a payin, from reconciliation and under the      *)
(* payin's own key.                                                        *)
Credited(t) == adjusted[t] + (IF t \in noticed THEN Amount(t) ELSE 0)

(* A payin that was found successful after all is credited once, however   *)
(* often the user is reconciled, unless two runs overlap; a notice that    *)
(* comes when a run has read the payin credits it once more, because the   *)
(* run posts under a key of its own (lines 2371-2385), and never twice.    *)
FoundPayinCreditedOnce ==
    \A t \in Txs \ Outgoing :
        ~overlapped => Credited(t) <= (IF t \in late THEN 2 ELSE 1) * Amount(t)

(* What processSuccessfulPayin says of its credit (flutterwave.service.ts  *)
(* 2115-2119): "le crédit est appliqué une seule fois", the credit is made *)
(* once only.                                                              *)
CreditAppliedOnce ==
    \A t \in Txs \ Outgoing : ~overlapped => Credited(t) <= Amount(t)

(* What the log line of a correction says, "DEBIT <amount> (update status  *)
(* -> PAYINERROR)": the discrepancy is settled, so that no later run posts *)
(* it again.                                                               *)
AdjustedOnce ==
    \A t \in Txs : ~overlapped => adjusted[t] \in {-Amount(t), 0, Amount(t)}
====
