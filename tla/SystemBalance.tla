---- MODULE SystemBalance ----
(***************************************************************************)
(* The platform's own balance in one currency: recharges that a payin pays *)
(* for, withdrawals that an administrator asks for, refunds of withdrawals *)
(* that fail, and credits and debits by hand.                              *)
(*   system-balance.service.ts   creditSystemBalance, debitSystemBalance,  *)
(*                               movements                                 *)
(*   flutterwave.service.ts      createSystemPayin, createSystemWithdrawal *)
(*   transaction.service.ts      refundSystemBalanceIfNeeded               *)
(*                                                                         *)
(* A posting first completes its movement, which has a unique key, and     *)
(* then changes the balance.  How a payin comes to succeed and how a       *)
(* withdrawal is paid are in Payin and Payout.                             *)
(***************************************************************************)
EXTENDS Requests

CONSTANTS
    Recharges, Withdrawals,     \* transactions
    HandCredits, HandDebits,    \* calls of the administrator's endpoints
    Opening                     \* the balance at the beginning

ASSUME SystemAmountAssumption ==
    \A x \in Recharges \cup Withdrawals \cup HandCredits \cup HandDebits :
        Amount(x) \in Nat \ {0}

ASSUME OpeningAssumption == Opening \in Nat

(* A transaction is a recharge or a withdrawal; crediting and debiting by  *)
(* hand are different endpoints.                                           *)
ASSUME SystemKindsAssumption ==
    Recharges \cap Withdrawals = {} /\ HandCredits \cap HandDebits = {}

VARIABLES
    systemBalance,
    movement,   \* status of the movement with each key
    posted,     \* history: changes of the balance made under each key
    unposted,   \* history: why the change under a key was not made
    sysTx,      \* status of the transactions
    refundMark, \* withdrawals with payoutFailureRefundedAt
    collected   \* recharges whose payin succeeded

sysVars == <<systemBalance, movement, posted, unposted, sysTx, refundMark, collected>>
systemVars == <<reqVars, sysVars>>

Key(what, x) == <<what, x>>

InKeys == {Key("payin", r) : r \in Recharges}
    \cup {Key("refund", w) : w \in Withdrawals}
    \cup {Key("admin", a) : a \in HandCredits}
OutKeys == {Key("withdraw", w) : w \in Withdrawals}
    \cup {Key("admin", a) : a \in HandDebits}
Keys == InKeys \cup OutKeys

MovementStatuses == {"none", "pending", "completed", "failed", "cancelled"}
SysTxStatuses == {"none", "pending", "success", "failed", "cancelled",
                  "waiting", "paying", "paid", "error", "rejected", "deleted"}
Posting == {"complete", "find", "insert", "inc"}
SysLabels == Posting \cup {"idle", "order", "claim", "close", "create", "mark",
                           "unmark", "delete"}
SysStacks == [subject : {"none"}] \cup [subject : Keys, to : {"failed", "cancelled"}]

SystemTypeOK ==
    /\ systemBalance \in Int
    /\ movement \in [Keys -> MovementStatuses]
    /\ posted \in [Keys -> Nat]
    /\ unposted \in [Keys -> {"no", "uncovered", "interrupted"}]
    /\ sysTx \in [Recharges \cup Withdrawals -> SysTxStatuses]
    /\ refundMark \subseteq Withdrawals
    /\ collected \subseteq Recharges
    /\ pc \in [Procs -> SysLabels]
    /\ stack \in [Procs -> SysStacks]
    /\ faults \in [Faults -> Nat]

SystemInit ==
    /\ RequestsInit
    /\ systemBalance = Opening
    /\ movement = [k \in Keys |-> "none"]
    /\ posted = [k \in Keys |-> 0]
    /\ unposted = [k \in Keys |-> "no"]
    /\ sysTx = [x \in Recharges \cup Withdrawals |-> "none"]
    /\ refundMark = {} /\ collected = {}

KeyOf(p) == stack[p].subject
TxOf(p) == KeyOf(p)[2]
About(k) == [subject |-> k, to |-> "failed"]

----
(* Postings: creditSystemBalance and debitSystemBalance.                   *)

\* Mutant: the movement of a recharge that failed first is completed, and
\* only a pending one is taken to need its posting.
CompleteForgetful(p) ==
    /\ pc[p] = "complete"
    /\ IF movement[KeyOf(p)] \in {"none", "completed"}
       THEN Jump(p, "find") /\ UNCHANGED movement
       ELSE /\ movement' = [movement EXCEPT ![KeyOf(p)] = "completed"]
            /\ Jump(p, IF movement[KeyOf(p)] = "pending" THEN "inc" ELSE "find")
    /\ UNCHANGED <<systemBalance, posted, unposted, sysTx, refundMark, collected>>

(* The movement is there and not completed: complete it, then post.        *)
Complete(p) ==
    /\ pc[p] = "complete"
    /\ IF movement[KeyOf(p)] \in {"none", "completed"}
       THEN Jump(p, "find") /\ UNCHANGED movement
       ELSE /\ movement' = [movement EXCEPT ![KeyOf(p)] = "completed"]
            /\ Jump(p, "inc")
    /\ UNCHANGED <<systemBalance, posted, unposted, sysTx, refundMark, collected>>

(* Completed by another call: nothing is left to do.                       *)
FindCompleted(p) ==
    /\ pc[p] = "find"
    /\ IF movement[KeyOf(p)] = "none" THEN Jump(p, "insert") ELSE Return(p)
    /\ UNCHANGED sysVars

\* Mutant: the key is not unique.
InsertAnyway(p) ==
    /\ pc[p] = "insert"
    /\ movement' = [movement EXCEPT ![KeyOf(p)] = "completed"]
    /\ Jump(p, "inc")
    /\ UNCHANGED <<systemBalance, posted, unposted, sysTx, refundMark, collected>>

(* The insert of a completed movement; the key is unique.                  *)
Insert(p) ==
    /\ pc[p] = "insert"
    /\ IF movement[KeyOf(p)] = "none"
       THEN /\ movement' = [movement EXCEPT ![KeyOf(p)] = "completed"]
            /\ Jump(p, "inc")
       ELSE Return(p) /\ UNCHANGED movement
    /\ UNCHANGED <<systemBalance, posted, unposted, sysTx, refundMark, collected>>

Miss(k, why) == unposted' = [unposted EXCEPT ![k] = why]

(* The change of the balance under key k.  A debit that is not covered     *)
(* finds no document and returns null: nothing is thrown.                  *)
PostTo(k) ==
    \/ /\ k \in InKeys
       /\ systemBalance' = systemBalance + Amount(k[2])
       /\ posted' = [posted EXCEPT ![k] = @ + 1]
       /\ UNCHANGED unposted
    \/ /\ k \in OutKeys /\ systemBalance >= Amount(k[2])
       /\ systemBalance' = systemBalance - Amount(k[2])
       /\ posted' = [posted EXCEPT ![k] = @ + 1]
       /\ UNCHANGED unposted
    \/ /\ k \in OutKeys /\ systemBalance < Amount(k[2])
       /\ Miss(k, "uncovered")
       /\ UNCHANGED <<systemBalance, posted>>

Inc(p) ==
    /\ pc[p] = "inc"
    /\ PostTo(KeyOf(p))
    /\ Return(p)
    /\ UNCHANGED <<movement, sysTx, refundMark, collected>>

(* A posting throws.  A withdrawal deletes its transaction, a refund takes *)
(* its mark back, the others give up.                                      *)
Throw(p) ==
    CASE KeyOf(p)[1] = "withdraw" -> FaultyJump(p, "write", "delete")
      [] KeyOf(p)[1] = "refund"   -> FaultyJump(p, "write", "unmark")
      [] OTHER                    -> FaultyReturn(p, "write")

(* Its movement is completed: nobody makes the change of the balance that  *)
(* p leaves out.                                                           *)
LeaveOut(p) ==
    IF pc[p] = "inc" THEN Miss(KeyOf(p), "interrupted") ELSE UNCHANGED unposted

PostingThrows(p) ==
    /\ pc[p] \in Posting \ {"find"}
    /\ Throw(p)
    /\ LeaveOut(p)
    /\ UNCHANGED <<systemBalance, movement, posted, sysTx, refundMark, collected>>

(* The movement is completed, or inserted, and the answer lost.            *)
MovementUnheard(p) ==
    /\ \/ pc[p] = "complete" /\ movement[KeyOf(p)] \notin {"none", "completed"}
       \/ pc[p] = "insert" /\ movement[KeyOf(p)] = "none"
    /\ movement' = [movement EXCEPT ![KeyOf(p)] = "completed"]
    /\ Miss(KeyOf(p), "interrupted")
    /\ Throw(p)
    /\ UNCHANGED <<systemBalance, posted, sysTx, refundMark, collected>>

(* The balance is changed, and the answer lost.                            *)
IncUnheard(p) ==
    /\ pc[p] = "inc"
    /\ PostTo(KeyOf(p))
    /\ Throw(p)
    /\ UNCHANGED <<movement, sysTx, refundMark, collected>>

----
(* Recharges.                                                              *)

(* createSystemPayin: the payin and its transaction, then the movement,    *)
(* whose failure is only logged.                                           *)
StartRecharge(p, r) ==
    /\ sysTx[r] = "none"
    /\ sysTx' = [sysTx EXCEPT ![r] = "pending"]
    /\ Begin(p, "create", About(Key("payin", r)))
    /\ UNCHANGED <<systemBalance, movement, posted, unposted, refundMark, collected>>

(* createPendingMovement; a movement that exists already is left alone.    *)
CreatePending(p) ==
    /\ pc[p] = "create"
    /\ movement' = [movement EXCEPT ![KeyOf(p)] = IF @ = "none" THEN "pending" ELSE @]
    /\ Return(p)
    /\ UNCHANGED <<systemBalance, posted, unposted, sysTx, refundMark, collected>>

FailToCreatePending(p) ==
    /\ pc[p] = "create"
    /\ FaultyReturn(p, "write")
    /\ UNCHANGED sysVars

(* The payer pays.                                                         *)
Collect(r) ==
    /\ sysTx[r] \in {"pending", "failed", "cancelled"} /\ r \notin collected
    /\ collected' = collected \cup {r}
    /\ UNCHANGED <<reqVars, systemBalance, movement, posted, unposted, sysTx, refundMark>>

(* processSuccessfulPayin: claim, or find claimed, and post in any case.   *)
StartProcess(p, r) ==
    /\ r \in collected
    /\ Begin(p, "claim", About(Key("payin", r)))
    /\ UNCHANGED sysVars

ClaimRecharge(p) ==
    /\ pc[p] = "claim"
    /\ sysTx' = [sysTx EXCEPT ![TxOf(p)] = "success"]
    /\ Jump(p, "complete")
    /\ UNCHANGED <<systemBalance, movement, posted, unposted, refundMark, collected>>

(* verifyAndClosePayin read the payin as failed or cancelled: a success    *)
(* may arrive from now on.                                                 *)
StartClose(p, r, to) ==
    /\ sysTx[r] = "pending" /\ r \notin collected
    /\ sysTx' = [sysTx EXCEPT ![r] = to]
    /\ Begin(p, "close", [subject |-> Key("payin", r), to |-> to])
    /\ UNCHANGED <<systemBalance, movement, posted, unposted, refundMark, collected>>

\* Mutant: the movement follows the transaction whatever its status is.
CloseAnyMovement(p) ==
    /\ pc[p] = "close"
    /\ movement' = [movement EXCEPT ![KeyOf(p)] = stack[p].to]
    /\ Return(p)
    /\ UNCHANGED <<systemBalance, posted, unposted, sysTx, refundMark, collected>>

(* updateMovementStatusByTransaction.                                      *)
CloseMovement(p) ==
    /\ pc[p] = "close"
    /\ movement' = [movement EXCEPT ![KeyOf(p)] = IF @ = "pending" THEN stack[p].to ELSE @]
    /\ Return(p)
    /\ UNCHANGED <<systemBalance, posted, unposted, sysTx, refundMark, collected>>

----
(* Withdrawals.                                                            *)

\* Mutant: the withdrawal relies on the debit alone to check the balance.
OrderUnchecked(p, w) ==
    /\ sysTx[w] = "none"
    /\ \A q \in Procs : pc[q] = "order" => TxOf(q) # w
    /\ Begin(p, "order", About(Key("withdraw", w)))
    /\ UNCHANGED sysVars

(* createSystemWithdrawal reads the balance first.                         *)
StartOrder(p, w) ==
    /\ sysTx[w] = "none"
    /\ \A q \in Procs : pc[q] = "order" => TxOf(q) # w
    /\ systemBalance >= Amount(w)
    /\ Begin(p, "order", About(Key("withdraw", w)))
    /\ UNCHANGED sysVars

(* It creates the transaction, which may be approved at once, and debits.  *)
Order(p) ==
    /\ pc[p] = "order"
    /\ sysTx' = [sysTx EXCEPT ![TxOf(p)] = "waiting"]
    /\ Jump(p, "complete")
    /\ UNCHANGED <<systemBalance, movement, posted, unposted, refundMark, collected>>

(* It is not created, or it is and the answer is lost.                     *)
FailToOrder(p) ==
    /\ pc[p] = "order"
    /\ FaultyReturn(p, "write")
    /\ \/ UNCHANGED sysTx
       \/ sysTx' = [sysTx EXCEPT ![TxOf(p)] = "waiting"]
    /\ UNCHANGED <<systemBalance, movement, posted, unposted, refundMark, collected>>

(* The debit threw: the transaction is deleted.                            *)
DeleteOrder(p) ==
    /\ pc[p] = "delete"
    /\ sysTx' = [sysTx EXCEPT ![TxOf(p)] = "deleted"]
    /\ Return(p)
    /\ UNCHANGED <<systemBalance, movement, posted, unposted, refundMark, collected>>

(* Payout approves it and learns the outcome.                              *)
Approve(w) ==
    /\ sysTx[w] = "waiting"
    /\ sysTx' = [sysTx EXCEPT ![w] = "paying"]
    /\ UNCHANGED <<reqVars, systemBalance, movement, posted, unposted, refundMark, collected>>

Pay(w) ==
    /\ sysTx[w] = "paying"
    /\ sysTx' = [sysTx EXCEPT ![w] = "paid"]
    /\ UNCHANGED <<reqVars, systemBalance, movement, posted, unposted, refundMark, collected>>

(* It is rejected, or its transfer fails: the balance gets it back.        *)
StartRefund(p, w) ==
    /\ \/ sysTx[w] = "waiting" /\ sysTx' = [sysTx EXCEPT ![w] = "rejected"]
       \/ sysTx[w] = "paying" /\ sysTx' = [sysTx EXCEPT ![w] = "error"]
    /\ Begin(p, "mark", About(Key("refund", w)))
    /\ UNCHANGED <<systemBalance, movement, posted, unposted, refundMark, collected>>

(* refundSystemBalanceIfNeeded marks the transaction, and posts.           *)
MarkSystemRefund(p) ==
    /\ pc[p] = "mark"
    /\ IF TxOf(p) \in refundMark \/ sysTx[TxOf(p)] = "deleted"
       THEN Return(p) /\ UNCHANGED refundMark
       ELSE Jump(p, "complete") /\ refundMark' = refundMark \cup {TxOf(p)}
    /\ UNCHANGED <<systemBalance, movement, posted, unposted, sysTx, collected>>

UnmarkSystemRefund(p) ==
    /\ pc[p] = "unmark"
    /\ refundMark' = refundMark \ {TxOf(p)}
    /\ Return(p)
    /\ UNCHANGED <<systemBalance, movement, posted, unposted, sysTx, collected>>

(* A credit or a debit by hand has a key of its own.                       *)
StartByHand(p, a) ==
    /\ movement[Key("admin", a)] = "none"
    /\ \A q \in Procs : pc[q] # "idle" => KeyOf(q) # Key("admin", a)
    /\ Begin(p, "complete", About(Key("admin", a)))
    /\ UNCHANGED sysVars

SystemCrash(p) ==
    /\ pc[p] # "idle"
    /\ FaultyReturn(p, "crash")
    /\ LeaveOut(p)
    /\ UNCHANGED <<systemBalance, movement, posted, sysTx, refundMark, collected>>

SystemNext ==
    \/ \E r \in Recharges : Collect(r)
    \/ \E w \in Withdrawals : Approve(w) \/ Pay(w)
    \/ \E p \in Procs :
        \/ \E r \in Recharges :
            \/ StartRecharge(p, r) \/ StartProcess(p, r)
            \/ \E to \in {"failed", "cancelled"} : StartClose(p, r, to)
        \/ \E w \in Withdrawals : StartOrder(p, w) \/ StartRefund(p, w)
        \/ \E a \in HandCredits \cup HandDebits : StartByHand(p, a)
        \/ Complete(p) \/ FindCompleted(p) \/ Insert(p) \/ Inc(p)
        \/ PostingThrows(p) \/ MovementUnheard(p) \/ IncUnheard(p)
        \/ CreatePending(p) \/ FailToCreatePending(p) \/ ClaimRecharge(p)
        \/ CloseMovement(p) \/ Order(p) \/ FailToOrder(p) \/ DeleteOrder(p)
        \/ MarkSystemRefund(p) \/ UnmarkSystemRefund(p) \/ SystemCrash(p)

SystemSpec == SystemInit /\ [][SystemNext]_systemVars

----
Changing(k) == \E p \in Procs : pc[p] = "inc" /\ KeyOf(p) = k

(* Notices that come twice, retries and refunds change the balance at most *)
(* once per key (system-balance.service.ts 110-160).                       *)
PostedOnce == \A k \in Keys : posted[k] <= 1

(* A movement shown as completed has changed the balance, for credits and  *)
(* for debits, unless a fault came between the two writes of its posting,  *)
(* which no retry repairs, or the movement is of a debit that was not      *)
(* covered when it came to the balance (lines 133-160, 205-252).           *)
CompletedIsPosted ==
    \A k \in Keys : movement[k] = "completed" =>
        \/ posted[k] = 1 \/ Changing(k)
        \/ unposted[k] = "interrupted" /\ ~Serene
        \/ unposted[k] = "uncovered" /\ k \in OutKeys

(* What getStats says of the movements it adds up (line 404): "Seuls les   *)
(* mouvements `completed` ont réellement impacté le solde", only completed *)
(* movements have really changed the balance.                              *)
CompletedHasPosted ==
    Serene => \A k \in Keys : movement[k] = "completed" => posted[k] = 1 \/ Changing(k)

(* A recharge shown as failed or cancelled never reached the balance, in   *)
(* whatever order its failure and a later success were worked on.          *)
ClosedIsNotPosted ==
    \A k \in Keys : movement[k] \in {"failed", "cancelled"} => posted[k] = 0

Funded(w) == posted[Key("withdraw", w)] = 1
Ordering(w) == \E p \in Procs : pc[p] \in Posting /\ KeyOf(p) = Key("withdraw", w)

(* A withdrawal that goes out without a debit lost a race: another debit   *)
(* took the money after createSystemWithdrawal had read the balance, or    *)
(* an instance stopped or a write failed.                                  *)
UnfundedLostARace ==
    Serene => \A w \in Withdrawals :
        sysTx[w] \in {"waiting", "paying", "paid"} /\ ~Ordering(w) =>
            \/ Funded(w)
            \/ \E k \in OutKeys \ {Key("withdraw", w)} : posted[k] = 1

(* What createSystemWithdrawal says of its own error path: "pas de         *)
(* paiement sans fonds", no payment without funds.                         *)
NoPaymentWithoutFunds ==
    \A w \in Withdrawals : sysTx[w] = "paid" /\ ~Ordering(w) => Funded(w)
====
