---- MODULE Spending ----
(***************************************************************************)
(* The requests that spend a user's wallet and create a transaction for    *)
(* it, and the idempotency keys of the developers' API.                    *)
(*   flutterwave.service.ts      withdrawal, createTransferFromBalance     *)
(*   dev.service.ts              createPayoutTransaction and the creation  *)
(*                               of payins by the API                      *)
(*   dev.controller.ts           their endpoints                           *)
(*   idempotency.service.ts      processKey                                *)
(*                                                                         *)
(* The wallet is one atomic counter here: that the postings of             *)
(* BalanceService amount to that is what Wallet shows.                     *)
(***************************************************************************)
EXTENDS Requests, Functions

CONSTANTS
    Attempts,       \* requests of the client; a retry is another attempt
    Kind(_),        \* what each asks for, see SpendingKinds
    IdemKey(_),     \* its Idempotency-Key header, or NoKey
    NoKey,
    Unauthorised,   \* attempts with a wrong secret key
    Purse,          \* the wallet at the beginning
    Lowest, Highest \* limits for "deposit" and "withdrawal"; 0 is no limit

ApiKinds == {"payout", "payin"}
SpendingKinds == {"withdrawal", "transfer"} \cup ApiKinds

ASSUME SpendingAssumption ==
    /\ Purse \in Nat
    /\ Attempts \cap {"none", "invalid", "error"} = {}
    /\ Unauthorised \subseteq Attempts
    /\ {Lowest, Highest} \subseteq [{"deposit", "withdrawal"} -> Nat]
    /\ \A a \in Attempts : Amount(a) \in Nat \ {0} /\ Kind(a) \in SpendingKinds

IdemKeys == {IdemKey(a) : a \in Attempts} \ {NoKey}

VARIABLES
    wallet,
    record,     \* response kept under each key
    created,    \* attempts whose transaction exists
    taken,      \* attempts whose amount is out of the wallet
    answer,     \* response each attempt got
    arrived,    \* attempts the server has received
    raced,      \* history: keys two attempts with which were at work at once
    aged        \* history: keys whose record has expired

spendVars == <<wallet, record, created, taken, answer, arrived, raced, aged>>
spendingVars == <<reqVars, spendVars>>

Responses == {"none", "invalid", "error"} \cup Attempts
SpendLabels == {"idle", "lookup", "auth", "check", "debit", "save", "rollback",
                "record"}

SpendingTypeOK ==
    /\ wallet \in Int
    /\ record \in [IdemKeys -> {"none", "invalid"} \cup Attempts]
    /\ created \subseteq Attempts /\ taken \subseteq Attempts
    /\ answer \in [Attempts -> Responses]
    /\ arrived \subseteq Attempts
    /\ raced \subseteq IdemKeys /\ aged \subseteq IdemKeys
    /\ pc \in [Procs -> SpendLabels]

SpendingInit ==
    /\ RequestsInit
    /\ wallet = Purse
    /\ record = [k \in IdemKeys |-> "none"]
    /\ created = {} /\ taken = {}
    /\ answer = [a \in Attempts |-> "none"]
    /\ arrived = {} /\ raced = {} /\ aged = {}

Frame(a, response) == [subject |-> a, response |-> response]
A(p) == stack[p].subject
AtWork(a) == \E p \in Procs : pc[p] # "idle" /\ A(p) = a
Keyed(a) == IdemKey(a) # NoKey
InApi(a) == Kind(a) \in ApiKinds

(* The handler answers, or throws, and is done.                            *)
Answer(p, response) ==
    /\ answer' = [answer EXCEPT ![A(p)] = response]
    /\ Return(p)

(* The endpoint receives the attempt.  Those of the API look their key up. *)
StartSpending(p, a) ==
    /\ a \notin arrived
    /\ arrived' = arrived \cup {a}
    /\ Begin(p, IF ~InApi(a) THEN "check" ELSE IF Keyed(a) THEN "lookup" ELSE "auth",
             Frame(a, a))
    /\ raced' = raced \cup
           {IdemKey(b) : b \in {c \in Attempts : InApi(a) /\ Keyed(a)
                                   /\ IdemKey(c) = IdemKey(a) /\ AtWork(c)}}
    /\ UNCHANGED <<wallet, record, created, taken, answer, aged>>

\* Mutant: a response of another endpoint does not count.
LookupByKind(p) ==
    /\ pc[p] = "lookup"
    /\ LET r == record[IdemKey(A(p))]
       IN  IF r \notin Attempts \/ Kind(r) # Kind(A(p))
           THEN Jump(p, "auth") /\ UNCHANGED answer
           ELSE Answer(p, r)
    /\ UNCHANGED <<wallet, record, created, taken, arrived, raced, aged>>

(* processKey: a response under the key is the answer, whatever it says.   *)
Lookup(p) ==
    /\ pc[p] = "lookup"
    /\ IF record[IdemKey(A(p))] = "none"
       THEN Jump(p, "auth") /\ UNCHANGED answer
       ELSE Answer(p, record[IdemKey(A(p))])
    /\ UNCHANGED <<wallet, record, created, taken, arrived, raced, aged>>

(* The operation is over: its response goes under the key.                 *)
Conclude(p, response) ==
    IF Keyed(A(p)) /\ InApi(A(p))
    THEN JumpWith(p, "record", Frame(A(p), response)) /\ UNCHANGED answer
    ELSE Answer(p, response)

(* authKey; 'invalid credentials' is a response, not an error.             *)
Authenticate(p) ==
    /\ pc[p] = "auth"
    /\ IF A(p) \in Unauthorised
       THEN Conclude(p, "invalid")
       ELSE Jump(p, "check") /\ UNCHANGED answer
    /\ UNCHANGED <<wallet, record, created, taken, arrived, raced, aged>>

(* validateTransactionLimit; an API payin is a deposit.                    *)
WithinLimits(a) ==
    LET side == IF Kind(a) = "payin" THEN "deposit" ELSE "withdrawal"
    IN  /\ Lowest[side] = 0 \/ Amount(a) >= Lowest[side]
        /\ Highest[side] = 0 \/ Amount(a) <= Highest[side]

(* A transfer leaves it to the debit to look at the balance.               *)
Affordable(a) == Kind(a) \in {"transfer", "payin"} \/ wallet >= Amount(a)

(* The limits and a first look at the balance; what is thrown is not       *)
(* recorded under the key.                                                 *)
CheckBalance(p) ==
    /\ pc[p] = "check"
    /\ IF WithinLimits(A(p)) /\ Affordable(A(p))
       THEN Jump(p, IF Kind(A(p)) = "payin" THEN "save" ELSE "debit") /\ UNCHANGED answer
       ELSE Answer(p, "error")
    /\ UNCHANGED <<wallet, record, created, taken, arrived, raced, aged>>

\* Mutant: the debit trusts the balance that was read before.
DebitUnchecked(p) ==
    /\ pc[p] = "debit"
    /\ wallet' = wallet - Amount(A(p))
    /\ taken' = taken \cup {A(p)}
    /\ Jump(p, "save")
    /\ UNCHANGED <<record, created, answer, arrived, raced, aged>>

(* debitBalance, without a key: it checks again and throws.                *)
Debit(p) ==
    /\ pc[p] = "debit"
    /\ IF wallet < Amount(A(p))
       THEN Answer(p, "error") /\ UNCHANGED <<wallet, taken>>
       ELSE /\ wallet' = wallet - Amount(A(p))
            /\ taken' = taken \cup {A(p)}
            /\ Jump(p, "save")
            /\ UNCHANGED answer
    /\ UNCHANGED <<record, created, arrived, raced, aged>>

(* createTransaction, of an API payin createPayin.                         *)
Save(p) ==
    /\ pc[p] = "save"
    /\ created' = created \cup {A(p)}
    /\ Conclude(p, A(p))
    /\ UNCHANGED <<wallet, record, taken, arrived, raced, aged>>

\* Mutant: the transfer is left without its rollback, as the others are.
ThrowOnSaveFailure(p) ==
    /\ pc[p] = "save"
    /\ answer' = [answer EXCEPT ![A(p)] = "error"]
    /\ FaultyReturn(p, "write")
    /\ UNCHANGED <<wallet, record, created, taken, arrived, raced, aged>>

(* It throws.  Only a transfer gives the money back.                       *)
FailToSave(p) ==
    /\ pc[p] = "save"
    /\ IF Kind(A(p)) = "transfer"
       THEN FaultyJump(p, "write", "rollback") /\ UNCHANGED answer
       ELSE FaultyReturn(p, "write") /\ answer' = [answer EXCEPT ![A(p)] = "error"]
    /\ UNCHANGED <<wallet, record, created, taken, arrived, raced, aged>>

(* The rollback credits without a key, as no transaction was saved.        *)
Rollback(p) ==
    /\ pc[p] = "rollback"
    /\ wallet' = wallet + Amount(A(p))
    /\ taken' = taken \ {A(p)}
    /\ Answer(p, "error")
    /\ UNCHANGED <<record, created, arrived, raced, aged>>

FailToRollback(p) ==
    /\ pc[p] = "rollback"
    /\ answer' = [answer EXCEPT ![A(p)] = "error"]
    /\ FaultyReturn(p, "write")
    /\ UNCHANGED <<wallet, record, created, taken, arrived, raced, aged>>

\* Mutant: each attempt answers with what it did itself.
RecordOwn(p) ==
    /\ pc[p] = "record"
    /\ IF record[IdemKey(A(p))] = "none"
       THEN record' = [record EXCEPT ![IdemKey(A(p))] = stack[p].response]
       ELSE UNCHANGED record
    /\ Answer(p, stack[p].response)
    /\ UNCHANGED <<wallet, created, taken, arrived, raced, aged>>

(* The record's key is unique: the first attempt's response is the answer  *)
(* of every other one that ran beside it.                                  *)
Record(p) ==
    /\ pc[p] = "record"
    /\ IF record[IdemKey(A(p))] = "none"
       THEN /\ record' = [record EXCEPT ![IdemKey(A(p))] = stack[p].response]
            /\ Answer(p, stack[p].response)
       ELSE UNCHANGED record /\ Answer(p, record[IdemKey(A(p))])
    /\ UNCHANGED <<wallet, created, taken, arrived, raced, aged>>

(* Any other error of that write is swallowed.                             *)
FailToRecord(p) ==
    /\ pc[p] = "record"
    /\ answer' = [answer EXCEPT ![A(p)] = stack[p].response]
    /\ FaultyReturn(p, "write")
    /\ UNCHANGED <<wallet, record, created, taken, arrived, raced, aged>>

(* The TTL index: a record lives 24 hours.                                 *)
ExpireRecord(k) ==
    /\ record[k] # "none"
    /\ record' = [record EXCEPT ![k] = "none"]
    /\ aged' = aged \cup {k}
    /\ UNCHANGED <<reqVars, wallet, created, taken, answer, arrived, raced>>

SpendingCrash(p) ==
    /\ pc[p] # "idle"
    /\ FaultyReturn(p, "crash")
    /\ UNCHANGED spendVars

SpendingNext ==
    \/ \E k \in IdemKeys : ExpireRecord(k)
    \/ \E p \in Procs :
        \/ \E a \in Attempts : StartSpending(p, a)
        \/ Lookup(p) \/ Authenticate(p) \/ CheckBalance(p) \/ Debit(p) \/ Save(p)
        \/ FailToSave(p) \/ Rollback(p) \/ FailToRollback(p) \/ Record(p)
        \/ FailToRecord(p) \/ SpendingCrash(p)

SpendingSpec == SpendingInit /\ [][SpendingNext]_spendingVars

----
Total(S) == SumFunctionOnSet([a \in Attempts |-> Amount(a)], S)
Spends(a) == Kind(a) # "payin"
UnderWay(a) == \E p \in Procs : pc[p] \in {"save", "rollback"} /\ A(p) = a

(* Every transaction was paid for, and nobody spends what is not there:    *)
(* checks that are stale by the time of the debit change nothing in that.  *)
SpentIsCovered ==
    /\ wallet >= 0
    /\ wallet + Total({a \in created : Spends(a)}) <= Purse

(* A transfer from the balance is all or nothing: its amount is lost only  *)
(* when the instance stops, or when its rollback fails as well             *)
(* (flutterwave.service.ts 1794-1810).                                     *)
TransferIsWhole ==
    \A a \in taken \ created :
        Kind(a) = "transfer" /\ ~UnderWay(a) =>
            Happened("crash") \/ faults["write"] >= 2

(* A second transaction for one key needs attempts at the same time, or a  *)
(* record that was lost or has expired.                                    *)
KeyRunsOnce ==
    \A a, b \in created :
        a # b /\ Keyed(a) /\ IdemKey(a) = IdemKey(b) /\ InApi(a) /\ InApi(b) =>
            IdemKey(a) \in raced \cup aged \/ ~Serene

(* The attempts of one key hear of the same transaction, even when two of  *)
(* them ran at once.                                                       *)
SameKeySameAnswer ==
    \A a, b \in Attempts :
        /\ Keyed(a) /\ IdemKey(a) = IdemKey(b)
        /\ InApi(a) /\ InApi(b)
        /\ {answer[a], answer[b]} \cap {"none", "error"} = {}
        => answer[a] = answer[b] \/ IdemKey(a) \in aged \/ ~Serene
====
