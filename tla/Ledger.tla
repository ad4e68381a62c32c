---- MODULE Ledger ----
(***************************************************************************)
(* What BalanceService promises its callers: a posting with an idempotency *)
(* key reaches the wallet once, however often and from however many        *)
(* instances it is asked for ("a second call with the same key is a        *)
(* no-op").  A posting is one atomic step, and there is nothing between a  *)
(* posting asked for and a posting made.  Wallet.tla, the code with its    *)
(* separate database writes, is shown to implement this module.            *)
(***************************************************************************)
EXTENDS Integers

CONSTANTS
    Users,      \* owners of a wallet
    Requests,   \* postings that may be asked for
    NoKey       \* the key of a posting made without an idempotency key

VARIABLES
    settled,    \* money of each user that is on the books
    posted      \* idempotency keys on the books

(* The signed amount a posting adds to its user's wallet.                  *)
Signed(r) == IF r.type = "credit" THEN r.amount ELSE -r.amount

Init ==
    /\ settled = [u \in Users |-> 0]
    /\ posted = {}

Post(r) ==
    /\ r.key \notin posted
    /\ settled' = [settled EXCEPT ![r.user] = @ + Signed(r)]
    /\ posted' = IF r.key = NoKey THEN posted ELSE posted \cup {r.key}

Next == \E r \in Requests : Post(r)

Spec == Init /\ [][Next]_<<settled, posted>>
====
