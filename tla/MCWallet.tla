---- MODULE MCWallet ----
(***************************************************************************)
(* Wallet for TLC: one user whose pay-in is credited by several calls with *)
(* the key of its transaction (webhook, cron, status poll), a withdrawal   *)
(* without a key and the keyed debit of a refund taken back for a retry.   *)
(***************************************************************************)
EXTENDS Wallet

CONSTANTS Ada, PayinCredit, Reclaim

Posting(type, amount, key) ==
    [type |-> type, user |-> Ada, amount |-> amount, key |-> key]

MCUsers == {Ada}

MCKeys == {PayinCredit, Reclaim}

MCRequests == {Posting("credit", 2, PayinCredit),
               Posting("debit", 2, NoKey),
               Posting("debit", 1, Reclaim)}
====
