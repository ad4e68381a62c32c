---- MODULE Callback ----
(***************************************************************************)
(* What a developer's server hears of the transactions made with the API.  *)
(*   transaction.service.ts      sendCallback and its three callers:       *)
(*                               updateTransactionStatus,                  *)
(*                               claimTransactionForPayout,                *)
(*                               rejectPayoutTransaction                   *)
(* and claimTransactionForSuccessfulPayin, which does not call it.         *)
(*                                                                         *)
(* A call of sendCallback is detached from the request that changes the    *)
(* status: it works on its own, with the transaction as it was written.    *)
(***************************************************************************)
EXTENDS Requests

CONSTANTS
    ApiPayins, ApiPayouts,  \* transactions whose developer has a webhook
    MaxChanges              \* bound: status changes of one transaction

ApiTxs == ApiPayins \cup ApiPayouts

ASSUME CallbackAssumption == MaxChanges \in Nat /\ ApiPayins \cap ApiPayouts = {}

VARIABLES
    apiStatus,
    changes,            \* status changes of each transaction so far
    lastCallbackStatus, \* of each transaction, or "none"
    calls,              \* calls of sendCallback at work
    heard               \* what the developer has heard of each, as a set

callbackOnly == <<apiStatus, changes, lastCallbackStatus, calls, heard>>
callbackVars == <<reqVars, callbackOnly>>

ApiPayinStatuses == {"payin_pending", "payin_error", "payin_closed", "payin_success"}
ApiPayoutStatuses == {"payin_success", "payout_pending", "payout_success", "payout_error",
                      "payout_closed", "payout_rejected"}
ApiStatuses == ApiPayinStatuses \cup ApiPayoutStatuses
Calls == [tx : ApiTxs, status : ApiStatuses, change : 1..MaxChanges,
          at : {"read", "claim", "post", "unset"}]

CallbackTypeOK ==
    /\ apiStatus \in [ApiTxs -> ApiStatuses]
    /\ changes \in [ApiTxs -> 0..MaxChanges]
    /\ lastCallbackStatus \in [ApiTxs -> {"none"} \cup ApiStatuses]
    /\ calls \subseteq Calls
    /\ heard \in [ApiTxs -> SUBSET ApiStatuses]

(* A payout is created as paid in, a payin as pending.                     *)
CallbackInit ==
    /\ RequestsInit
    /\ apiStatus = [t \in ApiTxs |-> IF t \in ApiPayins THEN "payin_pending" ELSE "payin_success"]
    /\ changes = [t \in ApiTxs |-> 0]
    /\ lastCallbackStatus = [t \in ApiTxs |-> "none"]
    /\ calls = {}
    /\ heard = [t \in ApiTxs |-> {}]

(* TRANSACTION_STATUS_FROM, without the change of a status to itself.      *)
ApiFrom(to) ==
    CASE to = "payin_pending"   -> {}
      [] to = "payin_success"   -> {"payin_pending", "payin_error", "payin_closed"}
      [] to \in {"payin_error", "payin_closed"} -> {"payin_pending"}
      [] to = "payout_pending"  -> {"payin_success", "payout_error"}
      [] to \in {"payout_success", "payout_error"} -> {"payout_pending"}
      [] to = "payout_closed"   -> {"payout_pending", "payout_error"}
      [] to = "payout_rejected" -> {"payin_success"}

Change(t, to) ==
    /\ changes[t] < MaxChanges
    /\ apiStatus[t] \in ApiFrom(to)
    /\ to \in IF t \in ApiPayins THEN ApiPayinStatuses ELSE ApiPayoutStatuses
    /\ apiStatus' = [apiStatus EXCEPT ![t] = to]
    /\ changes' = [changes EXCEPT ![t] = @ + 1]
    /\ UNCHANGED <<reqVars, lastCallbackStatus, heard>>

(* updateTransactionStatus, claimTransactionForPayout and                  *)
(* rejectPayoutTransaction.  A payin succeeds in this way only when        *)
(* reconciliation finds it.  After the refund of a failed payout the       *)
(* transaction is read again, and may have another status by then.         *)
UpdateAndCall(t, to) ==
    /\ Change(t, to)
    /\ calls' = calls \cup {[tx |-> t, status |-> to, change |-> changes'[t],
                             at |-> IF to = "payout_error" THEN "read" ELSE "claim"]}

(* claimTransactionForSuccessfulPayin.                                     *)
ClaimSilently(t) ==
    /\ t \in ApiPayins
    /\ Change(t, "payin_success")
    /\ UNCHANGED calls

Proceed(c, at) == calls' = (calls \ {c}) \cup {[c EXCEPT !.at = at]}
Drop(c) == calls' = calls \ {c}

ReadAgain(c) ==
    /\ c.at = "read"
    /\ calls' = (calls \ {c}) \cup {[c EXCEPT !.status = apiStatus[c.tx], !.at = "claim"]}
    /\ UNCHANGED <<reqVars, apiStatus, changes, lastCallbackStatus, heard>>

\* Mutant: a transaction that was called back once is not called again.
ClaimCallbackOnce(c) ==
    /\ c.at = "claim"
    /\ IF lastCallbackStatus[c.tx] # "none"
       THEN Drop(c) /\ UNCHANGED lastCallbackStatus
       ELSE /\ lastCallbackStatus' = [lastCallbackStatus EXCEPT ![c.tx] = c.status]
            /\ Proceed(c, "post")
    /\ UNCHANGED <<reqVars, apiStatus, changes, heard>>

(* The claim: somebody else is on this status already, or it is free.      *)
ClaimCallback(c) ==
    /\ c.at = "claim"
    /\ IF lastCallbackStatus[c.tx] = c.status
       THEN Drop(c) /\ UNCHANGED lastCallbackStatus
       ELSE /\ lastCallbackStatus' = [lastCallbackStatus EXCEPT ![c.tx] = c.status]
            /\ Proceed(c, "post")
    /\ UNCHANGED <<reqVars, apiStatus, changes, heard>>

Hear(c) == heard' = [heard EXCEPT ![c.tx] = @ \cup {c.status}]

Post(c) ==
    /\ c.at = "post"
    /\ Hear(c)
    /\ Drop(c)
    /\ UNCHANGED <<reqVars, apiStatus, changes, lastCallbackStatus>>

(* The developer's server is down, or its answer is lost.                  *)
PostFails(c) ==
    /\ c.at = "post"
    /\ Faulty("outage") /\ UNCHANGED <<pc, stack>>
    /\ Hear(c) \/ UNCHANGED heard
    /\ Proceed(c, "unset")
    /\ UNCHANGED <<apiStatus, changes, lastCallbackStatus>>

(* "Allow a later retry": the claim is taken back, unless a later call has *)
(* one.                                                                    *)
Unset(c) ==
    /\ c.at = "unset"
    /\ lastCallbackStatus' = [lastCallbackStatus EXCEPT ![c.tx] =
                                  IF @ = c.status THEN "none" ELSE @]
    /\ Drop(c)
    /\ UNCHANGED <<reqVars, apiStatus, changes, heard>>

(* The instance stops, and its calls with it; or the refund throws.        *)
LoseCall(c) ==
    /\ Faulty("crash") \/ (c.at = "read" /\ Faulty("write"))
    /\ UNCHANGED <<pc, stack>>
    /\ Drop(c)
    /\ UNCHANGED <<apiStatus, changes, lastCallbackStatus, heard>>

CallbackNext ==
    \/ \E t \in ApiTxs :
        \/ \E to \in ApiStatuses : UpdateAndCall(t, to)
        \/ ClaimSilently(t)
    \/ \E c \in calls :
        ReadAgain(c) \/ ClaimCallback(c) \/ Post(c) \/ PostFails(c) \/ Unset(c) \/ LoseCall(c)

CallbackSpec == CallbackInit /\ [][CallbackNext]_callbackVars

----
Quiet(t) == \A c \in calls : c.tx # t

(* Once all calls are over the developer has heard of the status a         *)
(* transaction has, unless his server was down or an instance stopped:     *)
(* there is no retry.  Calls overtake each other, so that it need not be   *)
(* the last he heard; and the claim of a successful payin calls nobody.    *)
StatusWasHeard ==
    Serene => \A t \in ApiTxs :
        Quiet(t) /\ changes[t] > 0 /\ apiStatus[t] # "payin_success" =>
            apiStatus[t] \in heard[t]

(* The list of statuses the developers' documentation gives for its        *)
(* webhook has payin_success among them.                                   *)
SuccessIsCalledBack ==
    Serene => \A t \in ApiPayins :
        Quiet(t) /\ apiStatus[t] = "payin_success" => "payin_success" \in heard[t]
====
