---- MODULE PayoutProofs ----
(***************************************************************************)
(* Theorems about Payout for any number of processes, any assignment of    *)
(* jobs to them and any set of faults.                                     *)
(***************************************************************************)
EXTENDS Payout, TLAPS

(* The pieces of a step of one process.                                    *)
PayoutStep(p) ==
    \/ Claim(p) \/ Post(p) \/ Refuse(p) \/ LoseAnswer(p) \/ SaveDocument(p)
    \/ Confirm(p) \/ FailToWrite(p) \/ FailPayout(p)

RefundStep(p) ==
    \/ Mark(p) \/ Credit(p) \/ FailToCredit(p) \/ Unmark(p)
    \/ Reject(p) \/ BulkReject(p)

VerifyStep(p) ==
    \/ StartVerify(p, "cron") \/ StartVerify(p, "poll") \/ StartVerify(p, "check")
    \/ LookFlutterwave(p) \/ LookMpesa(p) \/ Fetch(p) \/ FailToFetch(p)
    \/ Write(p) \/ Settle(p) \/ Callback(p) \/ ForceFail(p) \/ FailForced(p)

TxCronStep(p) == StartTxCron(p) \/ TxLook(p) \/ TxFetch(p) \/ TxWrite(p)

LEMMA StepOfProcess ==
    ASSUME NEW p \in Procs, Begin(p) \/ Advance(p) \/ Fault(p)
    PROVE  PayoutStep(p) \/ RefundStep(p) \/ VerifyStep(p) \/ TxCronStep(p) \/ Crash(p)
BY DEF Begin, Advance, Fault, PayoutStep, RefundStep, VerifyStep, TxCronStep

----
(* The type invariant is inductive.                                        *)

(* What the helpers leave in a process and in the transaction.             *)
Stacks ==
    /\ pc \in [Procs -> Labels]
    /\ job \in [Procs -> JobKinds \cup {None}]
    /\ old \in [Procs -> TransferStatuses] /\ seen \in [Procs -> TransferStatuses]
    /\ late \in [Procs -> BOOLEAN]

LEMMA StacksKept ==
    ASSUME NEW p \in Procs, TypeOK
    PROVE  /\ End(p) => Stacks'
           /\ \A l \in Labels : Continue(p, l) => Stacks'
           /\ Throw(p) => Stacks'
<1>1. End(p) => Stacks'
  BY DEF TypeOK, Stacks, End, Goto, Labels, TransferStatuses
<1>2. \A l \in Labels : Continue(p, l) => Stacks'
  BY DEF TypeOK, Stacks, Continue, Goto
<1>3. Throw(p) => Stacks'
  BY <1>1, <1>2 DEF Throw, Labels, Verifying
<1> QED
  BY <1>1, <1>2, <1>3

Transaction == status \in Statuses /\ marked \in BOOLEAN /\ refunded \in BOOLEAN
               /\ aged \subseteq {"tx", "doc"}

LEMMA SetStatusKeeps ==
    ASSUME NEW p \in Procs, TypeOK,
           NEW s \in {"PAYOUTPENDING", "PAYOUTSUCCESS", "PAYOUTERROR", "PAYOUTCLOSED"},
           SetStatus(p, s)
    PROVE  Stacks' /\ Transaction'
<1>1. Continue(p, "mark") \/ End(p)
  BY DEF SetStatus
<1>2. Stacks'
  BY <1>1, StacksKept DEF Labels, Refunding
<1>3. Transaction'
  BY DEF SetStatus, Transaction, TypeOK, Statuses
<1> QED
  BY <1>2, <1>3

Payment == provider \in Providers /\ sent \in Nat /\ called \in 0..MaxCallbacks
           /\ transfer \in TransferStatuses /\ doc \in TransferStatuses
           /\ raw \in TransferStatuses

Mishaps == mishaps \subseteq FaultKinds \cup {"forced", "bulkReject"}

LEMMA TypeParts == Stacks' /\ Transaction' /\ Payment' /\ Mishaps' => TypeOK'
BY DEF TypeOK, Stacks, Transaction, Payment, Mishaps

LEMMA SufferKeeps == ASSUME NEW m, TypeOK, Suffer(m) PROVE Mishaps'
BY PayoutFaultsAssumption DEF TypeOK, Mishaps, Suffer

(* What a step leaves alone keeps its type.                                *)
LEMMA UntouchedKeep ==
    ASSUME TypeOK
    PROVE  /\ UNCHANGED payVars => Payment'
           /\ UNCHANGED mishaps => Mishaps'
           /\ UNCHANGED <<txVars, aged>> => Transaction'
           /\ UNCHANGED <<pc, job, old, seen, late>> => Stacks'
BY DEF TypeOK, payVars, txVars, Payment, Mishaps, Transaction, Stacks

LEMMA PayoutStepTyped == ASSUME NEW p \in Procs, TypeOK, PayoutStep(p) PROVE TypeOK'
<1> USE UntouchedKeep, StacksKept, SetStatusKeeps, TypeParts
<1>1. ASSUME Claim(p) PROVE TypeOK'
  <2>1. Stacks' /\ Transaction'
    BY <1>1 DEF Claim, Start, Goto, Stacks, Transaction, TypeOK, Statuses, Labels,
                Paying, JobKinds
  <2> QED
    BY <1>1, <2>1 DEF Claim
<1>2. ASSUME Post(p) \/ LoseAnswer(p) PROVE TypeOK'
  <2>1. Payment'
    BY <1>2 DEF Post, LoseAnswer, TakeOrder, FirstStatus, Payment, TypeOK,
                TransferStatuses
  <2>2. Transaction'
    BY <1>2 DEF Post, LoseAnswer
  <2>3. Mishaps'
    BY <1>2, SufferKeeps DEF Post, LoseAnswer
  <2>4. Stacks'
    BY <1>2 DEF Post, LoseAnswer, Labels, Paying
  <2> QED
    BY <2>1, <2>2, <2>3, <2>4
<1>3. ASSUME Refuse(p) PROVE TypeOK'
  BY <1>3 DEF Refuse, Labels, Paying
<1>4. ASSUME SaveDocument(p) PROVE TypeOK'
  <2>1. Payment' /\ Transaction'
    BY <1>4 DEF SaveDocument, Payment, Transaction, TypeOK, TransferStatuses, txVars
  <2>2. Stacks' /\ Mishaps'
    BY <1>4 DEF SaveDocument, Labels, Paying
  <2> QED
    BY <2>1, <2>2
<1>5. ASSUME Confirm(p) PROVE TypeOK'
  BY <1>5 DEF Confirm
<1>6. ASSUME FailToWrite(p) PROVE TypeOK'
  BY <1>6, SufferKeeps DEF FailToWrite, Labels, Paying
<1>7. ASSUME FailPayout(p) PROVE TypeOK'
  BY <1>7 DEF FailPayout
<1> QED
  BY <1>1, <1>2, <1>3, <1>4, <1>5, <1>6, <1>7 DEF PayoutStep

LEMMA RefundStepTyped == ASSUME NEW p \in Procs, TypeOK, RefundStep(p) PROVE TypeOK'
<1> USE UntouchedKeep, StacksKept, TypeParts
<1>1. ASSUME Mark(p) \/ Credit(p) \/ Unmark(p) PROVE TypeOK'
  <2>1. Transaction'
    BY <1>1 DEF Mark, Credit, Unmark, Transaction, TypeOK
  <2>2. Stacks'
    BY <1>1 DEF Mark, Credit, Unmark, Labels, Refunding
  <2> QED
    BY <1>1, <2>1, <2>2 DEF Mark, Credit, Unmark
<1>2. ASSUME FailToCredit(p) PROVE TypeOK'
  BY <1>2, SufferKeeps DEF FailToCredit, Labels, Refunding
<1>3. ASSUME Reject(p) PROVE TypeOK'
  <2>1. Stacks' /\ Transaction'
    BY <1>3 DEF Reject, Start, Goto, Stacks, Transaction, TypeOK, Statuses, Labels,
                Refunding, JobKinds
  <2> QED
    BY <1>3, <2>1 DEF Reject
<1>4. ASSUME BulkReject(p) PROVE TypeOK'
  <2>1. Transaction' /\ Mishaps'
    BY <1>4 DEF BulkReject, Transaction, Mishaps, TypeOK, Statuses
  <2> QED
    BY <1>4, <2>1 DEF BulkReject
<1> QED
  BY <1>1, <1>2, <1>3, <1>4 DEF RefundStep

LEMMA VerifyStepTyped == ASSUME NEW p \in Procs, TypeOK, VerifyStep(p) PROVE TypeOK'
<1> USE UntouchedKeep, StacksKept, SetStatusKeeps, TypeParts
<1>1. ASSUME NEW k \in {"cron", "poll", "check"}, StartVerify(p, k) PROVE TypeOK'
  <2>1. Stacks'
    BY <1>1 DEF StartVerify, Start, Goto, Stacks, TypeOK, Labels, Verifying, JobKinds
  <2> QED
    BY <1>1, <2>1 DEF StartVerify
<1>2. ASSUME LookFlutterwave(p) \/ LookMpesa(p) \/ Fetch(p) PROVE TypeOK'
  <2>1. Stacks'
    BY <1>2 DEF LookFlutterwave, LookMpesa, Fetch, Goto, Stacks, TypeOK, Labels,
                Verifying
  <2> QED
    BY <1>2, <2>1 DEF LookFlutterwave, LookMpesa, Fetch
<1>3. ASSUME FailToFetch(p) PROVE TypeOK'
  BY <1>3, SufferKeeps DEF FailToFetch
<1>4. ASSUME Write(p) PROVE TypeOK'
  <2>1. Payment'
    BY <1>4 DEF Write, Reported, Payment, TypeOK, TransferStatuses, Terminal
  <2>2. Transaction'
    BY <1>4 DEF Write, Transaction, TypeOK, txVars
  <2>3. Stacks'
    BY <1>4 DEF Write, Labels, Verifying
  <2> QED
    BY <1>4, <2>1, <2>2, <2>3 DEF Write
<1>5. ASSUME Settle(p) PROVE TypeOK'
  BY <1>5 DEF Settle
<1>6. ASSUME Callback(p) PROVE TypeOK'
  <2>1. Outcomes \subseteq TransferStatuses
    BY DEF Outcomes, TransferStatuses, Terminal, TypeOK
  <2>2. Stacks'
    BY <1>6, <2>1 DEF Callback, Start, Goto, Stacks, TypeOK, Labels, Verifying,
                      JobKinds
  <2>3. Payment'
    BY <1>6, PayoutFaultsAssumption DEF Callback, Payment, TypeOK
  <2> QED
    BY <1>6, <2>2, <2>3 DEF Callback
<1>7. ASSUME ForceFail(p) PROVE TypeOK'
  <2>1. Stacks'
    BY <1>7 DEF ForceFail, Goto, Stacks, TypeOK, Labels, Verifying
  <2>2. Payment' /\ Transaction' /\ Mishaps'
    BY <1>7 DEF ForceFail, Payment, Transaction, Mishaps, TypeOK, txVars,
                TransferStatuses, Terminal
  <2> QED
    BY <2>1, <2>2
<1>8. ASSUME FailForced(p) PROVE TypeOK'
  BY <1>8 DEF FailForced
<1> QED
  BY <1>1, <1>2, <1>3, <1>4, <1>5, <1>6, <1>7, <1>8 DEF VerifyStep

LEMMA TxCronStepTyped == ASSUME NEW p \in Procs, TypeOK, TxCronStep(p) PROVE TypeOK'
<1> USE UntouchedKeep, StacksKept, SetStatusKeeps, TypeParts
<1>1. ASSUME StartTxCron(p) \/ TxFetch(p) PROVE TypeOK'
  <2>1. Stacks'
    BY <1>1 DEF StartTxCron, TxFetch, Start, Goto, Stacks, TypeOK, Labels, Verifying,
                JobKinds, Terminal
  <2> QED
    BY <1>1, <2>1 DEF StartTxCron, TxFetch
<1>2. ASSUME TxLook(p) PROVE TypeOK'
  BY <1>2 DEF TxLook, Labels, Verifying
<1>3. ASSUME TxWrite(p) PROVE TypeOK'
  <2>1. Payment' /\ Transaction'
    BY <1>3 DEF TxWrite, Payment, Transaction, TypeOK, txVars
  <2>2. Stacks'
    BY <1>3 DEF TxWrite, Labels, Verifying
  <2> QED
    BY <1>3, <2>1, <2>2 DEF TxWrite
<1> QED
  BY <1>1, <1>2, <1>3 DEF TxCronStep

(* TypeOK holds in every state of every behaviour.                         *)
THEOREM PayoutTypeCorrect == Spec => []TypeOK
<1>1. Init => TypeOK
  <2> SUFFICES ASSUME Init PROVE TypeOK
    OBVIOUS
  <2>1. Stacks
    BY DEF Init, Stacks, TransferStatuses, Labels
  <2>2. Transaction /\ Mishaps
    BY DEF Init, Transaction, Mishaps, Statuses
  <2>3. Payment
    BY PayoutFaultsAssumption DEF Init, Payment, TransferStatuses
  <2> QED
    BY <2>1, <2>2, <2>3 DEF TypeOK, Stacks, Transaction, Mishaps, Payment
<1>2. TypeOK /\ [Next]_vars => TypeOK'
  <2> SUFFICES ASSUME TypeOK, [Next]_vars PROVE TypeOK'
    OBVIOUS
  <2>1. CASE UNCHANGED vars
    BY <2>1 DEF vars, txVars, payVars, TypeOK
  <2>2. ASSUME NEW p \in Procs, Begin(p) \/ Advance(p) \/ Fault(p) PROVE TypeOK'
    <3>1. ASSUME Crash(p) PROVE TypeOK'
      BY <3>1, SufferKeeps, UntouchedKeep, StacksKept, TypeParts DEF Crash
    <3> QED
      BY <2>2, <3>1, StepOfProcess, PayoutStepTyped, RefundStepTyped,
         VerifyStepTyped, TxCronStepTyped
  <2>3. ASSUME NEW s \in TransferStatuses, Progress(s) PROVE TypeOK'
    <3>1. Payment'
      BY <2>3 DEF Progress, Payment, TypeOK
    <3> QED
      BY <2>3, <3>1, UntouchedKeep, TypeParts DEF Progress
  <2>4. ASSUME Age PROVE TypeOK'
    <3>1. Transaction'
      BY <2>4 DEF Age, Transaction, TypeOK, txVars
    <3> QED
      BY <2>4, <3>1, UntouchedKeep, TypeParts DEF Age
  <2> QED
    BY <2>1, <2>2, <2>3, <2>4 DEF Next
<1> QED
  BY <1>1, <1>2, PTL DEF Spec

----
(* The claim: while a transaction waits for approval, or once it was       *)
(* rejected, nobody works on its payment and nothing was sent; later one   *)
(* process at most has the right to send, and only while nothing was sent. *)
Unclaimed == status \in {"PAYINSUCCESS", "PAYOUTREJECTED"}

ClaimInv ==
    /\ sent \in {0, 1}
    /\ Unclaimed => sent = 0 /\ \A p \in Procs : pc[p] \notin Paying
    /\ \A p \in Procs : pc[p] = "post" => sent = 0
    /\ \A p, q \in Procs : pc[p] = "post" /\ pc[q] \in Paying => p = q

(* Every step but Claim and Post: no order, nobody gets to pay, and the    *)
(* transaction is unclaimed only if it was.                                *)
NobodyJoins ==
    \A p \in Procs : /\ pc'[p] \in Paying => pc[p] \in Paying
                     /\ pc'[p] = "post" => pc[p] = "post"

Harmless == sent' = sent /\ NobodyJoins /\ (Unclaimed' => Unclaimed)

LEMMA HarmlessKeepsClaim == ClaimInv /\ Harmless => ClaimInv'
BY DEF ClaimInv, Harmless, NobodyJoins

LEMMA MovesAreHarmless ==
    ASSUME NEW p \in Procs, TypeOK
    PROVE  /\ End(p) => NobodyJoins
           /\ Throw(p) => NobodyJoins
           /\ \A l : /\ Continue(p, l) \/ Goto(p, l)
                     /\ l \notin Paying \/ (l # "post" /\ pc[p] \in Paying)
                     => NobodyJoins
           /\ UNCHANGED pc => NobodyJoins
<1>1. ASSUME NEW l, Continue(p, l) \/ Goto(p, l),
             l \notin Paying \/ (l # "post" /\ pc[p] \in Paying)
      PROVE  NobodyJoins
  BY <1>1 DEF NobodyJoins, Continue, Goto, TypeOK, Paying
<1>2. End(p) => NobodyJoins
  BY DEF NobodyJoins, End, Goto, TypeOK, Paying
<1>3. Throw(p) => NobodyJoins
  BY <1>1, <1>2 DEF Throw, Paying
<1>4. UNCHANGED pc => NobodyJoins
  BY DEF NobodyJoins
<1> QED
  BY <1>1, <1>2, <1>3, <1>4

LEMMA SetStatusIsHarmless ==
    ASSUME NEW p \in Procs, TypeOK,
           NEW s \in {"PAYOUTPENDING", "PAYOUTSUCCESS", "PAYOUTERROR", "PAYOUTCLOSED"},
           SetStatus(p, s), sent' = sent
    PROVE  Harmless
<1>1. Continue(p, "mark") \/ End(p)
  BY DEF SetStatus
<1>2. Unclaimed' => Unclaimed
  BY DEF SetStatus, Unclaimed
<1> QED
  BY <1>1, <1>2, MovesAreHarmless DEF Harmless, Paying

LEMMA StepIsHarmless ==
    ASSUME NEW p \in Procs, TypeOK, Begin(p) \/ Advance(p) \/ Fault(p),
           ~Claim(p), ~Post(p), ~LoseAnswer(p)
    PROVE  Harmless
<1> USE MovesAreHarmless, SetStatusIsHarmless DEF Harmless, Unclaimed, Paying
<1>1. ASSUME PayoutStep(p) PROVE Harmless
  BY <1>1 DEF PayoutStep, Refuse, SaveDocument, Confirm, FailToWrite, FailPayout,
              txVars, payVars
<1>2. ASSUME RefundStep(p) PROVE Harmless
  BY <1>2 DEF RefundStep, Mark, Credit, FailToCredit, Unmark, Reject, BulkReject,
              Claimable, txVars, payVars
<1>3. ASSUME VerifyStep(p) PROVE Harmless
  <2>1. ASSUME Settle(p) PROVE Harmless
    BY <2>1 DEF Settle, txVars, payVars
  <2>2. ASSUME FailForced(p) PROVE Harmless
    BY <2>2 DEF FailForced, payVars
  <2>3. CASE ~Settle(p) /\ ~FailForced(p)
    BY <1>3, <2>3 DEF VerifyStep, StartVerify, LookFlutterwave, LookMpesa, Fetch,
                FailToFetch, Write, Callback, ForceFail, txVars, payVars
  <2> QED
    BY <2>1, <2>2, <2>3
<1>4. ASSUME TxCronStep(p) PROVE Harmless
  BY <1>4 DEF TxCronStep, StartTxCron, TxLook, TxFetch, TxWrite, txVars, payVars
<1>5. ASSUME Crash(p) PROVE Harmless
  BY <1>5 DEF Crash, txVars, payVars
<1> QED
  BY <1>1, <1>2, <1>3, <1>4, <1>5, StepOfProcess

LEMMA ClaimInvHolds == Spec => []ClaimInv
<1>1. Init => ClaimInv
  BY DEF Init, ClaimInv, Paying
<1>2. TypeOK /\ ClaimInv /\ [Next]_vars => ClaimInv'
  <2> SUFFICES ASSUME TypeOK, ClaimInv, [Next]_vars PROVE ClaimInv'
    OBVIOUS
  <2>1. CASE UNCHANGED vars
    BY <2>1, HarmlessKeepsClaim DEF Harmless, NobodyJoins, Unclaimed, vars, txVars, payVars
  <2>2. ASSUME NEW p \in Procs, Claim(p) PROVE ClaimInv'
    BY <2>2 DEF Claim, Claimable, Goto, ClaimInv, Unclaimed, TypeOK, Paying, payVars
  <2>3. ASSUME NEW p \in Procs, Post(p) \/ LoseAnswer(p) PROVE ClaimInv'
    BY <2>3 DEF Post, LoseAnswer, TakeOrder, Continue, Goto, ClaimInv, Unclaimed,
                TypeOK, Paying, txVars
  <2>4. ASSUME NEW p \in Procs, Begin(p) \/ Advance(p) \/ Fault(p) PROVE ClaimInv'
    BY <2>2, <2>3, <2>4, StepIsHarmless, HarmlessKeepsClaim
  <2>5. ASSUME NEW s \in TransferStatuses, Progress(s) PROVE ClaimInv'
    BY <2>5, HarmlessKeepsClaim DEF Progress, Harmless, NobodyJoins, Unclaimed, txVars
  <2>6. ASSUME Age PROVE ClaimInv'
    BY <2>6, HarmlessKeepsClaim DEF Age, Harmless, NobodyJoins, Unclaimed, txVars, payVars
  <2> QED
    BY <2>1, <2>4, <2>5, <2>6 DEF Next
<1> QED
  BY <1>1, <1>2, PayoutTypeCorrect, PTL DEF Spec

(* The provider is asked to pay at most once, whatever runs at once.       *)
THEOREM PaidAtMostOnce == Spec => []AtMostOneTransfer
<1>1. ClaimInv => AtMostOneTransfer
  BY DEF ClaimInv, AtMostOneTransfer
<1> QED
  BY <1>1, ClaimInvHolds, PTL

(* A rejected transaction was not sent and nobody is about to send it.     *)
THEOREM RejectedNeverPaid == Spec => []RejectedIsNeverPaid
<1>1. ClaimInv => RejectedIsNeverPaid
  BY DEF ClaimInv, Unclaimed, RejectedIsNeverPaid
<1> QED
  BY <1>1, ClaimInvHolds, PTL

----
(* What the jobs believe: a final status that a job has seen, or that the  *)
(* documents hold, is the provider's; only a force-fail makes one up.      *)
Elsewhere(p) == \A q \in Procs \ {p} : pc'[q] = pc[q] /\ seen'[q] = seen[q]

LEMMA Moves ==
    ASSUME NEW p \in Procs, TypeOK
    PROVE  /\ End(p) => pc'[p] = "idle" /\ seen'[p] = None /\ Elsewhere(p)
           /\ \A l : Continue(p, l) => pc'[p] = l /\ seen' = seen /\ Elsewhere(p)
           /\ Throw(p) => pc'[p] \in {"idle", "force"} /\ seen'[p] \in {None, seen[p]}
                          /\ Elsewhere(p)
           /\ \A l : Goto(p, l) => pc'[p] = l /\ \A q \in Procs \ {p} : pc'[q] = pc[q]
<1>1. End(p) => pc'[p] = "idle" /\ seen'[p] = None /\ Elsewhere(p)
  BY DEF End, Goto, TypeOK, Elsewhere
<1>2. \A l : Goto(p, l) => pc'[p] = l /\ \A q \in Procs \ {p} : pc'[q] = pc[q]
  BY DEF Goto, TypeOK
<1>3. \A l : Continue(p, l) => pc'[p] = l /\ seen' = seen /\ Elsewhere(p)
  BY <1>2 DEF Continue, Elsewhere
<1> QED
  BY <1>1, <1>2, <1>3 DEF Throw

EvidenceInv ==
    /\ sent = 0 => transfer = None
    /\ \A p \in Procs : seen[p] \in Terminal => seen[p] = transfer
    /\ raw \in Terminal => raw = transfer
    /\ doc = "SUCCESSFUL" => transfer = "SUCCESSFUL"
    /\ doc = "FAILED" => transfer = "FAILED" \/ "forced" \in mishaps
    /\ status = "PAYOUTSUCCESS" => transfer = "SUCCESSFUL"
    /\ \A p \in Procs : pc[p] = "forced" => "forced" \in mishaps

(* A step of p that learns and writes nothing final.                       *)
Unread(p) ==
    /\ Elsewhere(p) /\ seen'[p] \in {None, seen[p]} /\ pc'[p] # "forced"
    /\ UNCHANGED <<sent, transfer, raw>> /\ mishaps \subseteq mishaps'
    /\ doc' = doc \/ doc' \notin Terminal
    /\ status' = status \/ status' # "PAYOUTSUCCESS"

LEMMA UnreadKeeps == ASSUME NEW p \in Procs, EvidenceInv, Unread(p) PROVE EvidenceInv'
BY DEF EvidenceInv, Unread, Elsewhere, None, Terminal

LEMMA SetStatusUnread ==
    ASSUME NEW p \in Procs, TypeOK, NEW s \in {"PAYOUTPENDING", "PAYOUTERROR", "PAYOUTCLOSED"},
           SetStatus(p, s), UNCHANGED <<sent, transfer, raw, doc, mishaps>>
    PROVE  Unread(p)
BY Moves DEF SetStatus, Unread

LEMMA PayoutStepEvidence ==
    ASSUME NEW p \in Procs, TypeOK, ClaimInv, EvidenceInv, PayoutStep(p) PROVE EvidenceInv'
<1> USE Moves, SetStatusUnread, UnreadKeeps
<1>1. ASSUME Claim(p) PROVE EvidenceInv'
  BY <1>1 DEF Claim, Unread, payVars, Elsewhere
<1>2. ASSUME Post(p) \/ LoseAnswer(p) PROVE EvidenceInv'
  <2>1. transfer = None /\ sent \in {0, 1}
    BY <1>2 DEF Post, LoseAnswer, ClaimInv, EvidenceInv
  <2>2. /\ sent' = sent + 1 /\ seen' = seen /\ UNCHANGED <<raw, doc, status>>
        /\ mishaps \subseteq mishaps' /\ Elsewhere(p) /\ pc'[p] # "forced"
    BY <1>2 DEF Post, LoseAnswer, TakeOrder, txVars, Suffer
  <2> QED
    BY <2>1, <2>2 DEF EvidenceInv, Elsewhere, None, Terminal
<1>3. ASSUME Refuse(p) \/ FailToWrite(p) PROVE EvidenceInv'
  BY <1>3 DEF Refuse, FailToWrite, Unread, Suffer, payVars, txVars
<1>4. ASSUME SaveDocument(p) PROVE EvidenceInv'
  <2>1. /\ UNCHANGED <<transfer, sent, status, seen, mishaps>> /\ Elsewhere(p)
        /\ pc'[p] # "forced" /\ doc' = "PENDING" /\ raw' = "PENDING"
    BY <1>4 DEF SaveDocument, txVars
  <2> QED
    BY <2>1 DEF EvidenceInv, Elsewhere, Terminal
<1>5. ASSUME Confirm(p) \/ FailPayout(p) PROVE EvidenceInv'
  BY <1>5 DEF Confirm, FailPayout, payVars
<1> QED
  BY <1>1, <1>2, <1>3, <1>4, <1>5 DEF PayoutStep

LEMMA RefundStepEvidence ==
    ASSUME NEW p \in Procs, TypeOK, EvidenceInv, RefundStep(p) PROVE EvidenceInv'
<1>1. Unread(p)
  <2> USE Moves
  <2>1. ASSUME Mark(p) \/ Credit(p) \/ Unmark(p) PROVE Unread(p)
    BY <2>1 DEF Mark, Credit, Unmark, Unread, payVars
  <2>2. ASSUME FailToCredit(p) PROVE Unread(p)
    BY <2>2 DEF FailToCredit, Unread, payVars, txVars, Suffer
  <2>3. ASSUME Reject(p) PROVE Unread(p)
    BY <2>3 DEF Reject, Unread, payVars, Elsewhere
  <2>4. ASSUME BulkReject(p) PROVE Unread(p)
    BY <2>4 DEF BulkReject, Unread, payVars, Elsewhere
  <2> QED
    BY <2>1, <2>2, <2>3, <2>4 DEF RefundStep
<1> QED
  BY <1>1, UnreadKeeps

LEMMA VerifyStepEvidence ==
    ASSUME NEW p \in Procs, TypeOK, EvidenceInv, VerifyStep(p) PROVE EvidenceInv'
<1> USE Moves, SetStatusUnread, UnreadKeeps
<1>1. ASSUME NEW k, StartVerify(p, k) PROVE EvidenceInv'
  BY <1>1 DEF StartVerify, Unread, payVars, txVars, Elsewhere
<1>2. ASSUME LookFlutterwave(p) PROVE EvidenceInv'
  BY <1>2 DEF LookFlutterwave, Unread, payVars, txVars, Elsewhere
<1>3. ASSUME NEW v, seen' = [seen EXCEPT ![p] = v], v \in Terminal => v = transfer,
             \A q \in Procs \ {p} : pc'[q] = pc[q], pc'[p] # "forced",
             UNCHANGED <<transfer, sent, doc, raw, status, mishaps>>
      PROVE  EvidenceInv'
  BY <1>3 DEF EvidenceInv, TypeOK
<1>4. ASSUME LookMpesa(p) PROVE EvidenceInv'
  <2>1. CASE Throw(p)
    BY <1>4, <2>1 DEF LookMpesa, Unread, payVars, txVars
  <2>2. CASE seen' = [seen EXCEPT ![p] = raw] /\ Goto(p, "settle")
    BY <1>4, <2>2, <1>3 DEF LookMpesa, payVars, txVars, EvidenceInv
  <2> QED
    BY <1>4, <2>1, <2>2 DEF LookMpesa
<1>5. ASSUME Fetch(p) PROVE EvidenceInv'
  <2>1. CASE End(p)
    BY <1>5, <2>1 DEF Fetch, Unread, payVars, txVars
  <2>2. CASE seen' = [seen EXCEPT ![p] = transfer] /\ Goto(p, "write")
    <3>1. /\ UNCHANGED <<transfer, sent, doc, raw, status, mishaps>>
          /\ pc'[p] = "write" /\ \A q \in Procs \ {p} : pc'[q] = pc[q]
      BY <1>5, <2>2 DEF Fetch, payVars, txVars
    <3> QED
      BY <2>2, <3>1, <1>3
  <2> QED
    BY <1>5, <2>1, <2>2 DEF Fetch
<1>6. ASSUME FailToFetch(p) PROVE EvidenceInv'
  BY <1>6 DEF FailToFetch, Unread, Suffer, payVars, txVars
<1>7. ASSUME Write(p) PROVE EvidenceInv'
  <2>1. CASE ~Open
    BY <1>7, <2>1 DEF Write, Unread, txVars
  <2>2. CASE Open
    <3>1. /\ doc' = seen[p] /\ raw' \in Reported(p) /\ seen' = seen /\ pc'[p] = "settle"
          /\ Elsewhere(p) /\ UNCHANGED <<status, sent, transfer, mishaps>>
      BY <1>7, <2>2 DEF Write, txVars
    <3>2. raw' \in Terminal => raw' = seen[p]
      BY <3>1 DEF Reported, Terminal
    <3> QED
      BY <3>1, <3>2 DEF EvidenceInv, Elsewhere, Terminal
  <2> QED
    BY <2>1, <2>2
<1>8. ASSUME Settle(p) PROVE EvidenceInv'
  <2>0. UNCHANGED <<transfer, sent, doc, raw, mishaps>>
    BY <1>8 DEF Settle, payVars
  <2>1. CASE seen[p] = "SUCCESSFUL" /\ SetStatus(p, "PAYOUTSUCCESS")
    <3>1. transfer = "SUCCESSFUL"
      BY <2>1 DEF EvidenceInv, Terminal
    <3>2. Elsewhere(p) /\ seen'[p] \in {None, seen[p]} /\ pc'[p] # "forced"
      BY <2>1 DEF SetStatus
    <3> QED
      BY <2>0, <3>1, <3>2 DEF EvidenceInv, Elsewhere, None, Terminal
  <2>2. CASE \E s \in {"PAYOUTERROR", "PAYOUTPENDING"} : SetStatus(p, s)
    BY <2>0, <2>2
  <2>3. CASE End(p) /\ UNCHANGED <<txVars, aged>>
    BY <2>0, <2>3 DEF Unread, txVars
  <2> QED
    BY <1>8, <2>1, <2>2, <2>3 DEF Settle
<1>9. ASSUME Callback(p) PROVE EvidenceInv'
  <2>1. PICK s \in Outcomes : seen' = [seen EXCEPT ![p] = s]
    BY <1>9 DEF Callback
  <2>2. s \in Terminal => s = transfer
    BY <2>1 DEF Outcomes, Terminal
  <2>3. /\ UNCHANGED <<transfer, sent, doc, raw, status, mishaps>>
        /\ pc'[p] = "write" /\ \A q \in Procs \ {p} : pc'[q] = pc[q]
    BY <1>9 DEF Callback, txVars
  <2> QED
    BY <2>1, <2>2, <2>3, <1>3
<1>10. ASSUME ForceFail(p) PROVE EvidenceInv'
  <2>1. /\ "forced" \in mishaps' /\ mishaps \subseteq mishaps' /\ doc' = "FAILED"
        /\ UNCHANGED <<transfer, sent, raw, status, seen>>
    BY <1>10 DEF ForceFail, txVars
  <2> QED
    BY <2>1 DEF EvidenceInv
<1>11. ASSUME FailForced(p) PROVE EvidenceInv'
  BY <1>11 DEF FailForced, payVars
<1> QED
  BY <1>1, <1>2, <1>4, <1>5, <1>6, <1>7, <1>8, <1>9, <1>10, <1>11 DEF VerifyStep

LEMMA TxCronStepEvidence ==
    ASSUME NEW p \in Procs, TypeOK, EvidenceInv, TxCronStep(p) PROVE EvidenceInv'
<1> USE Moves, SetStatusUnread, UnreadKeeps
<1>1. ASSUME StartTxCron(p) PROVE EvidenceInv'
  BY <1>1 DEF StartTxCron, Unread, payVars, txVars, Elsewhere
<1>2. ASSUME TxLook(p) PROVE EvidenceInv'
  <2>0. UNCHANGED <<transfer, sent, doc, raw, mishaps>>
    BY <1>2 DEF TxLook, payVars
  <2>1. CASE doc = "SUCCESSFUL" /\ SetStatus(p, "PAYOUTSUCCESS")
    <3>1. Elsewhere(p) /\ seen'[p] \in {None, seen[p]} /\ pc'[p] # "forced"
      BY <2>1 DEF SetStatus
    <3> QED
      BY <2>0, <2>1, <3>1 DEF EvidenceInv, Elsewhere, None, Terminal
  <2>2. CASE \E s \in {"PAYOUTERROR", "PAYOUTCLOSED"} : SetStatus(p, s)
    BY <2>0, <2>2
  <2>3. CASE (End(p) \/ Continue(p, "txFetch")) /\ UNCHANGED <<txVars, aged>>
    BY <2>0, <2>3 DEF Unread, txVars
  <2> QED
    BY <1>2, <2>1, <2>2, <2>3 DEF TxLook
<1>3. ASSUME TxFetch(p) PROVE EvidenceInv'
  <2>1. CASE End(p)
    BY <1>3, <2>1 DEF TxFetch, Unread, payVars, txVars
  <2>2. CASE seen' = [seen EXCEPT ![p] = transfer] /\ Goto(p, "txWrite")
    BY <1>3, <2>2 DEF TxFetch, payVars, txVars, EvidenceInv, TypeOK
  <2> QED
    BY <1>3, <2>1, <2>2 DEF TxFetch
<1>4. ASSUME TxWrite(p) PROVE EvidenceInv'
  <2>1. /\ doc' \in {seen[p], doc} /\ seen' = seen /\ Elsewhere(p) /\ pc'[p] = "settle"
        /\ UNCHANGED <<status, sent, transfer, raw, mishaps>>
    BY <1>4 DEF TxWrite, txVars
  <2> QED
    BY <2>1 DEF EvidenceInv, Elsewhere, Terminal
<1> QED
  BY <1>1, <1>2, <1>3, <1>4 DEF TxCronStep

LEMMA EvidenceHolds == Spec => []EvidenceInv
<1>1. Init => EvidenceInv
  BY DEF Init, EvidenceInv, None, Terminal
<1>2. TypeOK /\ ClaimInv /\ EvidenceInv /\ [Next]_vars => EvidenceInv'
  <2> SUFFICES ASSUME TypeOK, ClaimInv, EvidenceInv, [Next]_vars PROVE EvidenceInv'
    OBVIOUS
  <2>1. CASE UNCHANGED vars
    BY <2>1 DEF EvidenceInv, vars, txVars, payVars
  <2>2. ASSUME NEW p \in Procs, Crash(p) PROVE EvidenceInv'
    BY <2>2, Moves, UnreadKeeps DEF Crash, Suffer, Unread, payVars, txVars
  <2>3. ASSUME NEW p \in Procs, Begin(p) \/ Advance(p) \/ Fault(p) PROVE EvidenceInv'
    BY <2>2, <2>3, StepOfProcess, PayoutStepEvidence, RefundStepEvidence,
       VerifyStepEvidence, TxCronStepEvidence
  <2>4. ASSUME NEW s \in TransferStatuses, Progress(s) PROVE EvidenceInv'
    BY <2>4 DEF Progress, EvidenceInv, txVars, Terminal, None
  <2>5. ASSUME Age PROVE EvidenceInv'
    BY <2>5 DEF Age, EvidenceInv, txVars, payVars
  <2> QED
    BY <2>1, <2>3, <2>4, <2>5 DEF Next
<1> QED
  BY <1>1, <1>2, PayoutTypeCorrect, ClaimInvHolds, PTL DEF Spec

(* A transaction reported as paid was paid.                                *)
THEOREM ReportedIsPaid == Spec => []SuccessIsPaid
<1>1. EvidenceInv => SuccessIsPaid
  BY DEF EvidenceInv, SuccessIsPaid
<1> QED
  BY <1>1, EvidenceHolds, PTL

----
(* Why money goes back: the order was refused, the transfer failed, or one *)
(* of the mishaps that PaidAndRefundedNeedsMishap names happened.          *)
Misled == mishaps \cap {"lostAnswer", "write", "forced"} # {}
NeverSent == transfer = None /\ status # "PAYINSUCCESS" /\ \A p \in Procs : pc[p] # "post"
Lost == Misled \/ transfer = "FAILED" \/ NeverSent
Returning == Refunding \cup {"error"}

CauseInv ==
    refunded \/ marked \/ (\E p \in Procs : pc[p] \in Returning) => Lost

LEMMA LostStays ==
    ASSUME TypeOK, ClaimInv, EvidenceInv, Lost, Next PROVE Lost'
<1>1. mishaps \subseteq mishaps'
  BY DEF Next, Begin, Advance, Fault, Claim, Reject, BulkReject, StartVerify, StartTxCron,
         Callback, Post, Refuse, SaveDocument, Confirm, FailPayout, Mark, Credit, Unmark,
         LookFlutterwave, LookMpesa, Fetch, Write, Settle, ForceFail, FailForced, TxLook,
         TxFetch, TxWrite, LoseAnswer, FailToWrite, FailToCredit, FailToFetch, Crash, Suffer,
         Progress, Age
<1>2. CASE Misled
  BY <1>1, <1>2 DEF Misled, Lost
<1>3. ASSUME NEW p \in Procs, Post(p) \/ LoseAnswer(p) PROVE Lost'
  <2>1. transfer = None /\ ~NeverSent
    BY <1>3 DEF Post, LoseAnswer, ClaimInv, EvidenceInv, NeverSent
  <2> QED
    BY <1>2, <2>1 DEF Lost, None
<1>4. ASSUME NEW p \in Procs, Claim(p) PROVE Lost'
  <2>1. transfer' = transfer /\ ~NeverSent
    BY <1>4 DEF Claim, Claimable, payVars, NeverSent
  <2> QED
    BY <1>2, <2>1 DEF Lost
<1>5. ASSUME NEW p \in Procs, Begin(p) \/ Advance(p) \/ Fault(p) PROVE Lost'
  <2>1. CASE Claim(p) \/ Post(p) \/ LoseAnswer(p)
    BY <1>3, <1>4, <2>1
  <2>2. CASE ~Claim(p) /\ ~Post(p) /\ ~LoseAnswer(p)
    <3>1. Harmless
      BY <1>5, <2>2, StepIsHarmless
    <3>2. transfer' = transfer
      BY <1>5, <2>2
         DEF Begin, Advance, Fault, Reject, BulkReject, StartVerify, StartTxCron,
             Callback, Refuse, SaveDocument, Confirm, FailPayout, Mark, Credit, Unmark,
             LookFlutterwave, LookMpesa, Fetch, Write, Settle, ForceFail, FailForced, TxLook,
             TxFetch, TxWrite, FailToWrite, FailToCredit, FailToFetch, Crash, payVars
    <3>3. status # "PAYINSUCCESS" => status' # "PAYINSUCCESS"
      BY <1>5, <2>2
         DEF Begin, Advance, Fault, Reject, BulkReject, StartVerify, StartTxCron,
             Callback, Refuse, SaveDocument, Confirm, FailPayout, Mark, Credit, Unmark,
             LookFlutterwave, LookMpesa, Fetch, Write, Settle, ForceFail, FailForced, TxLook,
             TxFetch, TxWrite, FailToWrite, FailToCredit, FailToFetch, Crash, SetStatus, txVars
    <3> QED
      BY <1>2, <3>1, <3>2, <3>3 DEF Lost, NeverSent, Harmless, NobodyJoins
  <2> QED
    BY <2>1, <2>2
<1>6. ASSUME NEW s \in TransferStatuses, Progress(s) PROVE Lost'
  BY <1>2, <1>6 DEF Progress, Lost, NeverSent, None
<1>7. ASSUME Age PROVE Lost'
  BY <1>2, <1>7 DEF Age, Lost, NeverSent, payVars, txVars
<1> QED
  BY <1>5, <1>6, <1>7 DEF Next

(* No step but these gives a reason to return the money.                   *)
NoReason(p) ==
    /\ \A q \in Procs \ {p} : pc'[q] = pc[q]
    /\ pc'[p] \in Returning => pc[p] \in Returning
    /\ (refunded' /\ ~refunded) \/ (marked' /\ ~marked) => pc[p] \in Returning

LEMMA CauseStep ==
    ASSUME TypeOK, ClaimInv, EvidenceInv, CauseInv, Next PROVE CauseInv'
<1>1. ASSUME NEW p \in Procs, NoReason(p) PROVE CauseInv'
  BY <1>1, LostStays DEF NoReason, CauseInv
<1>2. Lost => CauseInv'
  BY LostStays DEF CauseInv
<1>3. ASSUME Lost' PROVE CauseInv'
  BY <1>3 DEF CauseInv
<1> USE Moves DEF Returning, Refunding, Elsewhere
<1>4. ASSUME NEW p \in Procs, NEW s \in {"PAYOUTPENDING", "PAYOUTSUCCESS", "PAYOUTCLOSED"},
             SetStatus(p, s)
      PROVE  NoReason(p)
  BY <1>4 DEF SetStatus, NoReason
<1>5. ASSUME NEW p \in Procs, PayoutStep(p) PROVE CauseInv'
  <2>1. ASSUME Claim(p) \/ Post(p) \/ SaveDocument(p) PROVE NoReason(p)
    BY <2>1 DEF Claim, Post, SaveDocument, NoReason, txVars
  <2>2. ASSUME Refuse(p) PROVE Lost'
    <3>1. pc[p] = "post" /\ transfer' = transfer /\ status' = status /\ pc'[p] = "error"
      BY <2>2 DEF Refuse, payVars, txVars
    <3>2. transfer = None /\ status # "PAYINSUCCESS"
      BY <3>1 DEF ClaimInv, EvidenceInv, Unclaimed, Paying
    <3>3. \A q \in Procs : pc'[q] # "post"
      BY <2>2, <3>1 DEF Refuse, ClaimInv, Paying
    <3> QED
      BY <3>1, <3>2, <3>3 DEF Lost, NeverSent
  <2>3. ASSUME LoseAnswer(p) \/ FailToWrite(p) PROVE Lost'
    BY <2>3 DEF LoseAnswer, FailToWrite, Suffer, Lost, Misled
  <2>4. ASSUME Confirm(p) PROVE NoReason(p)
    BY <1>4, <2>4 DEF Confirm
  <2>5. ASSUME FailPayout(p) PROVE Lost
    BY <2>5 DEF FailPayout, CauseInv
  <2> QED
    BY <1>1, <1>2, <1>3, <1>5, <2>1, <2>2, <2>3, <2>4, <2>5 DEF PayoutStep
<1>6. ASSUME NEW p \in Procs, RefundStep(p) PROVE CauseInv'
  <2>1. ASSUME Mark(p) \/ Credit(p) \/ FailToCredit(p) \/ Unmark(p) PROVE NoReason(p)
    BY <2>1 DEF Mark, Credit, FailToCredit, Unmark, NoReason, txVars
  <2>2. ASSUME Reject(p) PROVE Lost'
    <3>1. pc[p] = "idle" /\ status = "PAYINSUCCESS" /\ transfer' = transfer
          /\ status' = "PAYOUTREJECTED" /\ pc' = [pc EXCEPT ![p] = "mark"]
      BY <2>2 DEF Reject, Start, Goto, Claimable, payVars
    <3>2. transfer = None /\ \A q \in Procs : pc[q] # "post"
      BY <3>1 DEF ClaimInv, EvidenceInv, Unclaimed, Paying
    <3> QED
      BY <3>1, <3>2 DEF Lost, NeverSent, TypeOK
  <2>3. ASSUME BulkReject(p) PROVE NoReason(p)
    BY <2>3 DEF BulkReject, NoReason
  <2> QED
    BY <1>1, <1>3, <1>6, <2>1, <2>2, <2>3 DEF RefundStep
<1>7. ASSUME NEW p \in Procs, VerifyStep(p) PROVE CauseInv'
  <2>1. ASSUME NEW k, StartVerify(p, k) PROVE NoReason(p)
    BY <2>1 DEF StartVerify, NoReason, txVars
  <2>2. ASSUME LookFlutterwave(p) \/ LookMpesa(p) \/ Fetch(p) \/ FailToFetch(p) PROVE NoReason(p)
    BY <2>2 DEF LookFlutterwave, LookMpesa, Fetch, FailToFetch, NoReason, txVars
  <2>3. ASSUME Write(p) \/ Callback(p) \/ ForceFail(p) PROVE NoReason(p)
    BY <2>3 DEF Write, Callback, ForceFail, NoReason, txVars
  <2>4. ASSUME Settle(p) PROVE Lost \/ NoReason(p)
    <3>1. CASE seen[p] = "FAILED"
      BY <3>1 DEF EvidenceInv, Terminal, Lost
    <3>2. CASE End(p) /\ UNCHANGED <<txVars, aged>>
      BY <3>2 DEF NoReason, txVars
    <3> QED
      BY <1>4, <2>4, <3>1, <3>2 DEF Settle
  <2>5. ASSUME FailForced(p) PROVE Lost
    BY <2>5 DEF FailForced, EvidenceInv, Lost, Misled
  <2> QED
    BY <1>1, <1>2, <1>7, <2>1, <2>2, <2>3, <2>4, <2>5 DEF VerifyStep
<1>8. ASSUME NEW p \in Procs, TxCronStep(p) PROVE CauseInv'
  <2>1. ASSUME StartTxCron(p) \/ TxFetch(p) \/ TxWrite(p) PROVE NoReason(p)
    BY <2>1 DEF StartTxCron, TxFetch, TxWrite, NoReason, txVars
  <2>2. ASSUME TxLook(p) PROVE Lost \/ NoReason(p)
    <3>1. CASE doc = "FAILED"
      BY <3>1 DEF EvidenceInv, Lost, Misled
    <3>2. CASE (End(p) \/ Continue(p, "txFetch")) /\ UNCHANGED <<txVars, aged>>
      BY <3>2 DEF NoReason, txVars
    <3> QED
      BY <1>4, <2>2, <3>1, <3>2 DEF TxLook
  <2> QED
    BY <1>1, <1>2, <1>8, <2>1, <2>2 DEF TxCronStep
<1>9. ASSUME NEW p \in Procs, Crash(p) PROVE NoReason(p)
  BY <1>9 DEF Crash, NoReason, txVars
<1>10. ASSUME NEW p \in Procs, Begin(p) \/ Advance(p) \/ Fault(p) PROVE CauseInv'
  BY <1>1, <1>5, <1>6, <1>7, <1>8, <1>9, <1>10, StepOfProcess
<1>11. ASSUME NEW s \in TransferStatuses, Progress(s) PROVE CauseInv'
  BY <1>11, LostStays DEF Progress, CauseInv, txVars
<1>12. ASSUME Age PROVE CauseInv'
  BY <1>12, LostStays DEF Age, CauseInv, txVars
<1> QED
  BY <1>10, <1>11, <1>12 DEF Next

LEMMA CauseHolds == Spec => []CauseInv
<1>1. Init => CauseInv
  BY DEF Init, CauseInv, Returning, Refunding
<1>2. TypeOK /\ ClaimInv /\ EvidenceInv /\ CauseInv /\ [Next]_vars => CauseInv'
  <2>1. CauseInv /\ UNCHANGED vars => CauseInv'
    BY DEF CauseInv, Lost, Misled, NeverSent, vars, txVars, payVars
  <2> QED
    BY <2>1, CauseStep
<1> QED
  BY <1>1, <1>2, PayoutTypeCorrect, ClaimInvHolds, EvidenceHolds, PTL DEF Spec

(* Money is not both paid out and given back unless the order's answer was *)
(* lost, a write of payout() failed or the cron forced a failure.          *)
THEOREM NeverPaidAndRefunded == Spec => []PaidAndRefundedNeedsMishap
<1>1. EvidenceInv /\ CauseInv => PaidAndRefundedNeedsMishap
  BY DEF CauseInv, Lost, Misled, NeverSent, None, PaidAndRefundedNeedsMishap
<1> QED
  BY <1>1, EvidenceHolds, CauseHolds, PTL

----
(* What a job at work on the payout document may count on.                 *)
WithDoc == {"confirm", "look", "fetch", "write", "settle", "force", "txFetch", "txWrite"}

DocInv ==
    /\ doc # None => transfer # None
    /\ \A p \in Procs :
        /\ pc[p] = "save" => transfer # None
        /\ pc[p] \in WithDoc => doc # None
        /\ pc[p] \in {"write", "txWrite"} => seen[p] # None
        /\ job[p] = "cron" => doc # None

(* A step of p that leaves the documents where they are, or behind it.     *)
Filed(p) ==
    /\ Elsewhere(p) /\ (transfer # None => transfer' # None)
    /\ doc' = doc \/ (doc' # None /\ transfer # None)
    /\ pc'[p] = "save" => transfer' # None
    /\ pc'[p] \in WithDoc => doc' # None
    /\ pc'[p] \in {"write", "txWrite"} => seen'[p] # None
    /\ \A q \in Procs : job'[q] = "cron" => job[q] = "cron" \/ doc' # None

LEMMA FiledKeeps == ASSUME NEW p \in Procs, DocInv, Filed(p) PROVE DocInv'
BY DEF DocInv, Filed, Elsewhere

LEMMA JobMoves ==
    ASSUME NEW p \in Procs, TypeOK
    PROVE  /\ UNCHANGED job \/ End(p) \/ Throw(p) \/ (\E l : Continue(p, l))
              => \A q \in Procs : job'[q] = "cron" => job[q] = "cron"
           /\ \A k : Start(p, k) => \A q \in Procs : job'[q] = "cron" =>
                                      job[q] = "cron" \/ k = "cron"
           /\ Throw(p) /\ pc'[p] = "force" => job[p] = "cron"
<1>1. End(p) => pc'[p] # "force" /\ \A q \in Procs : job'[q] = "cron" => job[q] = "cron"
  BY Moves DEF End, TypeOK, None
<1>2. \A k : Start(p, k) => \A q \in Procs : job'[q] = "cron" => job[q] = "cron" \/ k = "cron"
  BY DEF Start, TypeOK
<1> QED
  BY <1>1, <1>2 DEF Throw, Continue

LEMMA DocStep ==
    ASSUME TypeOK, DocInv, NEW p \in Procs, Begin(p) \/ Advance(p) \/ Fault(p)
    PROVE  Filed(p)
<1> USE Moves, JobMoves DEF Filed, WithDoc
<1>0. job[p] = "cron" => doc # None
  BY DEF DocInv
<1>1. ASSUME NEW s, SetStatus(p, s), UNCHANGED <<transfer, doc>> PROVE Filed(p)
  BY <1>1 DEF SetStatus
<1>2. ASSUME PayoutStep(p) PROVE Filed(p)
  <2>1. ASSUME Claim(p) \/ Refuse(p) \/ FailToWrite(p) PROVE Filed(p)
    BY <2>1 DEF Claim, Refuse, FailToWrite, payVars, Elsewhere
  <2>2. ASSUME Post(p) \/ LoseAnswer(p) PROVE Filed(p)
    <3>1. /\ transfer' # None /\ doc' = doc /\ Elsewhere(p) /\ pc'[p] \in {"save", "error"}
          /\ UNCHANGED job
      BY <2>2 DEF Post, LoseAnswer, TakeOrder, FirstStatus, None, Continue
    <3> QED
      BY <3>1
  <2>3. ASSUME SaveDocument(p) PROVE Filed(p)
    BY <2>3 DEF SaveDocument, DocInv, None
  <2>4. ASSUME Confirm(p) \/ FailPayout(p) PROVE Filed(p)
    BY <1>1, <2>4 DEF Confirm, FailPayout, payVars
  <2> QED
    BY <1>2, <2>1, <2>2, <2>3, <2>4 DEF PayoutStep
<1>3. ASSUME RefundStep(p) PROVE Filed(p)
  <2>1. ASSUME Mark(p) \/ Credit(p) \/ FailToCredit(p) \/ Unmark(p) PROVE Filed(p)
    BY <1>0, <2>1 DEF Mark, Credit, FailToCredit, Unmark, payVars
  <2>2. ASSUME Reject(p) \/ BulkReject(p) PROVE Filed(p)
    BY <2>2 DEF Reject, BulkReject, payVars, Elsewhere, DocInv
  <2> QED
    BY <1>3, <2>1, <2>2 DEF RefundStep
<1>4. ASSUME VerifyStep(p) PROVE Filed(p)
  <2>1. ASSUME NEW k \in {"cron", "poll", "check"}, StartVerify(p, k) PROVE Filed(p)
    <3>1. doc # None
      BY <2>1 DEF StartVerify, Listed, None
    <3>2. /\ UNCHANGED <<transfer, doc>> /\ Elsewhere(p) /\ pc'[p] = "look"
      BY <2>1 DEF StartVerify, payVars, Elsewhere
    <3> QED
      BY <3>1, <3>2
  <2>2. ASSUME LookFlutterwave(p) \/ FailToFetch(p) PROVE Filed(p)
    BY <1>0, <2>2 DEF LookFlutterwave, FailToFetch, payVars, Elsewhere, DocInv
  <2>3. ASSUME LookMpesa(p) PROVE Filed(p)
    <3>1. doc # None /\ UNCHANGED <<transfer, doc>>
      BY <2>3 DEF LookMpesa, DocInv, payVars
    <3>2. Throw(p) \/ (seen' = [seen EXCEPT ![p] = raw] /\ Goto(p, "settle"))
      BY <2>3 DEF LookMpesa
    <3> QED
      BY <3>1, <3>2 DEF Elsewhere, TypeOK
  <2>4. ASSUME Fetch(p) PROVE Filed(p)
    <3>1. doc # None /\ transfer # None /\ UNCHANGED <<transfer, doc>>
      BY <2>4 DEF Fetch, DocInv, payVars
    <3>2. End(p) \/ (seen' = [seen EXCEPT ![p] = transfer] /\ Goto(p, "write"))
      BY <2>4 DEF Fetch
    <3> QED
      BY <3>1, <3>2 DEF Elsewhere, TypeOK
  <2>5. ASSUME Write(p) PROVE Filed(p)
    <3>1. seen[p] # None /\ doc # None /\ transfer # None
      BY <2>5 DEF Write, DocInv
    <3>2. /\ transfer' = transfer /\ Elsewhere(p) /\ doc' \in {doc, seen[p]}
          /\ pc'[p] \in {"settle", "idle", "force"}
          /\ \A q \in Procs : job'[q] = "cron" => job[q] = "cron"
      BY <2>5 DEF Write
    <3> QED
      BY <3>1, <3>2
  <2>6. ASSUME Callback(p) PROVE Filed(p)
    <3>1. PICK s \in Outcomes : seen' = [seen EXCEPT ![p] = s]
      BY <2>6 DEF Callback
    <3>2. s # None /\ doc # None /\ UNCHANGED <<transfer, doc>>
      BY <2>6, <3>1 DEF Callback, Outcomes, None, Terminal
    <3>3. pc'[p] = "write" /\ \A q \in Procs \ {p} : pc'[q] = pc[q]
      BY <2>6 DEF Callback
    <3> QED
      BY <3>1, <3>2, <3>3 DEF Elsewhere, TypeOK
  <2>7. ASSUME Settle(p) PROVE Filed(p)
    BY <1>1, <2>7 DEF Settle, payVars
  <2>8. ASSUME ForceFail(p) PROVE Filed(p)
    <3>1. /\ doc' = "FAILED" /\ transfer' = transfer /\ pc'[p] = "forced"
          /\ Elsewhere(p) /\ pc[p] = "force" /\ UNCHANGED job
      BY <2>8 DEF ForceFail, Elsewhere
    <3> QED
      BY <3>1 DEF None, DocInv
  <2>9. ASSUME FailForced(p) PROVE Filed(p)
    BY <1>1, <2>9 DEF FailForced, payVars
  <2> QED
    BY <1>4, <2>1, <2>2, <2>3, <2>4, <2>5, <2>6, <2>7, <2>8, <2>9 DEF VerifyStep
<1>5. ASSUME TxCronStep(p) PROVE Filed(p)
  <2>1. ASSUME StartTxCron(p) PROVE Filed(p)
    BY <2>1 DEF StartTxCron, payVars, Elsewhere
  <2>2. ASSUME TxLook(p) PROVE Filed(p)
    <3>1. UNCHANGED <<transfer, doc>>
      BY <2>2 DEF TxLook, payVars
    <3>2. \/ \E s : SetStatus(p, s)
          \/ doc # None /\ (End(p) \/ Continue(p, "txFetch"))
      BY <2>2 DEF TxLook, None
    <3> QED
      BY <1>1, <3>1, <3>2
  <2>3. ASSUME TxFetch(p) PROVE Filed(p)
    <3>0. doc # None
      BY <2>3 DEF TxFetch, DocInv
    <3>1. End(p) \/ (seen' = [seen EXCEPT ![p] = transfer] /\ transfer \in Terminal
                     /\ Goto(p, "txWrite"))
      BY <2>3 DEF TxFetch
    <3>2. UNCHANGED <<transfer, doc>>
      BY <2>3 DEF TxFetch, payVars
    <3>3. CASE End(p)
      BY <3>2, <3>3
    <3>4. CASE ~End(p)
      <4>1. /\ seen' = [seen EXCEPT ![p] = transfer] /\ transfer # None
            /\ Goto(p, "txWrite") /\ UNCHANGED job
        BY <2>3, <3>1, <3>4 DEF TxFetch, Terminal, None
      <4> QED
        BY <3>0, <3>2, <4>1 DEF Elsewhere, TypeOK
    <3> QED
      BY <3>3, <3>4
  <2>4. ASSUME TxWrite(p) PROVE Filed(p)
    <3>1. seen[p] # None /\ doc # None /\ transfer # None
      BY <2>4 DEF TxWrite, DocInv
    <3>2. /\ transfer' = transfer /\ Elsewhere(p) /\ doc' \in {doc, seen[p]}
          /\ pc'[p] = "settle" /\ UNCHANGED job
      BY <2>4 DEF TxWrite, Continue
    <3> QED
      BY <3>1, <3>2
  <2> QED
    BY <1>5, <2>1, <2>2, <2>3, <2>4 DEF TxCronStep
<1>6. ASSUME Crash(p) PROVE Filed(p)
  BY <1>6 DEF Crash, payVars
<1> QED
  BY <1>2, <1>3, <1>4, <1>5, <1>6, StepOfProcess

LEMMA DocHolds == Spec => []DocInv
<1>1. Init => DocInv
  BY DEF Init, DocInv, None, WithDoc
<1>2. TypeOK /\ DocInv /\ [Next]_vars => DocInv'
  <2> SUFFICES ASSUME TypeOK, DocInv, [Next]_vars PROVE DocInv'
    OBVIOUS
  <2>1. CASE UNCHANGED vars
    BY <2>1 DEF DocInv, vars, payVars
  <2>2. ASSUME NEW p \in Procs, Begin(p) \/ Advance(p) \/ Fault(p) PROVE DocInv'
    BY <2>2, DocStep, FiledKeeps
  <2>3. ASSUME NEW s \in TransferStatuses, Progress(s) PROVE DocInv'
    BY <2>3 DEF Progress, DocInv, None
  <2>4. ASSUME Age PROVE DocInv'
    BY <2>4 DEF Age, DocInv, payVars
  <2> QED
    BY <2>1, <2>2, <2>3, <2>4 DEF Next
<1> QED
  BY <1>1, <1>2, PayoutTypeCorrect, PTL DEF Spec

----
(* Once a transaction was not written for eight hours nobody pays it, so   *)
(* that its cron closes nothing that is on its way.                        *)
Abandoned == status # "PAYINSUCCESS" /\ \A p \in Procs : pc[p] \notin Paying

AgeInv ==
    /\ "tx" \in aged => Abandoned
    /\ \A p \in Procs : pc[p] = "txLook" => Abandoned

LEMMA AbandonedStays ==
    ASSUME TypeOK, Abandoned, NEW p \in Procs, Begin(p) \/ Advance(p) \/ Fault(p)
    PROVE  Abandoned'
<1>1. ~Claim(p) /\ ~Post(p) /\ ~LoseAnswer(p)
  BY DEF Abandoned, Claim, Claimable, Post, LoseAnswer, Paying
<1>2. Harmless
  BY <1>1, StepIsHarmless
<1>3. status' # "PAYINSUCCESS"
  BY <1>1
     DEF Begin, Advance, Fault, Reject, BulkReject, StartVerify, StartTxCron,
         Callback, Refuse, SaveDocument, Confirm, FailPayout, Mark, Credit, Unmark,
         LookFlutterwave, LookMpesa, Fetch, Write, Settle, ForceFail, FailForced, TxLook,
         TxFetch, TxWrite, FailToWrite, FailToCredit, FailToFetch, Crash, SetStatus, txVars,
         Abandoned
<1> QED
  BY <1>2, <1>3 DEF Abandoned, Harmless, NobodyJoins

LEMMA AgeStep ==
    ASSUME TypeOK, AgeInv, NEW p \in Procs, Begin(p) \/ Advance(p) \/ Fault(p)
    PROVE  AgeInv'
<1>1. "tx" \in aged' => "tx" \in aged /\ ~Claim(p)
  BY DEF Begin, Advance, Fault, Claim, Reject, BulkReject, StartVerify, StartTxCron, Callback,
         Post, Refuse, LoseAnswer, SaveDocument, Confirm, FailPayout, Mark, Credit, Unmark,
         LookFlutterwave, LookMpesa, Fetch, Write, Settle, ForceFail, FailForced, TxLook,
         TxFetch, TxWrite, FailToWrite, FailToCredit, FailToFetch, Crash, SetStatus
<1>2. ASSUME NEW q \in Procs, pc'[q] = "txLook" PROVE pc[q] = "txLook" \/ "tx" \in aged
  <2> USE Moves DEF Elsewhere
  <2>1. ASSUME NEW s, SetStatus(p, s) PROVE pc'[q] = pc[q] \/ pc'[q] # "txLook"
    BY <2>1 DEF SetStatus
  <2>2. CASE PayoutStep(p)
    BY <1>2, <2>1, <2>2
       DEF PayoutStep, Claim, Post, Refuse, LoseAnswer, SaveDocument, Confirm, FailToWrite,
           FailPayout
  <2>3. CASE RefundStep(p)
    BY <1>2, <2>3 DEF RefundStep, Mark, Credit, FailToCredit, Unmark, Reject, BulkReject
  <2>4. CASE VerifyStep(p)
    <3>1. CASE Settle(p) \/ FailForced(p)
      BY <1>2, <2>1, <3>1 DEF Settle, FailForced
    <3> QED
      BY <1>2, <2>4, <3>1
         DEF VerifyStep, StartVerify, LookFlutterwave, LookMpesa, Fetch, FailToFetch, Write,
             Callback, ForceFail
  <2>5. CASE TxCronStep(p)
    BY <1>2, <2>1, <2>5 DEF TxCronStep, StartTxCron, TxLook, TxFetch, TxWrite
  <2>6. CASE Crash(p)
    BY <1>2, <2>6 DEF Crash
  <2> QED
    BY <2>2, <2>3, <2>4, <2>5, <2>6, StepOfProcess
<1> QED
  BY <1>1, <1>2, AbandonedStays DEF AgeInv

LEMMA AgeHolds == Spec => []AgeInv
<1>1. Init => AgeInv
  BY DEF Init, AgeInv
<1>2. TypeOK /\ AgeInv /\ [Next]_vars => AgeInv'
  <2>1. AgeInv /\ UNCHANGED vars => AgeInv'
    BY DEF AgeInv, Abandoned, vars, txVars
  <2>2. ASSUME AgeInv, NEW s \in TransferStatuses, Progress(s) PROVE AgeInv'
    BY <2>2 DEF Progress, AgeInv, Abandoned, txVars
  <2>3. ASSUME AgeInv, Age PROVE AgeInv'
    BY <2>3 DEF Age, AgeInv, Abandoned, txVars
  <2> QED
    BY <2>1, <2>2, <2>3, AgeStep DEF Next
<1> QED
  BY <1>1, <1>2, PayoutTypeCorrect, PTL DEF Spec

----
(* Who still has to return the money: an unpaid transaction that was not   *)
(* refunded has a job at its refund; one that is marked has a job at its   *)
(* credit; and one that is under way without a document has a payer.       *)
Excused == mishaps \cap {"crash", "credit", "bulkReject"} # {}
Squared == refunded \/ Excused
Unpaid == {"PAYOUTERROR", "PAYOUTCLOSED", "PAYOUTREJECTED"}
BeforeDoc == {"post", "save", "error"}

RefundInv ==
    /\ status \in Unpaid => Squared \/ \E p \in Procs : pc[p] \in {"mark", "credit"}
    /\ marked => Squared \/ \E p \in Procs : pc[p] = "credit"
    /\ \A p \in Procs : pc[p] = "unmark" => "credit" \in mishaps
    /\ status = "PAYOUTPENDING" /\ doc = None =>
         "crash" \in mishaps \/ \E p \in Procs : pc[p] \in BeforeDoc

(* A step of a job that owes neither a refund nor a document.              *)
Aside(p) ==
    /\ pc[p] \notin {"mark", "credit"} \cup BeforeDoc /\ pc'[p] # "unmark"
    /\ \A q \in Procs \ {p} : pc'[q] = pc[q]
    /\ refunded' = refunded /\ marked' = marked /\ mishaps \subseteq mishaps'
    /\ doc' = doc \/ doc' # None
    /\ \/ status' = status \/ status' \notin Unpaid \cup {"PAYOUTPENDING"}
       \/ status' = "PAYOUTPENDING" /\ doc' # None
       \/ status' \in Unpaid /\ (pc'[p] = "mark" \/ status \in Unpaid \/ Excused')

LEMMA AsideKeeps == ASSUME NEW p \in Procs, RefundInv, Aside(p) PROVE RefundInv'
<1> USE DEF BeforeDoc
<1>1. \A q \in Procs : /\ pc[q] \in {"mark", "credit"} => pc'[q] = pc[q]
                       /\ pc[q] \in BeforeDoc => pc'[q] = pc[q]
                       /\ pc'[q] = "unmark" => pc[q] = "unmark"
  BY DEF Aside
<1>2. Squared => Squared'
  BY DEF Aside, Squared, Excused
<1>3. status' \in Unpaid => Squared' \/ \E q \in Procs : pc'[q] \in {"mark", "credit"}
  <2>1. CASE status \in Unpaid
    <3>1. Squared \/ \E q \in Procs : pc[q] \in {"mark", "credit"}
      BY <2>1 DEF RefundInv
    <3> QED
      BY <1>1, <1>2, <3>1
  <2> QED
    BY <2>1 DEF Aside, Squared, Unpaid
<1>4. marked' => Squared' \/ \E q \in Procs : pc'[q] = "credit"
  BY <1>1, <1>2 DEF RefundInv, Aside
<1>5. status' = "PAYOUTPENDING" /\ doc' = None =>
         "crash" \in mishaps' \/ \E q \in Procs : pc'[q] \in BeforeDoc
  BY <1>1 DEF RefundInv, Aside, Unpaid
<1>6. \A q \in Procs : pc'[q] = "unmark" => "credit" \in mishaps'
  BY <1>1 DEF RefundInv, Aside
<1> QED
  BY <1>3, <1>4, <1>5, <1>6 DEF RefundInv

LEMMA ErrorAside ==
    ASSUME TypeOK, NEW p \in Procs, pc[p] \notin {"mark", "credit"} \cup BeforeDoc,
           UNCHANGED <<doc, mishaps>>,
           \/ SetStatus(p, "PAYOUTERROR") \/ SetStatus(p, "PAYOUTSUCCESS")
           \/ SetStatus(p, "PAYOUTPENDING") /\ doc # None
    PROVE  Aside(p)
BY Moves DEF SetStatus, Aside, Elsewhere, Unpaid

LEMMA PayoutStepRefund ==
    ASSUME TypeOK, DocInv, RefundInv, NEW p \in Procs, PayoutStep(p) PROVE RefundInv'
<1> USE Moves DEF Elsewhere
<1>0. DOMAIN pc = Procs
  BY DEF TypeOK
<1>1. ASSUME \A q \in Procs \ {p} : pc'[q] = pc[q], pc[p] \notin {"mark", "credit"},
             pc'[p] \in BeforeDoc, UNCHANGED <<refunded, marked>>, mishaps \subseteq mishaps',
             status' \in {status, "PAYOUTPENDING"}
      PROVE  RefundInv'
  <2>1. \A q \in Procs : /\ pc[q] \in {"mark", "credit"} => pc'[q] = pc[q]
                         /\ pc'[q] = "unmark" => pc[q] = "unmark"
    BY <1>1 DEF BeforeDoc
  <2>2. Squared => Squared'
    BY <1>1 DEF Squared, Excused
  <2> QED
    BY <1>1, <2>1, <2>2 DEF RefundInv, Unpaid
<1>2. ASSUME Claim(p) PROVE RefundInv'
  BY <1>1, <1>2 DEF Claim, Start, payVars, BeforeDoc
<1>3. ASSUME Post(p) \/ Refuse(p) \/ LoseAnswer(p) PROVE RefundInv'
  BY <1>1, <1>3 DEF Post, Refuse, LoseAnswer, Suffer, BeforeDoc, txVars
<1>4. ASSUME FailToWrite(p) PROVE RefundInv'
  BY <1>1, <1>4 DEF FailToWrite, Suffer, BeforeDoc, txVars
<1>5. ASSUME SaveDocument(p) PROVE RefundInv'
  <2>1. /\ pc[p] = "save" /\ pc'[p] = "confirm" /\ doc' # None
        /\ \A q \in Procs \ {p} : pc'[q] = pc[q]
        /\ UNCHANGED <<status, refunded, marked, mishaps>>
    BY <1>5 DEF SaveDocument, txVars, None
  <2>2. \A q \in Procs : /\ pc[q] \in {"mark", "credit"} => pc'[q] = pc[q]
                         /\ pc'[q] = "unmark" => pc[q] = "unmark"
    BY <2>1
  <2> QED
    BY <2>1, <2>2 DEF RefundInv, Squared, Excused
<1>6. ASSUME Confirm(p) PROVE RefundInv'
  <2>1. doc # None /\ pc[p] = "confirm"
    BY <1>6 DEF Confirm, DocInv, WithDoc
  <2> QED
    BY <1>6, <2>1, ErrorAside, AsideKeeps DEF Confirm, payVars, BeforeDoc
<1>7. ASSUME FailPayout(p) PROVE RefundInv'
  <2>1. pc[p] = "error" /\ UNCHANGED <<refunded, marked, mishaps, doc>> /\ Elsewhere(p)
    BY <1>7 DEF FailPayout, SetStatus, payVars
  <2>2. \/ status' = "PAYOUTERROR" /\ pc'[p] = "mark"
        \/ status # "PAYOUTPENDING" /\ status' = status /\ pc'[p] = "idle"
    BY <1>7 DEF FailPayout, SetStatus, From
  <2>3. \A q \in Procs : /\ pc[q] \in {"mark", "credit"} => pc'[q] = pc[q]
                         /\ pc'[q] = "unmark" => pc[q] = "unmark"
    BY <2>1, <2>2
  <2>4. Squared => Squared'
    BY <2>1 DEF Squared, Excused
  <2> QED
    BY <2>1, <2>2, <2>3, <2>4 DEF RefundInv
<1> QED
  BY <1>2, <1>3, <1>4, <1>5, <1>6, <1>7 DEF PayoutStep

LEMMA RefundStepRefund ==
    ASSUME TypeOK, RefundInv, NEW p \in Procs, RefundStep(p) PROVE RefundInv'
<1> USE Moves DEF Elsewhere
<1>1. ASSUME Squared', \A q \in Procs \ {p} : pc'[q] = pc[q], pc[p] \notin BeforeDoc,
             mishaps \subseteq mishaps', pc'[p] = "unmark" => "credit" \in mishaps',
             doc' = doc, status' = status \/ status' # "PAYOUTPENDING"
      PROVE  RefundInv'
  <2>1. \A q \in Procs : pc[q] \in BeforeDoc => pc'[q] = pc[q]
    BY <1>1
  <2> QED
    BY <1>1, <2>1 DEF RefundInv
<1>2. ASSUME Mark(p) PROVE RefundInv'
  <2>0. /\ pc[p] = "mark" /\ marked' = TRUE /\ UNCHANGED <<status, refunded, mishaps, doc>>
        /\ \A q \in Procs \ {p} : pc'[q] = pc[q]
        /\ pc'[p] = IF marked THEN "idle" ELSE "credit"
    BY <1>2 DEF Mark, payVars
  <2>1. CASE Squared
    BY <1>1, <2>0, <2>1 DEF Squared, Excused, BeforeDoc
  <2>2. CASE ~Squared
    <3>1. \E q \in Procs : pc'[q] = "credit"
      BY <2>0, <2>2 DEF RefundInv
    <3>2. \A q \in Procs : /\ pc[q] \in BeforeDoc => pc'[q] = pc[q]
                           /\ pc'[q] = "unmark" => pc[q] = "unmark"
      BY <2>0 DEF BeforeDoc
    <3>3. \E q \in Procs : pc'[q] \in {"mark", "credit"}
      BY <3>1
    <3>4. \A q \in Procs : pc'[q] = "unmark" => "credit" \in mishaps'
      BY <2>0, <3>2 DEF RefundInv
    <3>5. status' = "PAYOUTPENDING" /\ doc' = None =>
             "crash" \in mishaps' \/ \E q \in Procs : pc'[q] \in BeforeDoc
      BY <2>0, <3>2 DEF RefundInv, BeforeDoc
    <3> QED
      BY <3>1, <3>3, <3>4, <3>5 DEF RefundInv
  <2> QED
    BY <2>1, <2>2
<1>3. ASSUME Credit(p) PROVE RefundInv'
  BY <1>1, <1>3 DEF Credit, payVars, Squared, BeforeDoc
<1>4. ASSUME FailToCredit(p) PROVE RefundInv'
  BY <1>1, <1>4 DEF FailToCredit, Suffer, payVars, txVars, Squared, Excused, BeforeDoc
<1>5. ASSUME Unmark(p) PROVE RefundInv'
  <2>1. /\ "credit" \in mishaps /\ UNCHANGED <<mishaps, doc, status>> /\ pc[p] = "unmark"
        /\ pc'[p] # "unmark" /\ \A q \in Procs \ {p} : pc'[q] = pc[q]
    BY <1>5 DEF Unmark, RefundInv, payVars
  <2> QED
    BY <1>1, <2>1 DEF Squared, Excused, BeforeDoc
<1>6. ASSUME Reject(p) PROVE RefundInv'
  <2>1. /\ pc[p] = "idle" /\ pc'[p] = "mark" /\ UNCHANGED <<refunded, marked, mishaps, doc>>
        /\ \A q \in Procs \ {p} : pc'[q] = pc[q]
        /\ status' = "PAYOUTREJECTED"
    BY <1>6 DEF Reject, Start, payVars
  <2> QED
    BY <2>1, AsideKeeps DEF Aside, Unpaid, BeforeDoc
<1>7. ASSUME BulkReject(p) PROVE RefundInv'
  BY <1>1, <1>7 DEF BulkReject, payVars, Squared, Excused, BeforeDoc
<1> QED
  BY <1>2, <1>3, <1>4, <1>5, <1>6, <1>7 DEF RefundStep

LEMMA VerifyStepRefund ==
    ASSUME TypeOK, DocInv, RefundInv, NEW p \in Procs, VerifyStep(p) PROVE RefundInv'
<1> USE Moves DEF Elsewhere, BeforeDoc
<1>0. ASSUME Filed(p), pc[p] \notin {"mark", "credit"} \cup BeforeDoc, pc'[p] # "unmark",
             UNCHANGED <<txVars>>, mishaps \subseteq mishaps'
      PROVE  RefundInv'
  BY <1>0, AsideKeeps DEF Aside, Filed, txVars
<1>1. Filed(p)
  BY DocStep DEF VerifyStep, Begin, Advance, Fault
<1>2. ASSUME NEW k, StartVerify(p, k) PROVE RefundInv'
  BY <1>0, <1>1, <1>2 DEF StartVerify, Start
<1>3. ASSUME LookFlutterwave(p) \/ LookMpesa(p) \/ Fetch(p) PROVE RefundInv'
  BY <1>0, <1>1, <1>3 DEF LookFlutterwave, LookMpesa, Fetch
<1>4. ASSUME FailToFetch(p) PROVE RefundInv'
  BY <1>0, <1>1, <1>4 DEF FailToFetch, Suffer
<1>5. ASSUME Write(p) PROVE RefundInv'
  BY <1>0, <1>1, <1>5 DEF Write
<1>6. ASSUME Callback(p) PROVE RefundInv'
  BY <1>0, <1>1, <1>6 DEF Callback, Start
<1>7. ASSUME ForceFail(p) PROVE RefundInv'
  BY <1>0, <1>1, <1>7 DEF ForceFail
<1>8. ASSUME Settle(p) PROVE RefundInv'
  <2>1. pc[p] = "settle" /\ doc # None /\ UNCHANGED <<doc, mishaps>>
    BY <1>8 DEF Settle, DocInv, WithDoc, payVars
  <2>2. CASE End(p) /\ UNCHANGED <<txVars, aged>>
    BY <1>0, <1>1, <2>1, <2>2
  <2>3. CASE \/ SetStatus(p, "PAYOUTSUCCESS") \/ SetStatus(p, "PAYOUTERROR")
             \/ SetStatus(p, "PAYOUTPENDING")
    BY <2>1, <2>3, ErrorAside, AsideKeeps
  <2> QED
    BY <1>8, <2>2, <2>3 DEF Settle
<1>9. ASSUME FailForced(p) PROVE RefundInv'
  BY <1>9, ErrorAside, AsideKeeps DEF FailForced, payVars
<1> QED
  BY <1>2, <1>3, <1>4, <1>5, <1>6, <1>7, <1>8, <1>9 DEF VerifyStep

LEMMA TxCronStepRefund ==
    ASSUME TypeOK, DocInv, AgeInv, RefundInv, NEW p \in Procs, TxCronStep(p) PROVE RefundInv'
<1> USE Moves DEF Elsewhere, BeforeDoc
<1>1. Filed(p)
  BY DocStep DEF TxCronStep, Begin, Advance
<1>2. ASSUME StartTxCron(p) \/ TxFetch(p) \/ TxWrite(p) PROVE RefundInv'
  BY <1>1, <1>2, AsideKeeps DEF StartTxCron, Start, TxFetch, TxWrite, Aside, Filed, txVars
<1>3. ASSUME TxLook(p) PROVE RefundInv'
  <2>0. pc[p] = "txLook" /\ UNCHANGED <<doc, mishaps>>
    BY <1>3 DEF TxLook, payVars
  <2>1. CASE doc = None /\ SetStatus(p, "PAYOUTCLOSED")
    <3>1. status = "PAYOUTPENDING" => Excused'
      BY <2>0, <2>1 DEF RefundInv, AgeInv, Abandoned, Paying, Excused
    <3>2. Elsewhere(p) /\ pc'[p] # "unmark" /\ UNCHANGED <<refunded, marked>>
      BY <2>1 DEF SetStatus
    <3>3. status' = status \/ (status' = "PAYOUTCLOSED" /\ status \in {"PAYOUTPENDING", "PAYOUTERROR"})
      BY <2>1 DEF SetStatus, From
    <3> QED
      BY <2>0, <3>1, <3>2, <3>3, AsideKeeps DEF Aside, Unpaid
  <2>2. CASE SetStatus(p, "PAYOUTSUCCESS") \/ SetStatus(p, "PAYOUTERROR")
    BY <2>0, <2>2, ErrorAside, AsideKeeps
  <2>3. CASE (End(p) \/ Continue(p, "txFetch")) /\ UNCHANGED <<txVars, aged>>
    BY <2>0, <2>3, AsideKeeps DEF Aside, txVars
  <2> QED
    BY <1>3, <2>1, <2>2, <2>3 DEF TxLook
<1> QED
  BY <1>2, <1>3 DEF TxCronStep

LEMMA RefundHolds == Spec => []RefundInv
<1>1. Init => RefundInv
  BY DEF Init, RefundInv, Unpaid
<1>2. TypeOK /\ DocInv /\ AgeInv /\ RefundInv /\ [Next]_vars => RefundInv'
  <2> SUFFICES ASSUME TypeOK, DocInv, AgeInv, RefundInv, [Next]_vars PROVE RefundInv'
    OBVIOUS
  <2>1. CASE UNCHANGED vars
    BY <2>1 DEF RefundInv, Squared, Excused, vars, txVars, payVars
  <2>2. ASSUME NEW p \in Procs, Crash(p) PROVE RefundInv'
    <3>1. /\ "crash" \in mishaps' /\ mishaps \subseteq mishaps' /\ pc'[p] = "idle"
          /\ \A q \in Procs \ {p} : pc'[q] = pc[q]
      BY <2>2, Moves DEF Crash, Suffer, Elsewhere
    <3> QED
      BY <3>1 DEF RefundInv, Squared, Excused
  <2>3. ASSUME NEW p \in Procs, Begin(p) \/ Advance(p) \/ Fault(p) PROVE RefundInv'
    BY <2>2, <2>3, StepOfProcess, PayoutStepRefund, RefundStepRefund, VerifyStepRefund,
       TxCronStepRefund
  <2>4. ASSUME NEW s \in TransferStatuses, Progress(s) PROVE RefundInv'
    BY <2>4 DEF Progress, RefundInv, Squared, Excused, txVars
  <2>5. ASSUME Age PROVE RefundInv'
    BY <2>5 DEF Age, RefundInv, Squared, Excused, txVars, payVars
  <2> QED
    BY <2>1, <2>3, <2>4, <2>5 DEF Next
<1> QED
  BY <1>1, <1>2, PayoutTypeCorrect, DocHolds, AgeHolds, PTL DEF Spec

(* When all jobs are done, a payment that failed was refunded, a crash, a  *)
(* credit that threw and the bulk rejection excepted.                      *)
THEOREM FailedIsRefunded == Spec => []UnpaidIsRefunded
<1>1. RefundInv => UnpaidIsRefunded
  BY DEF RefundInv, Squared, Excused, Unpaid, UnpaidIsRefunded, Idle
<1> QED
  BY <1>1, RefundHolds, PTL
====
