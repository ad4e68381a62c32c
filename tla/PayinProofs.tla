---- MODULE PayinProofs ----
(***************************************************************************)
(* Theorems about Payin for any number of processes, attempts, notices and *)
(* faults, and any assignment of jobs to the processes.                    *)
(***************************************************************************)
EXTENDS Payin, FiniteSetTheorems, TLAPS

(* The pieces of a step of one process.                                    *)
CreateStep(p) ==
    \/ Create(p) \/ Persist(p) \/ RefuseLink(p) \/ Order(p) \/ RejectCharge(p)
    \/ LoseAnswer(p) \/ Attach(p)

VerifyStep(p) ==
    \/ \E k \in {"cron", "verify", "close", "redirect"} : StartVerify(p, k)
    \/ Look(p) \/ Ask(p) \/ FailToAsk(p) \/ Read(p) \/ ReadBeforeSave(p)
    \/ Save(p) \/ Put(p) \/ Fail(p)

CloseStep(p) ==
    \/ Judge(p) \/ Settle(p) \/ Overwrite(p) \/ StartOpen(p) \/ Reopen(p)
    \/ StartTxCron(p) \/ TxLook(p)

NoticeStep(p) ==
    \/ \E n \in 1..MaxTries : Webhook(p, n)
    \/ Callback(p) \/ StartGet(p) \/ Recheck(p) \/ StartReconcile(p)

ProcessStep(p) ==
    \/ Claim(p) \/ MarkInvoice(p) \/ FailToMark(p) \/ Credit(p) \/ FailToCredit(p)
    \/ FailToShare(p) \/ Handle(p) \/ Repair(p)

World == Try \/ (\E s \in Terminal : Decide(s)) \/ GrowOld

LEMMA StepOfProcess ==
    ASSUME NEW p \in Procs, Start(p) \/ Advance(p) \/ Fault(p)
    PROVE  \/ CreateStep(p) \/ VerifyStep(p) \/ CloseStep(p) \/ NoticeStep(p)
           \/ ProcessStep(p) \/ Crash(p)
BY DEF Start, Advance, Fault, CreateStep, VerifyStep, CloseStep, NoticeStep, ProcessStep

(* The cases of every proof below: an invariant that each of them keeps is *)
(* kept by every step.                                                     *)
LEMMA StepCases ==
    ASSUME [Next]_vars
    PROVE  \/ \E p \in Procs : \/ CreateStep(p) \/ VerifyStep(p) \/ CloseStep(p)
                               \/ NoticeStep(p) \/ ProcessStep(p) \/ Crash(p)
           \/ World
           \/ UNCHANGED vars
BY StepOfProcess DEF Next, World

----
(* The type invariant is inductive.                                        *)

Stacks ==
    /\ pc \in [Procs -> Labels]
    /\ job \in [Procs -> JobKinds \cup {None}]
    /\ closing \in [Procs -> BOOLEAN] /\ mine \in [Procs -> BOOLEAN]
    /\ asked \in [Procs -> 0..MaxTries]
    /\ got \in [Procs -> PayinStatuses] /\ local \in [Procs -> PayinStatuses]

Transaction ==
    tx \in TxStatuses /\ credited \in BOOLEAN /\ payed \in BOOLEAN /\ handled \in Nat

Document == payin \in PayinStatuses /\ pin \in 0..MaxTries

Provider ==
    charge \in [1..MaxTries -> PayinStatuses] /\ notices \in 0..MaxNotices

Scope == route \in Routes /\ kind \in Kinds /\ age \in 0..2

Mishaps == mishaps \subseteq FaultKinds

LEMMA TypeParts ==
    Stacks' /\ Transaction' /\ Document' /\ Provider' /\ Scope' /\ Mishaps' => TypeOK'
BY DEF TypeOK, Stacks, Transaction, Document, Provider, Scope, Mishaps

(* What a step leaves alone keeps its type.                                *)
LEMMA UntouchedKeep ==
    ASSUME TypeOK
    PROVE  /\ UNCHANGED stack => Stacks'
           /\ UNCHANGED txVars => Transaction'
           /\ UNCHANGED payinVars => Document'
           /\ UNCHANGED chargeVars => Provider'
           /\ UNCHANGED <<route, kind, age>> => Scope'
           /\ UNCHANGED mishaps => Mishaps'
           /\ Quiet => Provider' /\ Scope' /\ Mishaps'
           /\ Unpaid => Transaction' /\ Scope'
BY DEF TypeOK, stack, txVars, payinVars, chargeVars, Quiet, Unpaid,
       Stacks, Transaction, Document, Provider, Scope, Mishaps

(* The helpers keep the stacks typed.                                      *)
LEMMA StacksKept ==
    ASSUME NEW p \in Procs, TypeOK
    PROVE  /\ End(p) => Stacks'
           /\ \A l \in Labels : Continue(p, l) => Stacks'
           /\ \A l \in Labels, s \in PayinStatuses : Learn(p, s, l) => Stacks'
           /\ \A l \in Labels : Finalise(p, l) => Stacks'
           /\ \A l \in Labels, k \in JobKinds :
                Begin(p, k, l) /\ UNCHANGED <<closing, asked, got, local, mine>>
                => Stacks'
<1>1. End(p) => Stacks'
  BY PayinBoundsAssumption DEF TypeOK, Stacks, End, Goto, Labels, PayinStatuses
<1>2. \A l \in Labels : Continue(p, l) => Stacks'
  BY DEF TypeOK, Stacks, Continue, Goto
<1>3. \A l \in Labels, s \in PayinStatuses : Learn(p, s, l) => Stacks'
  BY DEF TypeOK, Stacks, Learn, Goto
<1>4. \A l \in Labels : Finalise(p, l) => Stacks'
  BY DEF TypeOK, Stacks, Finalise, Goto, PayinStatuses
<1>5. \A l \in Labels, k \in JobKinds :
        Begin(p, k, l) /\ UNCHANGED <<closing, asked, got, local, mine>> => Stacks'
  BY DEF TypeOK, Stacks, Begin, Goto
<1> QED
  BY <1>1, <1>2, <1>3, <1>4, <1>5

LEMMA SufferKeeps == ASSUME NEW m, TypeOK, Suffer(m) PROVE Mishaps'
BY PayinBoundsAssumption DEF TypeOK, Mishaps, Suffer

(* What the provider is asked about, and what it says, has its type.       *)
LEMMA MadeType == Made \in 0..MaxTries
<1> DEFINE S == {n \in 1..MaxTries : charge[n] # None}
<1>1. IsFiniteSet(1..MaxTries) /\ Cardinality(1..MaxTries) = MaxTries
  BY FS_Interval, PayinBoundsAssumption
<1>2. IsFiniteSet(S) /\ Cardinality(S) <= MaxTries
  BY <1>1, FS_Subset
<1>3. Cardinality(S) \in Nat
  BY <1>2, FS_CardinalityType
<1> QED
  BY <1>2, <1>3, PayinBoundsAssumption DEF Made

LEMMA AnswerType ==
    ASSUME NEW p \in Procs, TypeOK
    PROVE  /\ Asked(p) \in 0..MaxTries
           /\ Reply(p) \in PayinStatuses
           /\ Answer(p) \in PayinStatuses
<1>1. Asked(p) \in 0..MaxTries
  BY MadeType DEF Asked, TypeOK
<1>2. Reply(p) \in PayinStatuses
  BY <1>1 DEF Reply, Status, TypeOK, PayinStatuses
<1>3. Flutterwave \/ route = "mpesa" \/ route = "paystack"
  BY PayinScopeAssumption DEF TypeOK, Flutterwave
<1> QED
  BY <1>1, <1>2, <1>3 DEF Answer, PayinStatuses

LEMMA CreateStepTyped == ASSUME NEW p \in Procs, TypeOK, CreateStep(p) PROVE TypeOK'
<1> USE UntouchedKeep, StacksKept, TypeParts
<1> USE DEF Labels, Creating, Processing, PayinStatuses, Terminal
<1>1. ASSUME Create(p) PROVE TypeOK'
  <2>1. Transaction'
    BY <1>1 DEF Create, Transaction, TypeOK, TxStatuses
  <2>2. Stacks' /\ Document'
    BY <1>1 DEF Create, JobKinds, payinVars
  <2> QED
    BY <1>1, <2>1, <2>2 DEF Create
<1>2. ASSUME Persist(p) \/ RefuseLink(p) \/ RejectCharge(p) PROVE TypeOK'
  <2>1. Document'
    BY <1>2 DEF Persist, RefuseLink, RejectCharge, Document, payinVars, TypeOK
  <2>2. Stacks'
    BY <1>2 DEF Persist, RefuseLink, RejectCharge
  <2> QED
    BY <1>2, <2>1, <2>2 DEF Persist, RefuseLink, RejectCharge
<1>3. ASSUME Order(p) PROVE TypeOK'
  <2>1. PICK s \in PayinStatuses :
          /\ charge' = [charge EXCEPT ![1] = s]
          /\ Learn(p, s, IF route = "direct" THEN "attach" ELSE "persist")
    BY <1>3 DEF Order
  <2>2. Provider'
    BY <1>3, <2>1 DEF Order, Provider, TypeOK
  <2>3. Stacks'
    BY <2>1
  <2> QED
    BY <1>3, <2>2, <2>3 DEF Order
<1>4. ASSUME LoseAnswer(p) PROVE TypeOK'
  <2>1. Provider'
    BY <1>4 DEF LoseAnswer, Provider, TypeOK
  <2> QED
    BY <1>4, <2>1, SufferKeeps DEF LoseAnswer
<1>5. ASSUME Attach(p) PROVE TypeOK'
  <2>1. Document'
    BY <1>5 DEF Attach, Document, TypeOK
  <2>2. Stacks'
    BY <1>5 DEF Attach
  <2> QED
    BY <1>5, <2>1, <2>2 DEF Attach
<1> QED
  BY <1>1, <1>2, <1>3, <1>4, <1>5 DEF CreateStep

LEMMA VerifyStepTyped == ASSUME NEW p \in Procs, TypeOK, VerifyStep(p) PROVE TypeOK'
<1> USE UntouchedKeep, StacksKept, TypeParts
<1> USE DEF Labels, Asking, Processing
<1>1. ASSUME NEW k \in {"cron", "verify", "close", "redirect"}, StartVerify(p, k)
      PROVE  TypeOK'
  <2>1. Stacks'
    BY <1>1 DEF StartVerify, Begin, Goto, Stacks, TypeOK, JobKinds
  <2> QED
    BY <1>1, <2>1 DEF StartVerify
<1>2. ASSUME Look(p) PROVE TypeOK'
  <2>1. payin \in PayinStatuses /\ pin \in 0..MaxTries
    BY DEF TypeOK
  <2>2. GoAsk(p) => Stacks'
    BY <2>1 DEF GoAsk, Goto, Stacks, TypeOK
  <2> QED
    BY <1>2, <2>1, <2>2 DEF Look
<1>3. ASSUME Ask(p) PROVE TypeOK'
  <2>1. asked' \in [Procs -> 0..MaxTries]
    <3> DEFINE a == IF Flutterwave /\ Saves(p) THEN Asked(p) ELSE 0
    <3>1. a \in 0..MaxTries
      BY AnswerType, PayinBoundsAssumption
    <3>2. asked' = [asked EXCEPT ![p] = a] /\ asked \in [Procs -> 0..MaxTries]
      BY <1>3 DEF Ask, TypeOK
    <3> HIDE DEF a
    <3> QED
      BY <3>1, <3>2
  <2>2. got' \in [Procs -> PayinStatuses] /\ pc' \in [Procs -> Labels]
    BY ZenonT(60), <1>3, AnswerType DEF Ask, TypeOK, Goto
  <2>3. Stacks'
    BY <1>3, <2>1, <2>2 DEF Ask, Stacks, TypeOK
  <2> QED
    BY <1>3, <2>3 DEF Ask
<1>4. ASSUME FailToAsk(p) PROVE TypeOK'
  <2>1. Stacks'
    BY <1>4 DEF FailToAsk, PayinStatuses, Terminal
  <2> QED
    BY <1>4, <2>1, SufferKeeps DEF FailToAsk
<1>5. ASSUME Read(p) \/ ReadBeforeSave(p) PROVE TypeOK'
  <2>1. payin \in PayinStatuses
    BY DEF TypeOK
  <2>2. ReadBeforeSave(p) => Stacks'
    BY <2>1 DEF ReadBeforeSave, Goto, Stacks, TypeOK
  <2> QED
    BY <1>5, <2>1, <2>2 DEF Read, ReadBeforeSave
<1>6. ASSUME Save(p) PROVE TypeOK'
  <2>1. Document'
    BY <1>6 DEF Save, Document, TypeOK
  <2>2. Stacks'
    BY <1>6, PayinBoundsAssumption DEF Save, Goto, Stacks, TypeOK, PayinStatuses
  <2> QED
    BY <1>6, <2>1, <2>2 DEF Save
<1>7. ASSUME Put(p) \/ Fail(p) PROVE TypeOK'
  <2>1. Document'
    BY <1>7 DEF Put, Fail, Document, TypeOK, PayinStatuses, Terminal
  <2> QED
    BY <1>7, <2>1 DEF Put, Fail
<1> QED
  BY <1>1, <1>2, <1>3, <1>4, <1>5, <1>6, <1>7 DEF VerifyStep

LEMMA SetTxKeeps == ASSUME NEW s, TypeOK, SetTx(TargetOf(s)) PROVE Transaction'
BY DEF SetTx, TargetOf, Transaction, TypeOK, TxStatuses

LEMMA CloseStepTyped == ASSUME NEW p \in Procs, TypeOK, CloseStep(p) PROVE TypeOK'
<1> USE UntouchedKeep, StacksKept, TypeParts
<1> USE DEF Labels, Closing, Processing, PayinStatuses, Terminal
<1>1. ASSUME Judge(p) \/ TxLook(p) PROVE TypeOK'
  <2>1. Stacks'
    BY <1>1 DEF Judge, TxLook
  <2> QED
    BY <1>1, <2>1 DEF Judge, TxLook
<1>2. ASSUME Settle(p) PROVE TypeOK'
  BY <1>2, SetTxKeeps DEF Settle
<1>3. ASSUME Overwrite(p) \/ Reopen(p) PROVE TypeOK'
  <2>1. Document'
    BY <1>3 DEF Overwrite, Reopen, Document, TypeOK
  <2> QED
    BY <1>3, <2>1 DEF Overwrite, Reopen
<1>4. ASSUME StartOpen(p) \/ StartTxCron(p) PROVE TypeOK'
  BY <1>4 DEF StartOpen, StartTxCron, JobKinds
<1> QED
  BY <1>1, <1>2, <1>3, <1>4 DEF CloseStep

LEMMA NoticeStepTyped == ASSUME NEW p \in Procs, TypeOK, NoticeStep(p) PROVE TypeOK'
<1> USE UntouchedKeep, StacksKept, TypeParts
<1> USE DEF Labels, Asking, Processing
<1>1. ASSUME NEW n \in 1..MaxTries, Webhook(p, n) PROVE TypeOK'
  <2>1. Document' /\ Provider'
    BY <1>1, PayinBoundsAssumption DEF Webhook, Document, Provider, TypeOK
  <2>2. Stacks'
    BY <1>1 DEF Webhook, Stacks, TypeOK, JobKinds
  <2> QED
    BY <1>1, <2>1, <2>2 DEF Webhook
<1>2. ASSUME Callback(p) PROVE TypeOK'
  <2>1. Document' /\ Provider'
    <3>1. charge[1] \in PayinStatuses /\ "pending" \in PayinStatuses
      BY PayinBoundsAssumption DEF TypeOK, PayinStatuses
    <3>2. payin' \in {charge[1], "pending"} /\ UNCHANGED <<pin, charge>>
      BY <1>2 DEF Callback
    <3>3. notices < MaxNotices /\ notices' = notices + 1
      BY <1>2 DEF Callback
    <3>4. Document'
      BY <3>1, <3>2 DEF Document, TypeOK
    <3> QED
      BY <3>2, <3>3, <3>4, PayinBoundsAssumption DEF Provider, TypeOK
  <2>2. Stacks'
    <3>1. (payin' \in {"failed", "cancelled"}) \in BOOLEAN
      OBVIOUS
    <3>2. closing' \in [Procs -> BOOLEAN]
      BY <1>2, <3>1 DEF Callback, TypeOK
    <3> QED
      BY <1>2, <3>2 DEF Callback, Begin, Goto, Stacks, TypeOK, JobKinds
  <2> QED
    BY <1>2, <2>1, <2>2 DEF Callback
<1>3. ASSUME StartGet(p) \/ StartReconcile(p) PROVE TypeOK'
  BY <1>3 DEF StartGet, StartReconcile, JobKinds
<1>4. ASSUME Recheck(p) PROVE TypeOK'
  BY <1>4 DEF Recheck
<1> QED
  BY <1>1, <1>2, <1>3, <1>4 DEF NoticeStep

LEMMA ProcessStepTyped == ASSUME NEW p \in Procs, TypeOK, ProcessStep(p) PROVE TypeOK'
<1> USE UntouchedKeep, StacksKept, TypeParts
<1> USE DEF Labels, Processing
<1>1. ASSUME Claim(p) PROVE TypeOK'
  <2>1. Transaction'
    BY <1>1 DEF Claim, Transaction, TypeOK, TxStatuses
  <2>2. Stacks'
    BY <1>1 DEF Claim, AfterClaim, Claimable, Goto, Stacks, TypeOK
  <2> QED
    BY <1>1, <2>1, <2>2 DEF Claim
<1>2. ASSUME MarkInvoice(p) \/ Credit(p) \/ Handle(p) \/ Repair(p) PROVE TypeOK'
  <2>1. Transaction'
    <3>1. CASE MarkInvoice(p)
      BY <3>1 DEF MarkInvoice, Transaction, TypeOK
    <3>2. CASE Credit(p)
      BY <3>2 DEF Credit, Transaction, TypeOK
    <3>3. CASE Handle(p)
      BY <3>3 DEF Handle, Transaction, TypeOK
    <3>4. CASE Repair(p)
      BY <3>4 DEF Repair, Transaction, TypeOK
    <3> QED
      BY <1>2, <3>1, <3>2, <3>3, <3>4
  <2>2. Stacks'
    BY <1>2 DEF MarkInvoice, Credit, Handle, Repair, AfterCredit
  <2> QED
    BY <1>2, <2>1, <2>2 DEF MarkInvoice, Credit, Handle, Repair
<1>3. ASSUME FailToMark(p) \/ FailToCredit(p) \/ FailToShare(p) PROVE TypeOK'
  <2>1. Stacks'
    BY <1>3 DEF FailToMark, FailToCredit, FailToShare, AfterCredit
  <2> QED
    BY <1>3, <2>1, SufferKeeps DEF FailToMark, FailToCredit, FailToShare
<1> QED
  BY <1>1, <1>2, <1>3 DEF ProcessStep

LEMMA WorldTyped == ASSUME TypeOK, World PROVE TypeOK'
<1> USE UntouchedKeep, TypeParts
<1>1. ASSUME Try PROVE TypeOK'
  <2>1. Provider'
    BY <1>1 DEF Try, Provider, TypeOK, PayinStatuses
  <2> QED
    BY <1>1, <2>1 DEF Try
<1>2. ASSUME NEW s \in Terminal, Decide(s) PROVE TypeOK'
  <2>1. Provider'
    BY <1>2 DEF Decide, Provider, TypeOK, PayinStatuses
  <2> QED
    BY <1>2, <2>1 DEF Decide
<1>3. ASSUME GrowOld PROVE TypeOK'
  <2>1. Scope'
    BY <1>3, PayinBoundsAssumption DEF GrowOld, Scope, TypeOK
  <2> QED
    BY <1>3, <2>1 DEF GrowOld
<1> QED
  BY <1>1, <1>2, <1>3 DEF World

LEMMA TypeStep == TypeOK /\ [Next]_vars => TypeOK'
<1> SUFFICES ASSUME TypeOK, [Next]_vars PROVE TypeOK'
  OBVIOUS
<1>1. ASSUME NEW p \in Procs, Crash(p) PROVE TypeOK'
  BY <1>1, UntouchedKeep, StacksKept, TypeParts, SufferKeeps DEF Crash
<1>2. ASSUME UNCHANGED vars PROVE TypeOK'
  BY <1>2, UntouchedKeep, TypeParts DEF vars, stack
<1> QED
  BY <1>1, <1>2, StepCases, CreateStepTyped, VerifyStepTyped, CloseStepTyped,
     NoticeStepTyped, ProcessStepTyped, WorldTyped

LEMMA TypeInit == Init => TypeOK
<1> SUFFICES ASSUME Init PROVE TypeOK
  OBVIOUS
<1>1. Stacks
  BY PayinBoundsAssumption DEF Init, Stacks, Labels, PayinStatuses
<1>2. Transaction
  BY DEF Init, Transaction, TxStatuses
<1>5. Document
  BY PayinBoundsAssumption DEF Init, Document, PayinStatuses
<1>4. Provider
  BY PayinBoundsAssumption DEF Init, Provider, PayinStatuses
<1>3. Scope /\ Mishaps
  BY DEF Init, Scope, Mishaps
<1> QED
  BY <1>1, <1>2, <1>3, <1>4, <1>5 DEF TypeOK, Stacks, Transaction, Document, Provider, Scope, Mishaps

(* The type invariant holds for every instance.                            *)
THEOREM PayinTypeCorrect == Spec => []TypeOK
BY TypeInit, TypeStep, PTL DEF Spec

----
(* A success is never taken back: updateTransactionStatus does not leave    *)
(* PAYINSUCCESS, and nothing else writes the status of a transaction that  *)
(* exists.                                                                 *)

LEMMA SetTxSpares ==
    ASSUME NEW s, SetTx(TargetOf(s))
    PROVE  tx' = "PAYINSUCCESS" <=> tx = "PAYINSUCCESS"
BY DEF SetTx, TargetOf, From

(* Who writes the status of the transaction.                               *)
LEMMA TxWriters ==
    ASSUME [Next]_vars
    PROVE  tx' = tx \/ \E p \in Procs : Create(p) \/ Settle(p) \/ Claim(p)
<1>1. ASSUME NEW p \in Procs, CreateStep(p), ~Create(p) PROVE tx' = tx
  BY <1>1 DEF CreateStep, Persist, RefuseLink, Order, RejectCharge, LoseAnswer, Attach,
              Unpaid, txVars
<1>2. ASSUME NEW p \in Procs, VerifyStep(p) PROVE tx' = tx
  BY <1>2 DEF VerifyStep, StartVerify, Look, Ask, FailToAsk, Read, ReadBeforeSave, Save,
              Put, Fail, Unpaid, txVars
<1>3. ASSUME NEW p \in Procs, CloseStep(p), ~Settle(p) PROVE tx' = tx
  BY <1>3 DEF CloseStep, Judge, Overwrite, StartOpen, Reopen, StartTxCron, TxLook, txVars
<1>4. ASSUME NEW p \in Procs, NoticeStep(p) PROVE tx' = tx
  BY <1>4 DEF NoticeStep, Webhook, Callback, StartGet, Recheck, StartReconcile, Unpaid,
              txVars
<1>5. ASSUME NEW p \in Procs, ProcessStep(p), ~Claim(p) PROVE tx' = tx
  BY <1>5 DEF ProcessStep, MarkInvoice, FailToMark, Credit, FailToCredit, FailToShare,
              Handle, Repair, Unpaid, txVars
<1>6. ASSUME NEW p \in Procs, Crash(p) PROVE tx' = tx
  BY <1>6 DEF Crash, Unpaid, txVars
<1>7. ASSUME World \/ UNCHANGED vars PROVE tx' = tx
  BY <1>7 DEF World, Try, Decide, GrowOld, vars, txVars
<1> QED
  BY <1>1, <1>2, <1>3, <1>4, <1>5, <1>6, <1>7, StepCases

LEMMA SuccessKept ==
    ASSUME [Next]_vars, tx = "PAYINSUCCESS" PROVE tx' = "PAYINSUCCESS"
<1>1. ASSUME NEW p \in Procs, Create(p) PROVE FALSE
  BY <1>1 DEF Create, None
<1>2. ASSUME NEW p \in Procs, Settle(p) PROVE tx' = "PAYINSUCCESS"
  BY <1>2, SetTxSpares DEF Settle
<1>3. ASSUME NEW p \in Procs, Claim(p) PROVE tx' = "PAYINSUCCESS"
  BY <1>3 DEF Claim
<1> QED
  BY <1>1, <1>2, <1>3, TxWriters

(* The transaction keeps its success, whatever the jobs that close it have *)
(* read before.                                                            *)
THEOREM SuccessIsKept == Spec => SuccessStays
<1>1. [Next]_vars => (tx = "PAYINSUCCESS" => tx' = "PAYINSUCCESS")
  BY SuccessKept
<1> QED
  BY <1>1, PTL DEF Spec, SuccessStays

----
(* One claim: whoever turns the transaction to PAYINSUCCESS is the only    *)
(* one to hold it, and holds it until the handlers ran.  ClaimInv adds to  *)
(* the two properties where a claimer is and that nobody else gets to the  *)
(* handlers.                                                               *)

HoldersOnly ==
    /\ \A p \in Procs :
         mine[p] => /\ handled = 0 /\ tx = "PAYINSUCCESS"
                    /\ pc[p] \in {"invoice", "credit", "handle"}
    /\ \A p, q \in Procs : mine[p] /\ mine[q] => p = q
    /\ \A p \in Procs : pc[p] = "handle" => mine[p]

ClaimInv ==
    /\ HoldersOnly
    /\ HandledOnce
    /\ handled > 0 => tx = "PAYINSUCCESS"
    /\ ClaimIsHandled

(* A step of p that has no part in it.                                     *)
Moves(p) ==
    /\ mine' \in {mine, [mine EXCEPT ![p] = FALSE]}
    /\ \E l \in Labels \ {"handle"} : pc' = [pc EXCEPT ![p] = l]

Aside(p) ==
    /\ pc[p] \notin {"invoice", "credit", "handle"}
    /\ UNCHANGED <<handled, kind>>
    /\ tx' = "PAYINSUCCESS" <=> tx = "PAYINSUCCESS"
    /\ mishaps \subseteq mishaps'
    /\ Moves(p)

LEMMA HelpersMove ==
    ASSUME NEW p \in Procs
    PROVE  /\ End(p) => Moves(p)
           /\ \A l \in Labels \ {"handle"} : Continue(p, l) => Moves(p)
           /\ \A l \in Labels \ {"handle"} : Finalise(p, l) => Moves(p)
           /\ \A l \in Labels \ {"handle"} : \A s : Learn(p, s, l) => Moves(p)
           /\ \A l \in Labels \ {"handle"} : \A k :
                Begin(p, k, l) /\ UNCHANGED mine => Moves(p) /\ pc[p] = "idle"
BY DEF Moves, End, Continue, Finalise, Learn, Begin, Goto, Labels

LEMMA AsideKeeps ==
    ASSUME TypeOK, ClaimInv, NEW p \in Procs, Aside(p) PROVE ClaimInv'
<1>1. mine' = mine
  <2>1. mine[p] = FALSE /\ mine \in [Procs -> BOOLEAN]
    BY DEF Aside, ClaimInv, HoldersOnly, TypeOK
  <2>2. [mine EXCEPT ![p] = FALSE] = mine
    BY <2>1
  <2> QED
    BY <2>2 DEF Aside, Moves
<1>2. HoldersOnly'
  BY <1>1 DEF Aside, Moves, ClaimInv, HoldersOnly, TypeOK
<1>3. ClaimIsHandled'
  BY <1>1 DEF Aside, ClaimInv, ClaimIsHandled
<1> QED
  BY <1>2, <1>3 DEF Aside, ClaimInv, HandledOnce

LEMMA CreateAside == ASSUME NEW p \in Procs, CreateStep(p) PROVE Aside(p)
<1> USE HelpersMove DEF Aside, Labels, Creating, Asking, Closing, Processing
<1>1. CASE Create(p)
  BY <1>1 DEF Create, Quiet, None
<1>2. CASE Persist(p) \/ RefuseLink(p)
  BY <1>2 DEF Persist, RefuseLink, Quiet, txVars
<1>3. CASE Order(p)
  BY <1>3 DEF Order, Unpaid, txVars
<1>4. CASE RejectCharge(p) \/ Attach(p)
  BY <1>4 DEF RejectCharge, Attach, Quiet, txVars
<1>5. CASE LoseAnswer(p)
  BY <1>5 DEF LoseAnswer, Suffer, Unpaid, txVars
<1> QED
  BY <1>1, <1>2, <1>3, <1>4, <1>5 DEF CreateStep

LEMMA VerifyAside ==
    ASSUME TypeOK, NEW p \in Procs, VerifyStep(p) PROVE Aside(p)
<1> USE HelpersMove DEF Aside, Labels, Creating, Asking, Closing, Processing
<1>1. ASSUME NEW k \in {"cron", "verify", "close", "redirect"}, StartVerify(p, k)
      PROVE  Aside(p)
  BY <1>1 DEF StartVerify, Quiet, txVars
<1>2. CASE Look(p)
  BY <1>2 DEF Look, GoAsk, Goto, Moves, Quiet, txVars
<1>3. CASE Ask(p)
  BY <1>3 DEF Ask, Goto, Moves, Quiet, txVars
<1>4. CASE FailToAsk(p)
  BY <1>4 DEF FailToAsk, Suffer, Unpaid, txVars
<1>5. CASE Read(p) \/ Put(p) \/ Fail(p)
  BY <1>5 DEF Read, Put, Fail, Quiet, txVars
<1>6. CASE ReadBeforeSave(p) \/ Save(p)
  BY <1>6 DEF ReadBeforeSave, Save, Goto, Moves, Quiet, txVars
<1> QED
  BY <1>1, <1>2, <1>3, <1>4, <1>5, <1>6 DEF VerifyStep

LEMMA CloseAside == ASSUME NEW p \in Procs, CloseStep(p) PROVE Aside(p)
<1> USE HelpersMove DEF Aside, Labels, Creating, Asking, Closing, Processing
<1>1. CASE Judge(p) \/ TxLook(p)
  BY <1>1 DEF Judge, TxLook, Quiet, txVars
<1>2. CASE Settle(p)
  <2>1. tx' = "PAYINSUCCESS" <=> tx = "PAYINSUCCESS"
    BY <1>2, SetTxSpares DEF Settle
  <2> QED
    BY <1>2, <2>1 DEF Settle, SetTx, Quiet
<1>3. CASE Overwrite(p) \/ Reopen(p)
  BY <1>3 DEF Overwrite, Reopen, Quiet, txVars
<1>4. CASE StartOpen(p) \/ StartTxCron(p)
  BY <1>4 DEF StartOpen, StartTxCron, Quiet, txVars
<1> QED
  BY <1>1, <1>2, <1>3, <1>4 DEF CloseStep

LEMMA NoticeAside ==
    ASSUME TypeOK, NEW p \in Procs, NoticeStep(p) PROVE Aside(p)
<1> USE HelpersMove DEF Aside, Labels, Creating, Asking, Closing, Processing
<1>1. ASSUME NEW n \in 1..MaxTries, Webhook(p, n) PROVE Aside(p)
  <2>1. pc[p] = "idle" /\ mine' = mine
    BY <1>1 DEF Webhook, Begin
  <2>2. \E l \in Labels \ {"handle"} : pc' = [pc EXCEPT ![p] = l]
    <3>1. pc = [pc EXCEPT ![p] = "idle"]
      BY <2>1 DEF TypeOK
    <3> QED
      BY <1>1, <3>1 DEF Webhook, Begin, Goto
  <2> QED
    BY <1>1, <2>1, <2>2 DEF Webhook, Moves, Unpaid, txVars
<1>2. CASE Callback(p)
  BY <1>2 DEF Callback, Unpaid, txVars
<1>3. CASE StartGet(p) \/ StartReconcile(p) \/ Recheck(p)
  BY <1>3 DEF StartGet, StartReconcile, Recheck, Quiet, txVars
<1> QED
  BY <1>1, <1>2, <1>3 DEF NoticeStep

(* The steps that have one.                                                *)
LEMMA ProcessClaims ==
    ASSUME TypeOK, ClaimInv, NEW p \in Procs, ProcessStep(p) PROVE ClaimInv'
<1> USE DEF ClaimInv, HoldersOnly, HandledOnce, ClaimIsHandled, Goto
<1>1. CASE Repair(p)
  <2>1. Aside(p)
    BY <1>1, HelpersMove DEF Repair, Aside, Quiet, Labels
  <2> QED
    BY <2>1, AsideKeeps
<1>2. CASE Claim(p)
  <2>1. ~mine[p] /\ handled' = handled /\ kind' = kind /\ mishaps' = mishaps
    BY <1>2 DEF Claim, Quiet
  <2>2. CASE Claimable
    <3>1. tx # "PAYINSUCCESS" /\ tx' = "PAYINSUCCESS" /\ handled = 0
      BY <1>2, <2>2 DEF Claim, Claimable, TypeOK
    <3>2. mine' = [mine EXCEPT ![p] = TRUE] /\ pc' = [pc EXCEPT ![p] = AfterClaim]
      BY <1>2, <2>2 DEF Claim
    <3> QED
      BY <2>1, <3>1, <3>2 DEF AfterClaim, TypeOK
  <2>3. CASE ~Claimable
    <3>1. tx' = tx
      BY <1>2, <2>3 DEF Claim
    <3>2. mine' = mine /\ pc' = [pc EXCEPT ![p] = AfterClaim]
      <4>1. mine' = [mine EXCEPT ![p] = FALSE] /\ pc' = [pc EXCEPT ![p] = AfterClaim]
        <5>1. Claimable = FALSE
          BY <2>3 DEF Claimable
        <5> QED
          BY <1>2, <5>1 DEF Claim, Goto
      <4>2. mine[p] = FALSE /\ mine \in [Procs -> BOOLEAN]
        BY <2>1 DEF TypeOK
      <4> QED
        BY <4>1, <4>2
    <3> QED
      BY <2>1, <3>1, <3>2 DEF AfterClaim, TypeOK
  <2> QED
    BY <2>2, <2>3
<1>3. CASE MarkInvoice(p) \/ FailToMark(p)
  <2>1. /\ UNCHANGED <<tx, handled, kind, mine>> /\ mishaps \subseteq mishaps'
        /\ pc[p] = "invoice" /\ pc' = [pc EXCEPT ![p] = "credit"]
    BY <1>3 DEF MarkInvoice, FailToMark, Continue, Suffer, Quiet, Unpaid, txVars
  <2> QED
    BY <2>1 DEF TypeOK
<1>4. CASE Credit(p) \/ FailToCredit(p)
  <2>1. /\ UNCHANGED <<tx, handled, kind>> /\ mishaps \subseteq mishaps'
        /\ pc[p] = "credit" /\ AfterCredit(p)
    BY <1>4 DEF Credit, FailToCredit, Suffer, Quiet, Unpaid, txVars
  <2>2. CASE mine[p] /\ kind # "invoice"
    <3>1. mine' = mine /\ pc' = [pc EXCEPT ![p] = "handle"]
      BY <2>1, <2>2 DEF AfterCredit, Continue
    <3> QED
      BY <2>1, <2>2, <3>1 DEF TypeOK
  <2>3. CASE ~(mine[p] /\ kind # "invoice")
    <3>1. mine' = [mine EXCEPT ![p] = FALSE] /\ pc' = [pc EXCEPT ![p] = "idle"]
      BY <2>1, <2>3 DEF AfterCredit, End
    <3> QED
      BY <2>1, <2>3, <3>1 DEF TypeOK
  <2> QED
    BY <2>2, <2>3
<1>5. CASE FailToShare(p)
  <2>1. /\ UNCHANGED <<tx, handled, kind>> /\ "share" \in mishaps'
        /\ mine' = [mine EXCEPT ![p] = FALSE] /\ pc' = [pc EXCEPT ![p] = "idle"]
    BY <1>5 DEF FailToShare, End, Suffer, Unpaid, txVars
  <2> QED
    BY <2>1 DEF TypeOK
<1>6. CASE Handle(p)
  <2>1. /\ UNCHANGED <<tx, kind, mishaps>> /\ handled' = handled + 1
        /\ mine' = [mine EXCEPT ![p] = FALSE] /\ pc' = [pc EXCEPT ![p] = "idle"]
        /\ mine[p]
    BY <1>6 DEF Handle, End, Quiet
  <2> QED
    BY <2>1 DEF TypeOK
<1> QED
  BY <1>1, <1>2, <1>3, <1>4, <1>5, <1>6 DEF ProcessStep

LEMMA ClaimStep == TypeOK /\ ClaimInv /\ [Next]_vars => ClaimInv'
<1> SUFFICES ASSUME TypeOK, ClaimInv, [Next]_vars PROVE ClaimInv'
  OBVIOUS
<1>1. ASSUME NEW p \in Procs,
             CreateStep(p) \/ VerifyStep(p) \/ CloseStep(p) \/ NoticeStep(p)
      PROVE  ClaimInv'
  BY <1>1, CreateAside, VerifyAside, CloseAside, NoticeAside, AsideKeeps
<1>2. ASSUME NEW p \in Procs, Crash(p) PROVE ClaimInv'
  <2>1. /\ UNCHANGED <<tx, handled, kind>> /\ "crash" \in mishaps'
        /\ mine' = [mine EXCEPT ![p] = FALSE] /\ pc' = [pc EXCEPT ![p] = "idle"]
    BY <1>2 DEF Crash, End, Goto, Suffer, Unpaid, txVars
  <2> QED
    BY <2>1 DEF ClaimInv, HoldersOnly, HandledOnce, ClaimIsHandled, TypeOK
<1>3. ASSUME World \/ UNCHANGED vars PROVE ClaimInv'
  <2>1. UNCHANGED <<tx, handled, kind, mine, pc, mishaps>>
    BY <1>3 DEF World, Try, Decide, GrowOld, vars, txVars, stack
  <2> QED
    BY <2>1 DEF ClaimInv, HoldersOnly, HandledOnce, ClaimIsHandled
<1> QED
  BY <1>1, <1>2, <1>3, ProcessClaims, StepCases

LEMMA ClaimInit == Init => ClaimInv
BY DEF Init, None, ClaimInv, HoldersOnly, HandledOnce, ClaimIsHandled

LEMMA ClaimHolds == Spec => []ClaimInv
BY TypeInit, TypeStep, ClaimInit, ClaimStep, PTL DEF Spec

(* What only the claimer may do is done once at most, however many jobs    *)
(* see the success at the same time.                                       *)
THEOREM ClaimedOnce == Spec => []HandledOnce
<1>1. ClaimInv => HandledOnce
  BY DEF ClaimInv
<1> QED
  BY <1>1, ClaimHolds, PTL

(* A claimed payment is handled or held, unless its claimer crashed or     *)
(* gave up on the system's share.                                          *)
THEOREM ClaimIsNotForgotten == Spec => []ClaimIsHandled
<1>1. ClaimInv => ClaimIsHandled
  BY DEF ClaimInv
<1> QED
  BY <1>1, ClaimHolds, PTL

----
(* One charge is ordered, and attempts follow one another.  CreateInv says *)
(* that nothing is there before the transaction, that one job at most is   *)
(* creating it, that a charge still to be ordered has not been made, and   *)
(* that the attempts made are the first ones.                              *)

Unmade == \A n \in 1..MaxTries : charge[n] = None

Blank == tx = None => payin = None /\ Unmade /\ \A p \in Procs : pc[p] = "idle"

OneCreator ==
    /\ \A p, q \in Procs : pc[p] \in Creating /\ pc[q] \in Creating => p = q
    /\ \A p \in Procs : \/ pc[p] = "order"
                        \/ pc[p] = "persist" /\ route = "direct"
                        => Unmade /\ route \in {"direct", "mpesa"}

InARow ==
    \E k \in 0..MaxTries : \A n \in 1..MaxTries : charge[n] # None <=> n <= k

CreateInv == Blank /\ OneCreator /\ InARow

(* A step of p that neither creates nor charges.                           *)
Elsewhere(p) ==
    /\ UNCHANGED <<charge, route>>
    /\ \E l \in Labels \ Creating : pc' = [pc EXCEPT ![p] = l]

LEMMA HelpersGo ==
    ASSUME NEW p \in Procs
    PROVE  /\ End(p) => \E l \in Labels \ Creating : pc' = [pc EXCEPT ![p] = l]
           /\ \A m \in Labels \ Creating : Continue(p, m) =>
                \E l \in Labels \ Creating : pc' = [pc EXCEPT ![p] = l]
           /\ \A m \in Labels \ Creating : Finalise(p, m) =>
                \E l \in Labels \ Creating : pc' = [pc EXCEPT ![p] = l]
           /\ \A m \in Labels \ Creating : \A s : Learn(p, s, m) =>
                \E l \in Labels \ Creating : pc' = [pc EXCEPT ![p] = l]
           /\ \A m \in Labels \ Creating : \A k : Begin(p, k, m) =>
                \E l \in Labels \ Creating : pc' = [pc EXCEPT ![p] = l]
BY DEF End, Continue, Finalise, Learn, Begin, Goto, Labels, Creating

LEMMA VerifyElsewhere == ASSUME NEW p \in Procs, VerifyStep(p) PROVE Elsewhere(p)
<1> USE HelpersGo DEF Elsewhere, Labels, Creating, Asking, Closing, Processing
<1>1. ASSUME NEW k \in {"cron", "verify", "close", "redirect"}, StartVerify(p, k)
      PROVE  Elsewhere(p)
  BY <1>1 DEF StartVerify, Quiet, chargeVars
<1>2. CASE Look(p)
  BY <1>2 DEF Look, GoAsk, Goto, Quiet, chargeVars
<1>3. CASE Ask(p)
  BY <1>3 DEF Ask, Goto, Quiet, chargeVars
<1>4. CASE FailToAsk(p)
  BY <1>4 DEF FailToAsk, Unpaid, chargeVars
<1>5. CASE Read(p) \/ Put(p) \/ Fail(p)
  BY <1>5 DEF Read, Put, Fail, Quiet, chargeVars
<1>6. CASE ReadBeforeSave(p) \/ Save(p)
  BY <1>6 DEF ReadBeforeSave, Save, Goto, Quiet, chargeVars
<1> QED
  BY <1>1, <1>2, <1>3, <1>4, <1>5, <1>6 DEF VerifyStep

LEMMA CloseElsewhere == ASSUME NEW p \in Procs, CloseStep(p) PROVE Elsewhere(p)
<1> USE HelpersGo DEF Elsewhere, Labels, Creating, Asking, Closing, Processing
<1>1. CASE Judge(p) \/ TxLook(p)
  BY <1>1 DEF Judge, TxLook, Quiet, chargeVars
<1>2. CASE Settle(p)
  BY <1>2 DEF Settle, Quiet, chargeVars
<1>3. CASE Overwrite(p) \/ Reopen(p)
  BY <1>3 DEF Overwrite, Reopen, Quiet, chargeVars
<1>4. CASE StartOpen(p) \/ StartTxCron(p)
  BY <1>4 DEF StartOpen, StartTxCron, Quiet, chargeVars
<1> QED
  BY <1>1, <1>2, <1>3, <1>4 DEF CloseStep

LEMMA NoticeElsewhere ==
    ASSUME TypeOK, NEW p \in Procs, NoticeStep(p) PROVE Elsewhere(p)
<1> USE HelpersGo DEF Elsewhere, Labels, Creating, Asking, Closing, Processing
<1>1. ASSUME NEW n \in 1..MaxTries, Webhook(p, n) PROVE Elsewhere(p)
  <2>1. CASE charge[n] = "successful"
    BY <1>1, <2>1 DEF Webhook, Unpaid
  <2>2. CASE charge[n] # "successful"
    <3>1. pc' = pc /\ pc[p] = "idle"
      BY <1>1, <2>2 DEF Webhook
    <3>2. pc' = [pc EXCEPT ![p] = "idle"]
      BY <3>1 DEF TypeOK
    <3> QED
      BY <1>1, <3>2 DEF Webhook, Unpaid
  <2> QED
    BY <2>1, <2>2
<1>2. CASE Callback(p)
  BY <1>2 DEF Callback, Unpaid
<1>3. CASE StartGet(p) \/ StartReconcile(p) \/ Recheck(p)
  BY <1>3 DEF StartGet, StartReconcile, Recheck, Quiet, chargeVars
<1> QED
  BY <1>1, <1>2, <1>3 DEF NoticeStep

LEMMA ProcessElsewhere ==
    ASSUME NEW p \in Procs, ProcessStep(p) \/ Crash(p) PROVE Elsewhere(p)
<1> USE HelpersGo DEF Elsewhere, Labels, Creating, Asking, Closing, Processing
<1>1. CASE Claim(p)
  BY <1>1 DEF Claim, AfterClaim, Goto, Quiet, chargeVars
<1>2. CASE MarkInvoice(p) \/ Handle(p) \/ Repair(p)
  BY <1>2 DEF MarkInvoice, Handle, Repair, Quiet, chargeVars
<1>3. CASE FailToMark(p) \/ FailToShare(p) \/ Crash(p)
  BY <1>3 DEF FailToMark, FailToShare, Crash, Unpaid, chargeVars
<1>4. CASE Credit(p)
  BY <1>4 DEF Credit, AfterCredit, Quiet, chargeVars
<1>5. CASE FailToCredit(p)
  BY <1>5 DEF FailToCredit, AfterCredit, Unpaid, chargeVars
<1> QED
  BY <1>1, <1>2, <1>3, <1>4, <1>5 DEF ProcessStep

(* Before the transaction there is nothing to do but to create it.         *)
LEMMA BlankStep ==
    ASSUME Blank, tx = None, [Next]_vars
    PROVE  (\E p \in Procs : Create(p)) \/ UNCHANGED vars
<1> USE DEF Blank, Unmade, None
<1>1. ASSUME NEW p \in Procs, CreateStep(p) PROVE Create(p)
  BY <1>1 DEF CreateStep, Persist, RefuseLink, Order, RejectCharge, LoseAnswer, Attach
<1>2. ASSUME NEW p \in Procs, VerifyStep(p) PROVE FALSE
  BY <1>2 DEF VerifyStep, StartVerify, Look, Ask, FailToAsk, Read, ReadBeforeSave, Save,
              Put, Fail
<1>3. ASSUME NEW p \in Procs, CloseStep(p) PROVE FALSE
  BY <1>3 DEF CloseStep, Judge, Settle, Overwrite, StartOpen, Reopen, StartTxCron, TxLook
<1>4. ASSUME NEW p \in Procs, NoticeStep(p) PROVE FALSE
  BY <1>4 DEF NoticeStep, Webhook, Callback, StartGet, Recheck, StartReconcile,
              Reconcilable
<1>5. ASSUME NEW p \in Procs, ProcessStep(p) \/ Crash(p) PROVE FALSE
  BY <1>5 DEF ProcessStep, Claim, MarkInvoice, FailToMark, Credit, FailToCredit,
              FailToShare, Handle, Repair, Crash
<1>6. World => FALSE
  BY DEF World, Try, Decide, GrowOld
<1> QED
  BY <1>1, <1>2, <1>3, <1>4, <1>5, <1>6, StepCases

LEMMA TxStays == ASSUME tx # None, [Next]_vars PROVE tx' # None
<1> USE DEF None
<1>1. ASSUME NEW p \in Procs, Create(p) PROVE FALSE
  BY <1>1 DEF Create
<1>2. ASSUME NEW p \in Procs, Settle(p) PROVE tx' # None
  BY <1>2 DEF Settle, SetTx, TargetOf
<1>3. ASSUME NEW p \in Procs, Claim(p) PROVE tx' # None
  BY <1>3 DEF Claim
<1> QED
  BY <1>1, <1>2, <1>3, TxWriters

LEMMA BlankKept == ASSUME TypeOK, Blank, [Next]_vars PROVE Blank'
<1>1. CASE tx # None
  BY <1>1, TxStays DEF Blank
<1>2. CASE tx = None
  <2>1. ASSUME NEW p \in Procs, Create(p) PROVE tx' # None
    BY <2>1 DEF Create, None
  <2>2. ASSUME UNCHANGED vars PROVE Blank'
    BY <1>2, <2>2 DEF Blank, Unmade, vars, payinVars, chargeVars, stack, txVars
  <2> QED
    BY <1>2, <2>1, <2>2, BlankStep DEF Blank
<1> QED
  BY <1>1, <1>2

LEMMA ElsewhereKeeps ==
    ASSUME TypeOK, OneCreator, InARow, NEW p \in Procs, Elsewhere(p)
    PROVE  OneCreator' /\ InARow'
<1>1. InARow'
  BY DEF Elsewhere, InARow
<1>2. PICK l \in Labels \ Creating : pc' = [pc EXCEPT ![p] = l]
  BY DEF Elsewhere
<1>3. \A q \in Procs : pc'[q] \in Creating => pc[q] \in Creating /\ pc'[q] = pc[q]
  BY <1>2 DEF TypeOK
<1>4. {"order", "persist"} \subseteq Creating
  BY DEF Creating
<1>5. OneCreator'
  BY <1>3, <1>4 DEF Elsewhere, OneCreator, Unmade
<1> QED
  BY <1>1, <1>5

(* A charge that is ordered is the first.                                  *)
LEMMA OrderFirst ==
    ASSUME TypeOK, OneCreator, NEW p \in Procs, pc[p] = "order",
           NEW s \in PayinStatuses \ {None}, charge' = [charge EXCEPT ![1] = s]
    PROVE  InARow'
<1>1. \A n \in 1..MaxTries : charge'[n] # None <=> n <= 1
  BY PayinBoundsAssumption DEF OneCreator, Unmade, TypeOK
<1> QED
  BY <1>1, PayinBoundsAssumption DEF InARow

LEMMA CreateStepKeeps ==
    ASSUME TypeOK, CreateInv, NEW p \in Procs, CreateStep(p)
    PROVE  OneCreator' /\ InARow'
<1> USE DEF CreateInv
<1>1. CASE Create(p)
  <2>1. Unmade /\ \A q \in Procs : pc[q] = "idle"
    BY <1>1 DEF Create, Blank
  <2>2. /\ pc' = [pc EXCEPT ![p] = IF route = "mpesa" THEN "order" ELSE "persist"]
        /\ UNCHANGED <<charge, route>>
    BY <1>1 DEF Create, Begin, Goto, Quiet, chargeVars
  <2> QED
    BY <2>1, <2>2 DEF OneCreator, InARow, Unmade, Creating, TypeOK
<1>2. CASE Persist(p)
  <2>1. CASE route = "direct"
    <3>1. /\ pc[p] = "persist" /\ pc' = [pc EXCEPT ![p] = "order"]
          /\ UNCHANGED <<charge, route>>
      BY <1>2, <2>1 DEF Persist, Continue, Goto, Quiet, chargeVars
    <3> QED
      BY <2>1, <3>1 DEF OneCreator, InARow, Unmade, Creating, TypeOK
  <2>2. CASE route # "direct"
    <3>1. Elsewhere(p)
      BY <1>2, <2>2, HelpersGo DEF Persist, Elsewhere, Quiet, chargeVars
    <3> QED
      BY <3>1, ElsewhereKeeps
  <2> QED
    BY <2>1, <2>2
<1>3. CASE RefuseLink(p) \/ Attach(p)
  <2>1. Elsewhere(p)
    BY <1>3, HelpersGo DEF RefuseLink, Attach, Elsewhere, Quiet, chargeVars, Labels,
                           Creating, Processing
  <2> QED
    BY <2>1, ElsewhereKeeps
<1>4. CASE Order(p)
  <2>1. pc[p] = "order" /\ route' = route
    BY <1>4 DEF Order, Unpaid
  <2>2. PICK s \in PayinStatuses \ {None} : charge' = [charge EXCEPT ![1] = s]
    BY <1>4 DEF Order, PayinStatuses, Terminal, None
  <2>3. pc' = [pc EXCEPT ![p] = IF route = "direct" THEN "attach" ELSE "persist"]
    BY <1>4 DEF Order, Learn, Goto
  <2> QED
    BY <2>1, <2>2, <2>3, OrderFirst DEF OneCreator, Creating, TypeOK
<1>5. CASE RejectCharge(p)
  <2>1. /\ pc[p] = "order" /\ pc' = [pc EXCEPT ![p] = "attach"]
        /\ UNCHANGED <<charge, route>>
    BY <1>5 DEF RejectCharge, Learn, Goto, Quiet, chargeVars
  <2> QED
    BY <2>1 DEF OneCreator, InARow, Unmade, Creating, TypeOK
<1>6. CASE LoseAnswer(p)
  <2>1. /\ pc[p] = "order" /\ pc' = [pc EXCEPT ![p] = "idle"] /\ route' = route
        /\ charge' = [charge EXCEPT ![1] = "pending"]
    BY <1>6 DEF LoseAnswer, End, Goto, Unpaid
  <2>2. "pending" \in PayinStatuses \ {None}
    BY DEF PayinStatuses, None
  <2>3. OneCreator'
    BY <2>1 DEF OneCreator, Creating, TypeOK
  <2> QED
    BY <2>1, <2>2, <2>3, OrderFirst
<1> QED
  BY <1>1, <1>2, <1>3, <1>4, <1>5, <1>6 DEF CreateStep

(* An attempt of the payer comes after the last one.                       *)
LEMMA TryIsNext ==
    ASSUME TypeOK, InARow, Made < MaxTries
    PROVE  /\ Made + 1 \in 1..MaxTries
           /\ \A n \in 1..MaxTries : charge[n] # None <=> n <= Made
<1>1. PICK k \in 0..MaxTries : \A n \in 1..MaxTries : charge[n] # None <=> n <= k
  BY DEF InARow
<1>2. {n \in 1..MaxTries : charge[n] # None} = 1..k
  BY <1>1, PayinBoundsAssumption
<1>3. Made = k
  <2>1. k \in Nat /\ 1 \in Int /\ k \in Int
    BY PayinBoundsAssumption
  <2>2. Cardinality(1..k) = IF 1 > k THEN 0 ELSE k - 1 + 1
    BY <2>1, FS_Interval
  <2>3. Made = Cardinality(1..k)
    BY <1>2, Zenon DEF Made
  <2> QED
    BY <2>1, <2>2, <2>3
<1> QED
  BY <1>1, <1>3, PayinBoundsAssumption

LEMMA WorldKeeps ==
    ASSUME TypeOK, CreateInv, World PROVE OneCreator' /\ InARow'
<1> USE DEF CreateInv
<1>1. CASE Try
  <2>1. /\ Made < MaxTries /\ route \in {"hosted", "paystack"} /\ UNCHANGED <<pc, route>>
        /\ charge' = [charge EXCEPT ![Made + 1] = "pending"]
    BY <1>1 DEF Try, stack
  <2>2. \A n \in 1..MaxTries : charge'[n] # None <=> n <= Made + 1
    BY <2>1, TryIsNext, MadeType, PayinBoundsAssumption DEF TypeOK, None
  <2>3. InARow'
    <3>1. Made + 1 \in 0..MaxTries
      BY <2>1, TryIsNext, PayinBoundsAssumption
    <3> DEFINE m == Made + 1
    <3>2. \A n \in 1..MaxTries : charge'[n] # None <=> n <= m
      BY <2>2
    <3>3. m \in 0..MaxTries
      BY <3>1
    <3> HIDE DEF m
    <3> QED
      BY <3>2, <3>3 DEF InARow
  <2>4. OneCreator'
    BY <2>1 DEF OneCreator
  <2> QED
    BY <2>3, <2>4
<1>2. ASSUME NEW s \in Terminal, Decide(s) PROVE OneCreator' /\ InARow'
  <2>1. PICK m \in 1..MaxTries : /\ charge[m] = "pending"
                                 /\ charge' = [charge EXCEPT ![m] = s]
    BY <1>2 DEF Decide
  <2>2. \A n \in 1..MaxTries : charge'[n] # None <=> charge[n] # None
    BY <2>1 DEF TypeOK, None, Terminal
  <2>3. ~Unmade /\ UNCHANGED <<pc, route>>
    BY <1>2, <2>1 DEF Decide, Unmade, None, stack
  <2> QED
    BY <2>2, <2>3 DEF OneCreator, InARow
<1>3. CASE GrowOld
  BY <1>3 DEF GrowOld, OneCreator, InARow, Unmade, chargeVars, stack
<1> QED
  BY <1>1, <1>2, <1>3 DEF World

LEMMA CreateKept == TypeOK /\ CreateInv /\ [Next]_vars => CreateInv'
<1> SUFFICES ASSUME TypeOK, CreateInv, [Next]_vars PROVE CreateInv'
  OBVIOUS
<1>1. Blank'
  BY BlankKept DEF CreateInv
<1>2. ASSUME NEW p \in Procs, Elsewhere(p) PROVE OneCreator' /\ InARow'
  BY <1>2, ElsewhereKeeps DEF CreateInv
<1>3. ASSUME UNCHANGED vars PROVE OneCreator' /\ InARow'
  BY <1>3 DEF CreateInv, OneCreator, InARow, Unmade, vars, chargeVars, stack
<1>4. OneCreator' /\ InARow'
  BY <1>2, <1>3, StepCases, CreateStepKeeps, VerifyElsewhere, CloseElsewhere,
     NoticeElsewhere, ProcessElsewhere, WorldKeeps
<1> QED
  BY <1>1, <1>4 DEF CreateInv

LEMMA CreateInit == Init => CreateInv
<1> SUFFICES ASSUME Init PROVE CreateInv
  OBVIOUS
<1>1. Blank /\ OneCreator
  BY DEF Init, Blank, OneCreator, Unmade, Creating
<1>2. \A n \in 1..MaxTries : charge[n] # None <=> n <= 0
  BY DEF Init
<1>3. InARow
  BY <1>2, PayinBoundsAssumption DEF InARow
<1> QED
  BY <1>1, <1>3 DEF CreateInv

----
(* Nothing is given out before the provider has reached a success.  Until  *)
(* then not only the books are clean, but also whatever the running jobs   *)
(* remember; and a success at the provider is there to stay.               *)

Paid == \E n \in 1..MaxTries : charge[n] = "successful"

Guilty == Processing \ {"recheck"}

CleanStack ==
    \A q \in Procs : /\ got[q] # "successful" /\ local[q] # "successful"
                     /\ pc[q] \notin Guilty

CleanBooks ==
    /\ payin # "successful" /\ tx # "PAYINSUCCESS"
    /\ ~credited /\ ~payed /\ handled = 0

PaidInv == Paid \/ (CleanBooks /\ CleanStack)

LEMMA PaidStays == ASSUME TypeOK, CreateInv, Paid, [Next]_vars PROVE Paid'
<1>1. ~Unmade
  BY DEF Paid, Unmade, None
<1>2. ASSUME NEW p \in Procs, CreateStep(p) PROVE Paid'
  <2>1. pc[p] # "order"
    BY <1>1 DEF CreateInv, OneCreator
  <2>2. charge' = charge
    BY <1>2, <2>1 DEF CreateStep, Create, Persist, RefuseLink, Order, RejectCharge,
                      LoseAnswer, Attach, Quiet, chargeVars
  <2> QED
    BY <2>2 DEF Paid
<1>3. ASSUME NEW p \in Procs, Elsewhere(p) PROVE Paid'
  BY <1>3 DEF Elsewhere, Paid
<1>4. CASE Try
  <2>1. Made < MaxTries /\ charge' = [charge EXCEPT ![Made + 1] = "pending"]
    BY <1>4 DEF Try
  <2>2. Made + 1 \in 1..MaxTries /\ charge[Made + 1] = None
    BY <2>1, TryIsNext, MadeType, PayinBoundsAssumption DEF CreateInv
  <2> QED
    BY <2>1, <2>2 DEF Paid, TypeOK, None
<1>5. ASSUME NEW s \in Terminal, Decide(s) PROVE Paid'
  BY <1>5 DEF Decide, Paid, TypeOK
<1>6. CASE GrowOld \/ UNCHANGED vars
  BY <1>6 DEF GrowOld, Paid, vars, chargeVars
<1> QED
  BY <1>2, <1>3, <1>4, <1>5, <1>6, StepCases, VerifyElsewhere, CloseElsewhere,
     NoticeElsewhere, ProcessElsewhere DEF World

(* What keeps the memory of the jobs clean.                                *)
LEMMA HelpersClean ==
    ASSUME TypeOK, CleanStack, NEW p \in Procs
    PROVE  /\ End(p) => CleanStack'
           /\ \A l : l \notin Guilty /\ Continue(p, l) => CleanStack'
           /\ \A l, s : l \notin Guilty /\ s # "successful" /\ Learn(p, s, l)
                => CleanStack'
           /\ \A k, l : l \notin Guilty /\ Begin(p, k, l) /\ UNCHANGED <<got, local>>
                => CleanStack'
           /\ UNCHANGED <<pc, got, local>> => CleanStack'
<1> USE DEF CleanStack, Guilty, Processing, TypeOK, Goto
<1>1. End(p) => CleanStack'
  BY DEF End, None
<1>2. ASSUME NEW l, l \notin Guilty, Continue(p, l) PROVE CleanStack'
  BY <1>2 DEF Continue
<1>3. ASSUME NEW l, NEW s, l \notin Guilty, s # "successful", Learn(p, s, l)
      PROVE  CleanStack'
  BY <1>3 DEF Learn
<1>4. ASSUME NEW k, NEW l, l \notin Guilty, Begin(p, k, l), UNCHANGED <<got, local>>
      PROVE  CleanStack'
  BY <1>4 DEF Begin
<1>5. UNCHANGED <<pc, got, local>> => CleanStack'
  OBVIOUS
<1> QED
  BY <1>1, <1>2, <1>3, <1>4, <1>5

(* The provider says of no attempt that it was successful.                 *)
LEMMA UnpaidAnswer ==
    ASSUME TypeOK, ~Paid, NEW p \in Procs
    PROVE  Reply(p) # "successful" /\ Answer(p) # "successful"
<1>1. Reply(p) # "successful"
  BY AnswerType DEF Reply, Status, Paid, None
<1>2. Flutterwave \/ route = "mpesa" \/ route = "paystack"
  BY PayinScopeAssumption DEF TypeOK, Flutterwave
<1> QED
  BY <1>1, <1>2 DEF Answer

LEMMA CreateStepClean ==
    ASSUME TypeOK, CleanBooks, CleanStack, NEW p \in Procs, CreateStep(p)
    PROVE  PaidInv'
<1> USE HelpersClean DEF PaidInv, CleanBooks, Guilty, Processing
<1>1. CASE Create(p)
  BY <1>1 DEF Create, payinVars
<1>2. CASE Persist(p) \/ RefuseLink(p) \/ RejectCharge(p)
  BY <1>2 DEF Persist, RefuseLink, RejectCharge, txVars, payinVars
<1>3. CASE Order(p)
  <2>1. PICK s \in PayinStatuses :
          /\ charge' = [charge EXCEPT ![1] = s]
          /\ Learn(p, s, IF route = "direct" THEN "attach" ELSE "persist")
    BY <1>3 DEF Order, PayinStatuses
  <2>2. CASE s = "successful"
    <3>1. charge'[1] = "successful" /\ 1 \in 1..MaxTries
      BY <2>1, <2>2, PayinBoundsAssumption DEF TypeOK
    <3> QED
      BY <3>1 DEF Paid
  <2>3. CASE s # "successful"
    BY <1>3, <2>1, <2>3 DEF Order, Unpaid, txVars, payinVars
  <2> QED
    BY <2>2, <2>3
<1>4. CASE LoseAnswer(p)
  BY <1>4 DEF LoseAnswer, Unpaid, txVars, payinVars
<1>5. CASE Attach(p)
  <2>1. got[p] # "successful"
    BY DEF CleanStack
  <2> QED
    BY <1>5, <2>1 DEF Attach, txVars
<1> QED
  BY <1>1, <1>2, <1>3, <1>4, <1>5 DEF CreateStep

LEMMA VerifyStepClean ==
    ASSUME TypeOK, ~Paid, CleanBooks, CleanStack, NEW p \in Procs, VerifyStep(p)
    PROVE  PaidInv'
<1> USE HelpersClean DEF PaidInv, CleanBooks, Guilty, Processing
<1>1. ASSUME NEW k \in {"cron", "verify", "close", "redirect"}, StartVerify(p, k)
      PROVE  PaidInv'
  BY <1>1 DEF StartVerify, txVars, payinVars
<1>2. CASE Look(p)
  <2>1. GoAsk(p) => CleanStack'
    BY DEF GoAsk, Goto, CleanStack, TypeOK
  <2> QED
    BY <1>2, <2>1 DEF Look, txVars, payinVars
<1>3. CASE Ask(p)
  <2>1. /\ \/ got' = [got EXCEPT ![p] = Answer(p)]
           \/ got' = got
        /\ \E l \in {"local", "read", "put"} : pc' = [pc EXCEPT ![p] = l]
        /\ local' = local
    BY <1>3 DEF Ask, Goto
  <2>2. CleanStack'
    BY <2>1, UnpaidAnswer DEF CleanStack, TypeOK
  <2> QED
    BY <1>3, <2>2 DEF Ask, txVars, payinVars
<1>4. CASE FailToAsk(p)
  BY <1>4 DEF FailToAsk, Unpaid, txVars, payinVars
<1>5. CASE Read(p)
  BY <1>5 DEF Read, txVars, payinVars
<1>6. CASE ReadBeforeSave(p)
  <2>1. CleanStack'
    BY <1>6 DEF ReadBeforeSave, Goto, CleanStack, TypeOK
  <2> QED
    BY <1>6, <2>1 DEF ReadBeforeSave, txVars, payinVars
<1>7. CASE Save(p)
  <2>1. got[p] # "successful" /\ local[p] # "successful"
    BY DEF CleanStack
  <2>2. CleanStack'
    BY <1>7, <2>1 DEF Save, Goto, CleanStack, TypeOK, None
  <2> QED
    BY <1>7, <2>1, <2>2 DEF Save, txVars
<1>8. CASE Put(p) \/ Fail(p)
  <2>1. got[p] # "successful"
    BY DEF CleanStack
  <2> QED
    BY <1>8, <2>1 DEF Put, Fail, txVars
<1> QED
  BY <1>1, <1>2, <1>3, <1>4, <1>5, <1>6, <1>7, <1>8 DEF VerifyStep

LEMMA CloseStepClean ==
    ASSUME TypeOK, CleanBooks, CleanStack, NEW p \in Procs, CloseStep(p)
    PROVE  PaidInv'
<1> USE HelpersClean DEF PaidInv, CleanBooks, Guilty, Processing
<1>1. got[p] # "successful"
  BY DEF CleanStack
<1>2. CASE Judge(p) \/ TxLook(p)
  BY <1>1, <1>2 DEF Judge, TxLook, txVars, payinVars
<1>3. CASE Settle(p)
  <2>1. tx' # "PAYINSUCCESS"
    BY <1>3, SetTxSpares DEF Settle
  <2>2. UNCHANGED <<payin, credited, payed, handled>>
    BY <1>3 DEF Settle, SetTx, payinVars
  <2>3. CleanStack'
    BY <1>3 DEF Settle
  <2> QED
    BY <2>1, <2>2, <2>3
<1>4. CASE Overwrite(p) \/ Reopen(p)
  BY <1>1, <1>4 DEF Overwrite, Reopen, txVars
<1>5. CASE StartOpen(p) \/ StartTxCron(p)
  BY <1>5 DEF StartOpen, StartTxCron, txVars, payinVars
<1> QED
  BY <1>2, <1>3, <1>4, <1>5 DEF CloseStep

LEMMA NoticeStepClean ==
    ASSUME TypeOK, ~Paid, CleanBooks, CleanStack, NEW p \in Procs, NoticeStep(p)
    PROVE  PaidInv'
<1> USE HelpersClean DEF PaidInv, CleanBooks, Guilty, Processing
<1>1. ASSUME NEW n \in 1..MaxTries, Webhook(p, n) PROVE PaidInv'
  <2>1. charge[n] # "successful"
    BY DEF Paid
  <2> QED
    BY <1>1, <2>1 DEF Webhook, Unpaid, txVars
<1>2. CASE Callback(p)
  <2>1. charge[1] # "successful"
    BY PayinBoundsAssumption DEF Paid
  <2> QED
    BY <1>2, <2>1 DEF Callback, Unpaid, txVars
<1>3. CASE StartGet(p) \/ Recheck(p)
  BY <1>3 DEF StartGet, Recheck, txVars, payinVars
<1>4. ~StartReconcile(p)
  BY DEF StartReconcile, Reconcilable
<1> QED
  BY <1>1, <1>2, <1>3, <1>4 DEF NoticeStep

LEMMA PaidStep == TypeOK /\ CreateInv /\ PaidInv /\ [Next]_vars => PaidInv'
<1> SUFFICES ASSUME TypeOK, CreateInv, CleanBooks, CleanStack, ~Paid, [Next]_vars
             PROVE  PaidInv'
  BY PaidStays DEF PaidInv
<1> USE HelpersClean DEF PaidInv, CleanBooks
<1>1. ASSUME NEW p \in Procs PROVE ~ProcessStep(p)
  BY DEF CleanStack, Guilty, Processing, ProcessStep, Claim, MarkInvoice, FailToMark,
         Credit, FailToCredit, FailToShare, Handle, Repair
<1>2. ASSUME NEW p \in Procs, Crash(p) PROVE PaidInv'
  BY <1>2 DEF Crash, Unpaid, txVars, payinVars
<1>3. ASSUME World \/ UNCHANGED vars PROVE PaidInv'
  <2>1. UNCHANGED <<txVars, payinVars, stack>>
    BY <1>3 DEF World, Try, Decide, GrowOld, vars
  <2> QED
    BY <2>1 DEF CleanStack, txVars, payinVars, stack
<1> QED
  BY <1>1, <1>2, <1>3, StepCases, CreateStepClean, VerifyStepClean, CloseStepClean,
     NoticeStepClean

LEMMA PaidInit == Init => PaidInv
BY DEF Init, PaidInv, CleanBooks, CleanStack, Guilty, Processing, None

(* Nothing is credited, marked as paid or handed out, and no transaction   *)
(* succeeds, unless a charge of this payment succeeded at the provider.    *)
THEOREM NothingForNothing == Spec => []PaidBeforeCredited
<1>1. PaidInv => PaidBeforeCredited
  BY DEF PaidInv, CleanBooks, Paid, PaidBeforeCredited
<1> QED
  BY <1>1, TypeInit, TypeStep, CreateInit, CreateKept, PaidInit, PaidStep, PTL DEF Spec
====
