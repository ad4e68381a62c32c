---- MODULE OrderProofs ----
(***************************************************************************)
(* Theorems about what is ordered and paid for: Invoice, Fulfilment, Money *)
(* and DevKeys, for any handlers, orders and amounts.                      *)
(***************************************************************************)
EXTENDS Invoice, Fulfilment, Money, DevKeys, SumTheorems

----
(* Invoices.                                                               *)

InvoiceFields(doc) ==
    DOMAIN doc = {"status", "payed", "tx"} /\ doc.status \in InvoiceStatuses /\ doc.payed \in BOOLEAN

InvoiceMaps ==
    /\ DOMAIN pc = Procs /\ DOMAIN stack = Procs
    /\ InvoiceFields(inv) /\ txs \in Seq(InvoiceTxs)
    /\ settled \in BOOLEAN /\ crossed \in BOOLEAN

(* What a handler has read.  The transaction the cron found ended has.     *)
InvoiceFrame(p) ==
    /\ pc[p] # "idle" => DOMAIN stack[p] = {"subject", "seen", "tx"} /\ InvoiceFields(Seen(p))
    /\ pc[p] \in {"route", "savePay"} => Seen(p).status = "paying" /\ ~Seen(p).payed
    /\ pc[p] \in {"saveSuccess", "sync", "reopen", "update", "mark"} => ~Seen(p).payed
    /\ pc[p] = "reopen" =>
         stack[p].tx \in DOMAIN txs /\ txs[stack[p].tx].status # "pending"

(* Until a save crosses another, the status tells who may charge: one      *)
(* payer is at work at most, on an invoice that is under payment, and a    *)
(* charge under way is that of the last transaction.                       *)
Calm ==
    /\ inv.payed <=> inv.status = "payed"
    /\ settled => inv.payed
    /\ inv.status \in {"draft", "completed", "archived"} => Requesting = {} /\ UnderWayTxs = {}
    /\ Requesting # {} => UnderWayTxs = {}
    /\ \A p, q \in Requesting : p = q
    /\ UnderWayTxs \subseteq {Len(txs)}

InvoiceInv ==
    /\ InvoiceMaps
    /\ \A p \in Procs : InvoiceFrame(p)
    /\ ~crossed => Calm

LEMMA InvoiceStart == InvoiceInit => InvoiceInv
<1> SUFFICES ASSUME InvoiceInit PROVE InvoiceInv
  OBVIOUS
<1>1. InvoiceMaps
  <2>1. InvoiceFields(inv)
    BY DEF InvoiceInit, InvoiceFields, InvoiceStatuses
  <2>2. txs \in Seq(InvoiceTxs)
    BY DEF InvoiceInit
  <2> QED
    BY <2>1, <2>2 DEF InvoiceInit, RequestsInit, InvoiceMaps
<1>2. \A p \in Procs : InvoiceFrame(p)
  BY DEF InvoiceInit, RequestsInit, InvoiceFrame
<1>3. Calm
  BY DEF InvoiceInit, RequestsInit, Calm, Requesting, UnderWayTxs
<1> QED
  BY <1>1, <1>2, <1>3 DEF InvoiceInv

(* Transactions come to their end once.                                    *)
TxsGoOn ==
    \A n \in DOMAIN txs :
        n \in DOMAIN txs' /\ (txs[n].status # "pending" => txs'[n].status # "pending")

LEMMA FramesKept ==
    ASSUME InvoiceInv, NEW p \in Procs, TxsGoOn, InvoiceFrame(p)',
           \A q \in Procs \ {p} : pc'[q] = pc[q] /\ stack'[q] = stack[q]
    PROVE  \A q \in Procs : InvoiceFrame(q)'
<1> SUFFICES ASSUME NEW q \in Procs, q # p PROVE InvoiceFrame(q)'
  OBVIOUS
<1> QED
  BY DEF InvoiceInv, InvoiceFrame, TxsGoOn, Seen

(* A step that leaves the invoice and starts nothing.                      *)
LEMMA CalmKept ==
    ASSUME InvoiceInv, UNCHANGED <<inv, settled, crossed>>, Requesting' \subseteq Requesting,
           UnderWayTxs' \subseteq UnderWayTxs, Len(txs') = Len(txs)
    PROVE  ~crossed' => Calm'
BY DEF InvoiceInv, Calm

(* A handler that only reads.                                              *)
Reads(p, label, frame) ==
    /\ label \notin {"route", "release"}
    /\ pc' = [pc EXCEPT ![p] = label] /\ stack' = [stack EXCEPT ![p] = frame]
    /\ UNCHANGED <<inv, txs, settled, crossed>>

LEMMA ReadsKeeps ==
    ASSUME InvoiceInv, NEW p \in Procs, NEW label, NEW frame, Reads(p, label, frame),
           InvoiceFrame(p)'
    PROVE  InvoiceInv'
<1> USE DEF Reads
<1>1. InvoiceMaps'
  BY DEF InvoiceInv, InvoiceMaps
<1>2. TxsGoOn
  BY DEF TxsGoOn
<1>3. \A q \in Procs \ {p} : pc'[q] = pc[q] /\ stack'[q] = stack[q]
  BY DEF InvoiceInv, InvoiceMaps
<1>4. Requesting' \subseteq Requesting
  BY DEF Requesting, InvoiceInv, InvoiceMaps
<1>5. UnderWayTxs' = UnderWayTxs
  BY DEF UnderWayTxs
<1>6. \A q \in Procs : InvoiceFrame(q)'
  BY <1>2, <1>3, FramesKept
<1>7. ~crossed' => Calm'
  BY <1>4, <1>5, CalmKept
<1> QED
  BY <1>1, <1>6, <1>7 DEF InvoiceInv

(* A handler returns, having saved a document that is paid, or one that is *)
(* not and was not under payment.                                          *)
LEMMA SaveKeeps ==
    ASSUME InvoiceInv, NEW p \in Procs, NEW doc, InvoiceFields(doc),
           pc[p] \in {"saveSuccess", "update", "mark"},
           SaveInvoice(p, doc), Return(p), UNCHANGED txs,
           \/ doc.status = "payed" /\ doc.payed
           \/ /\ doc.status \in {"draft", "completed", "archived"} /\ ~doc.payed
              /\ Seen(p).status # "paying"
    PROVE  InvoiceInv'
<1> USE DEF SaveInvoice, Return, JumpWith, Seen
<1>1. /\ DOMAIN pc = Procs /\ DOMAIN stack = Procs /\ InvoiceFields(inv) /\ InvoiceFields(Seen(p))
      /\ ~Seen(p).payed
  BY DEF InvoiceInv, InvoiceMaps, InvoiceFrame
<1>2. InvoiceFields(inv') /\ settled' \in BOOLEAN /\ crossed' \in BOOLEAN
  <2>1. DOMAIN inv' = DOMAIN inv
    OBVIOUS
  <2>2. inv'.status \in {doc.status, inv.status} /\ inv'.payed \in {doc.payed, inv.payed}
    BY <1>1 DEF InvoiceFields
  <2> QED
    BY <1>1, <2>1, <2>2 DEF InvoiceFields, InvoiceInv, InvoiceMaps
<1>3. InvoiceMaps'
  BY <1>1, <1>2 DEF InvoiceInv, InvoiceMaps
<1>4. \A q \in Procs : InvoiceFrame(q)'
  <2>1. InvoiceFrame(p)' /\ TxsGoOn
    BY <1>1 DEF InvoiceFrame, TxsGoOn
  <2>2. \A q \in Procs \ {p} : pc'[q] = pc[q] /\ stack'[q] = stack[q]
    BY <1>1
  <2> QED
    BY <2>1, <2>2, FramesKept
<1>5. Requesting' = Requesting /\ UnderWayTxs' = UnderWayTxs /\ Len(txs') = Len(txs)
  BY <1>1 DEF Requesting, UnderWayTxs
<1>6. ASSUME ~crossed' PROVE Calm'
  <2>1. inv = Seen(p) /\ Calm
    BY <1>6 DEF InvoiceInv
  <2>2. inv'.status = doc.status /\ inv'.payed = doc.payed
    BY <1>1, <2>1 DEF InvoiceFields
  <2>3. settled' = inv'.payed
    BY <1>1, <1>2, <2>1, <2>2 DEF Calm, InvoiceFields, InvoiceInv, InvoiceMaps
  <2>4. doc.status # "payed" => Requesting = {} /\ UnderWayTxs = {}
    BY <1>1, <2>1 DEF Calm, InvoiceFields, InvoiceStatuses
  <2> QED
    BY <1>5, <2>1, <2>2, <2>3, <2>4 DEF Calm
<1> QED
  BY <1>3, <1>4, <1>6 DEF InvoiceInv

LEMMA TxAdded ==
    ASSUME txs \in Seq(InvoiceTxs), NEW t \in InvoiceTxs, txs' = Append(txs, t)
    PROVE  /\ txs' \in Seq(InvoiceTxs) /\ TxsGoOn
           /\ UnderWayTxs' \subseteq UnderWayTxs \cup {Len(txs')}
           /\ t.charge # "open" => UnderWayTxs' \subseteq UnderWayTxs
<1>1. txs' \in Seq(InvoiceTxs) /\ Len(txs') = Len(txs) + 1 /\ DOMAIN txs' = DOMAIN txs \cup {Len(txs')}
  OBVIOUS
<1>2. txs'[Len(txs')] = t /\ \A n \in DOMAIN txs : txs'[n] = txs[n]
  OBVIOUS
<1> QED
  BY <1>1, <1>2 DEF TxsGoOn, UnderWayTxs

LEMMA InvoiceStep == InvoiceInv /\ [InvoiceNext]_invoiceVars => InvoiceInv'
<1> SUFFICES ASSUME InvoiceInv, [InvoiceNext]_invoiceVars PROVE InvoiceInv'
  OBVIOUS
<1> USE DEF Begin, Jump, JumpWith, Return, FaultyReturn, Seen
<1>1. InvoiceMaps /\ (\A q \in Procs : InvoiceFrame(q)) /\ (~crossed => Calm)
  BY DEF InvoiceInv
<1>2. ASSUME UNCHANGED <<pc, stack, inv, txs, settled, crossed>> PROVE InvoiceInv'
  BY <1>2 DEF InvoiceInv, InvoiceMaps, InvoiceFrame, Calm, Requesting, UnderWayTxs
<1>3. CASE UNCHANGED invoiceVars
  BY <1>2, <1>3 DEF invoiceVars, invoiceOnly, reqVars
<1>4. ASSUME NEW n \in DOMAIN txs, Charge(n) \/ CloseTx(n) PROVE InvoiceInv'
  <2>1. /\ txs' \in Seq(InvoiceTxs) /\ DOMAIN txs' = DOMAIN txs /\ Len(txs') = Len(txs)
        /\ \A m \in DOMAIN txs \ {n} : txs'[m] = txs[m]
        /\ \/ txs'[n].charge \in {"paid", "refused"} /\ txs'[n].status = txs[n].status
           \/ txs'[n].status = "closed"
    <3>1. txs \in Seq(InvoiceTxs) /\ txs[n] \in InvoiceTxs
      BY <1>1 DEF InvoiceMaps
    <3>2. CASE Charge(n)
      BY <3>1, <3>2 DEF Charge, InvoiceTxs
    <3>3. CASE CloseTx(n)
      BY <3>1, <3>3 DEF CloseTx, InvoiceTxs
    <3> QED
      BY <1>4, <3>2, <3>3
  <2>2. UNCHANGED <<pc, stack, inv, settled, crossed>>
    BY <1>4 DEF Charge, CloseTx, reqVars
  <2>3. InvoiceMaps'
    BY <1>1, <2>1, <2>2 DEF InvoiceMaps
  <2>4. \A q \in Procs : InvoiceFrame(q)'
    BY <1>1, <2>1, <2>2 DEF InvoiceFrame
  <2>5. UnderWayTxs' \subseteq UnderWayTxs /\ Requesting' = Requesting
    BY <2>1, <2>2 DEF UnderWayTxs, Requesting
  <2> QED
    BY <2>1, <2>2, <2>3, <2>4, <2>5, CalmKept DEF InvoiceInv
<1>5. ASSUME NEW p \in Procs,
             \/ \E n \in DOMAIN txs : StartSuccess(p, n)
             \/ StartPay(p) \/ ClaimInvoice(p) \/ RouteOk(p) \/ RouteRefused(p) \/ RouteLost(p)
             \/ Release(p) \/ SavePay(p) \/ StartRepair(p) \/ ReadForSuccess(p) \/ SaveSuccess(p)
             \/ StartSync(p) \/ Sync(p) \/ Reopen(p) \/ StartUpdate(p) \/ UpdateInvoice(p)
             \/ StartMark(p) \/ MarkAsPaid(p) \/ InvoiceCrash(p)
      PROVE  InvoiceInv'
  <2>1. DOMAIN pc = Procs /\ DOMAIN stack = Procs /\ InvoiceFields(inv) /\ txs \in Seq(InvoiceTxs)
    BY <1>1 DEF InvoiceMaps
  <2>2. pc[p] # "idle" => DOMAIN stack[p] = {"subject", "seen", "tx"} /\ InvoiceFields(Seen(p))
    BY <1>1 DEF InvoiceFrame
  <2>3. ASSUME NEW label \in {"claim", "success", "sync", "update", "mark"}, NEW tx,
               pc' = [pc EXCEPT ![p] = label],
               stack' = [stack EXCEPT ![p] = [InvFrame EXCEPT !.tx = tx]],
               UNCHANGED <<inv, txs, settled, crossed>>,
               label \in {"sync", "update", "mark"} => ~inv.payed
        PROVE  InvoiceInv'
    <3>1. pc'[p] = label /\ stack'[p] = [subject |-> "invoice", seen |-> inv, tx |-> tx]
      BY <2>1, <2>3 DEF InvFrame
    <3>2. InvoiceFrame(p)'
      BY <2>1, <2>3, <3>1 DEF InvoiceFrame
    <3> QED
      BY <2>3, <3>2, ReadsKeeps DEF Reads
  <2>4. InvFrame = [InvFrame EXCEPT !.tx = 0]
    BY DEF InvFrame
  <2>5. CASE StartPay(p) \/ StartRepair(p)
    BY <2>3, <2>4, <2>5 DEF StartPay, StartRepair, invoiceOnly
  <2>6. CASE StartSync(p) \/ StartUpdate(p) \/ StartMark(p)
    BY <2>3, <2>4, <2>6 DEF StartSync, StartUpdate, StartMark, OwnerAsks, invoiceOnly
  <2>7. CASE InvoiceCrash(p)
    <3>1. Reads(p, "idle", NoStack) /\ InvoiceFrame(p)'
      BY <2>1, <2>7 DEF InvoiceCrash, Reads, InvoiceFrame, invoiceOnly
    <3> QED
      BY <3>1, ReadsKeeps
  <2>8. CASE ReadForSuccess(p) \/ Sync(p)
    <3>1. pc[p] \in {"success", "sync"} /\ UNCHANGED <<inv, txs, settled, crossed>>
      BY <2>8 DEF ReadForSuccess, Sync, invoiceOnly
    <3>2. CASE Return(p)
      <4>1. Reads(p, "idle", NoStack) /\ InvoiceFrame(p)'
        BY <2>1, <3>1, <3>2 DEF Reads, InvoiceFrame
      <4> QED
        BY <4>1, ReadsKeeps
    <3>3. CASE ~Return(p) /\ ReadForSuccess(p)
      <4>1. Reads(p, "saveSuccess", [stack[p] EXCEPT !.seen = inv]) /\ ~inv.payed
        BY <3>1, <3>3 DEF ReadForSuccess, Reads
      <4>2. InvoiceFrame(p)'
        BY <2>1, <2>2, <3>1, <4>1 DEF InvoiceFrame, Reads
      <4> QED
        BY <4>1, <4>2, ReadsKeeps
    <3>4. CASE ~Return(p) /\ Sync(p)
      <4> DEFINE n == Len(txs)
      <4>1. PICK label \in {"success", "reopen"} :
              /\ Reads(p, label, [stack[p] EXCEPT !.tx = n])
              /\ n # 0 /\ txs[n].status # "pending" /\ pc[p] = "sync"
        BY <2>1, <3>1, <3>4 DEF Sync, Reads
      <4>2. InvoiceFrame(p)'
        <5>1. ~Seen(p).payed /\ n \in DOMAIN txs
          BY <1>1, <2>1, <4>1 DEF InvoiceFrame
        <5> QED
          BY <2>1, <2>2, <4>1, <5>1 DEF InvoiceFrame, Reads
      <4> QED
        BY <4>1, <4>2, ReadsKeeps
    <3> QED
      BY <2>8, <3>2, <3>3, <3>4
  <2>9. CASE SaveSuccess(p)
    <3>1. InvoiceFields([Seen(p) EXCEPT !.status = "payed", !.payed = TRUE, !.tx = stack[p].tx])
      BY <2>2, <2>9 DEF SaveSuccess, InvoiceFields, InvoiceStatuses
    <3> QED
      BY <2>2, <2>9, <3>1, SaveKeeps DEF SaveSuccess, InvoiceFields
  <2>10. CASE MarkAsPaid(p)
    <3>1. InvoiceFields([Seen(p) EXCEPT !.status = "payed", !.payed = TRUE])
      BY <2>2, <2>10 DEF MarkAsPaid, InvoiceFields, InvoiceStatuses
    <3> QED
      BY <2>2, <2>10, <3>1, SaveKeeps DEF MarkAsPaid, InvoiceFields
  <2>11. CASE UpdateInvoice(p)
    <3>1. PICK to \in InvTransitions(Seen(p).status) :
            SaveInvoice(p, [Seen(p) EXCEPT !.status = to])
      BY <2>11 DEF UpdateInvoice
    <3>2. ~Seen(p).payed
      BY <1>1, <2>11 DEF InvoiceFrame, UpdateInvoice
    <3>3. to \in {"draft", "completed", "archived"} /\ Seen(p).status # "paying"
      BY <3>1 DEF InvTransitions
    <3>4. InvoiceFields([Seen(p) EXCEPT !.status = to])
      BY <2>2, <2>11, <3>3 DEF UpdateInvoice, InvoiceFields, InvoiceStatuses
    <3> QED
      BY <2>2, <2>11, <3>1, <3>2, <3>3, <3>4, SaveKeeps DEF UpdateInvoice, InvoiceFields
  <2>12. CASE \E n \in DOMAIN txs : StartSuccess(p, n)
    <3>1. PICK n \in DOMAIN txs : StartSuccess(p, n)
      BY <2>12
    <3>2. txs[n] \in InvoiceTxs
      BY <2>1
    <3>3. /\ txs' \in Seq(InvoiceTxs) /\ DOMAIN txs' = DOMAIN txs /\ Len(txs') = Len(txs)
          /\ txs'[n].status = "success" /\ \A m \in DOMAIN txs \ {n} : txs'[m] = txs[m]
      BY <2>1, <3>1, <3>2 DEF StartSuccess, InvoiceTxs
    <3>4. /\ pc' = [pc EXCEPT ![p] = "success"]
          /\ stack' = [stack EXCEPT ![p] = [InvFrame EXCEPT !.tx = n]]
          /\ UNCHANGED <<inv, settled, crossed>>
      BY <3>1 DEF StartSuccess
    <3>5. TxsGoOn /\ UnderWayTxs' \subseteq UnderWayTxs
      BY <3>3 DEF TxsGoOn, UnderWayTxs
    <3>6. InvoiceFrame(p)' /\ InvoiceMaps' /\ Requesting' \subseteq Requesting
      BY <1>1, <2>1, <3>3, <3>4 DEF InvoiceFrame, InvoiceMaps, InvFrame, Requesting
    <3>7. \A q \in Procs : InvoiceFrame(q)'
      BY <2>1, <3>4, <3>5, <3>6, FramesKept
    <3> QED
      BY <3>3, <3>4, <3>5, <3>6, <3>7, CalmKept DEF InvoiceInv
  <2>13. CASE ClaimInvoice(p)
    <3>1. CASE Return(p) /\ UNCHANGED inv
      <4>1. Reads(p, "idle", NoStack) /\ InvoiceFrame(p)'
        BY <2>1, <2>13, <3>1 DEF Reads, InvoiceFrame, ClaimInvoice
      <4> QED
        BY <4>1, ReadsKeeps
    <3>2. CASE inv.status = "completed" /\ ~inv.payed
      <4>1. /\ pc' = [pc EXCEPT ![p] = "route"]
            /\ stack' = [stack EXCEPT ![p] = [stack[p] EXCEPT !.seen = inv']]
            /\ inv' = [inv EXCEPT !.status = "paying"]
            /\ UNCHANGED <<txs, settled, crossed>> /\ pc[p] = "claim"
        BY <2>13, <3>2 DEF ClaimInvoice
      <4>2. InvoiceFields(inv') /\ inv'.status = "paying" /\ inv'.payed = inv.payed
        BY <2>1, <4>1 DEF InvoiceFields, InvoiceStatuses
      <4>3. InvoiceFrame(p)' /\ TxsGoOn /\ InvoiceMaps'
        BY <1>1, <2>1, <2>2, <3>2, <4>1, <4>2 DEF InvoiceFrame, TxsGoOn, InvoiceMaps
      <4>4. \A q \in Procs : InvoiceFrame(q)'
        BY <2>1, <4>1, <4>3, FramesKept
      <4>5. Requesting' = Requesting \cup {p} /\ UnderWayTxs' = UnderWayTxs
        BY <2>1, <4>1 DEF Requesting, UnderWayTxs
      <4>6. ~crossed' => Calm'
        BY <1>1, <3>2, <4>1, <4>2, <4>5 DEF Calm
      <4> QED
        BY <4>3, <4>4, <4>6 DEF InvoiceInv
    <3> QED
      BY <2>13, <3>1, <3>2 DEF ClaimInvoice
  <2>14. CASE RouteOk(p) \/ RouteLost(p) \/ RouteRefused(p)
    <3>1. /\ pc[p] = "route" /\ p \in Requesting /\ UNCHANGED <<inv, settled, crossed>>
          /\ Seen(p).status = "paying" /\ ~Seen(p).payed
      BY <1>1, <2>14 DEF RouteOk, RouteLost, RouteRefused, Requesting, InvoiceFrame
    <3>2. \/ txs' = txs
          \/ \E status \in {"pending", "closed"}, c \in {"none", "open", "refused"} :
               /\ txs' = Append(txs, [status |-> status, charge |-> c])
               /\ RouteRefused(p) => c # "open"
      BY <2>14 DEF RouteOk, RouteLost, RouteRefused, AddTx
    <3>3. /\ txs' \in Seq(InvoiceTxs) /\ TxsGoOn
          /\ UnderWayTxs' \subseteq UnderWayTxs \cup {Len(txs')}
          /\ RouteRefused(p) => UnderWayTxs' \subseteq UnderWayTxs
      <4>1. CASE txs' = txs
        BY <2>1, <4>1 DEF TxsGoOn, UnderWayTxs
      <4>2. CASE txs' # txs
        <5>1. PICK t \in InvoiceTxs : txs' = Append(txs, t) /\ (RouteRefused(p) => t.charge # "open")
          BY <3>2, <4>2 DEF InvoiceTxs
        <5> QED
          BY <2>1, <5>1, TxAdded
      <4> QED
        BY <4>1, <4>2
    <3>4. PICK label \in {"savePay", "idle", "release"} :
            /\ pc' = [pc EXCEPT ![p] = label]
            /\ DOMAIN stack' = Procs
            /\ \A q \in Procs \ {p} : stack'[q] = stack[q]
            /\ label = "release" => RouteRefused(p)
            /\ label # "idle" => stack'[p] \in {stack[p], [stack[p] EXCEPT !.tx = Len(txs) + 1]}
      <4>1. CASE RouteOk(p)
        BY <2>1, <4>1 DEF RouteOk
      <4>2. CASE RouteRefused(p)
        BY <2>1, <4>2 DEF RouteRefused
      <4>3. CASE RouteLost(p)
        BY <2>1, <4>3 DEF RouteLost
      <4> QED
        BY <2>14, <4>1, <4>2, <4>3
    <3>5. InvoiceFrame(p)' /\ InvoiceMaps'
      BY <1>1, <2>1, <2>2, <3>1, <3>3, <3>4 DEF InvoiceFrame, InvoiceMaps
    <3>6. \A q \in Procs : InvoiceFrame(q)'
      BY <2>1, <3>3, <3>4, <3>5, FramesKept
    <3>7. ~crossed' => Calm'
      <4> SUFFICES ASSUME ~crossed' PROVE Calm'
        OBVIOUS
      <4>1. Calm /\ Requesting = {p} /\ UnderWayTxs = {} /\ inv.status \in {"paying", "payed"}
        BY <1>1, <2>1, <3>1 DEF Calm, InvoiceFields, InvoiceStatuses, Requesting
      <4>2. Requesting' = IF pc'[p] = "release" THEN {p} ELSE {}
        BY <2>1, <3>4, <4>1 DEF Requesting
      <4>3. Requesting' # {} => UnderWayTxs' = {}
        BY <2>1, <3>3, <3>4, <4>1, <4>2
      <4>4. UnderWayTxs' \subseteq {Len(txs')}
        BY <3>3, <4>1
      <4> QED
        BY <3>1, <4>1, <4>2, <4>3, <4>4 DEF Calm
    <3> QED
      BY <3>5, <3>6, <3>7 DEF InvoiceInv
  <2>15. CASE Release(p)
    <3>1. /\ pc' = [pc EXCEPT ![p] = "idle"] /\ stack' = [stack EXCEPT ![p] = NoStack]
          /\ inv' = IF inv.status = "paying" THEN [inv EXCEPT !.status = "completed"] ELSE inv
          /\ p \in Requesting /\ UNCHANGED <<txs, settled, crossed>>
      BY <2>15 DEF Release, Requesting
    <3>2. /\ InvoiceFields(inv') /\ inv'.payed = inv.payed
          /\ inv'.status = IF inv.status = "paying" THEN "completed" ELSE inv.status
      BY <2>1, <3>1 DEF InvoiceFields, InvoiceStatuses
    <3>3. InvoiceFrame(p)' /\ InvoiceMaps' /\ TxsGoOn
      BY <1>1, <2>1, <3>1, <3>2 DEF InvoiceFrame, InvoiceMaps, TxsGoOn
    <3>4. \A q \in Procs : InvoiceFrame(q)'
      BY <2>1, <3>1, <3>3, FramesKept
    <3>5. Requesting' = Requesting \ {p} /\ UnderWayTxs' = UnderWayTxs
      BY <2>1, <3>1 DEF Requesting, UnderWayTxs
    <3>6. ~crossed' => Calm'
      BY <1>1, <3>1, <3>2, <3>5 DEF Calm
    <3> QED
      BY <3>3, <3>4, <3>6 DEF InvoiceInv
  <2>16. CASE SavePay(p)
    <3>1. /\ pc' = [pc EXCEPT ![p] = "idle"] /\ stack' = [stack EXCEPT ![p] = NoStack]
          /\ inv' = [inv EXCEPT !.status = "paying", !.tx = stack[p].tx]
          /\ crossed' = (crossed \/ inv # Seen(p)) /\ UNCHANGED <<txs, settled>>
          /\ pc[p] = "savePay" /\ Seen(p).status = "paying"
      BY <1>1, <2>16 DEF SavePay, InvoiceFrame
    <3>2. InvoiceFields(inv') /\ inv'.payed = inv.payed /\ inv'.status = "paying"
      BY <2>1, <3>1 DEF InvoiceFields, InvoiceStatuses
    <3>3. InvoiceFrame(p)' /\ InvoiceMaps' /\ TxsGoOn
      BY <1>1, <2>1, <3>1, <3>2 DEF InvoiceFrame, InvoiceMaps, TxsGoOn
    <3>4. \A q \in Procs : InvoiceFrame(q)'
      BY <2>1, <3>1, <3>3, FramesKept
    <3>5. Requesting' = Requesting /\ UnderWayTxs' = UnderWayTxs
      BY <2>1, <3>1 DEF Requesting, UnderWayTxs
    <3>6. ~crossed' => Calm'
      BY <1>1, <3>1, <3>2, <3>5 DEF Calm
    <3> QED
      BY <3>3, <3>4, <3>6 DEF InvoiceInv
  <2>17. CASE Reopen(p)
    <3>1. /\ pc' = [pc EXCEPT ![p] = "idle"] /\ stack' = [stack EXCEPT ![p] = NoStack]
          /\ inv' = [inv EXCEPT !.status = "completed", !.payed = FALSE, !.tx = 0]
          /\ crossed' = (crossed \/ inv # Seen(p) \/ stack[p].tx # Len(txs) \/ Requesting # {})
          /\ pc[p] = "reopen" /\ ~Seen(p).payed /\ txs[stack[p].tx].status # "pending"
          /\ UNCHANGED <<txs, settled>>
      BY <1>1, <2>17 DEF Reopen, InvoiceFrame
    <3>2. InvoiceFields(inv') /\ ~inv'.payed /\ inv'.status = "completed"
      BY <2>1, <3>1 DEF InvoiceFields, InvoiceStatuses
    <3>3. InvoiceFrame(p)' /\ InvoiceMaps' /\ TxsGoOn
      BY <1>1, <2>1, <3>1, <3>2 DEF InvoiceFrame, InvoiceMaps, TxsGoOn
    <3>4. \A q \in Procs : InvoiceFrame(q)'
      BY <2>1, <3>1, <3>3, FramesKept
    <3>5. Requesting' = Requesting /\ UnderWayTxs' = UnderWayTxs
      BY <2>1, <3>1 DEF Requesting, UnderWayTxs
    <3>6. ~crossed' => Calm'
      <4> SUFFICES ASSUME ~crossed' PROVE Calm'
        OBVIOUS
      <4>1. Calm /\ Requesting = {} /\ ~inv.payed /\ txs[Len(txs)].status # "pending"
        BY <1>1, <3>1
      <4>2. UnderWayTxs = {}
        BY <4>1 DEF Calm, UnderWayTxs
      <4> QED
        BY <3>1, <3>2, <3>5, <4>1, <4>2 DEF Calm
    <3> QED
      BY <3>3, <3>4, <3>6 DEF InvoiceInv
  <2> QED
    BY <1>5, <2>5, <2>6, <2>7, <2>8, <2>9, <2>10, <2>11, <2>12, <2>13, <2>14, <2>15, <2>16, <2>17
<1> QED
  BY <1>3, <1>4, <1>5 DEF InvoiceNext

LEMMA InvoiceAlways == InvoiceSpec => []InvoiceInv
BY InvoiceStart, InvoiceStep, PTL DEF InvoiceSpec

(* Nobody is asked for the money of one invoice twice at a time, however   *)
(* many payers, visits and crons there are, until a save crosses another   *)
(* or the cron reopens the invoice on the request of a payer.              *)
THEOREM OneChargeIsUnderWay == InvoiceSpec => []OneChargeAtATime
<1>1. InvoiceInv => OneChargeAtATime
  <2> SUFFICES ASSUME InvoiceInv, ~crossed PROVE Cardinality(UnderWayTxs) <= 1
    BY DEF OneChargeAtATime
  <2>1. UnderWayTxs \subseteq {Len(txs)}
    BY DEF InvoiceInv, Calm
  <2>2. UnderWayTxs = {} \/ UnderWayTxs = {Len(txs)}
    BY <2>1
  <2> QED
    <3>1. Cardinality({Len(txs)}) = 1 /\ Cardinality({}) = 0
      BY FS_Singleton, FS_EmptySet
    <3>2. CASE UnderWayTxs = {}
      BY <3>1, <3>2
    <3>3. CASE UnderWayTxs = {Len(txs)}
      BY <3>1, <3>3
    <3> QED
      BY <2>2, <3>2, <3>3
<1> QED
  BY <1>1, InvoiceAlways, PTL

(* A paid invoice stays paid, whatever else is done with it at the same    *)
(* time, unless a save crosses another.                                    *)
THEOREM PaidInvoiceIsKept == InvoiceSpec => []PayedIsKept
<1>1. InvoiceInv => PayedIsKept
  BY DEF InvoiceInv, Calm, PayedIsKept
<1> QED
  BY <1>1, InvoiceAlways, PTL

----
(* The money of an order.                                                  *)

FlowNames == {"taken", "collected", "credited", "shared", "sent", "returned"}
MoneyOrders == [type : OrderTypes, price : Nat, total : Nat, override : Nat \cup {NoRate},
                gateway : BOOLEAN, payer : Payers]

MoneyTypes ==
    /\ invoiceTaxes \in Nat /\ providerCommission \in Nat /\ rateChanges \in Nat
    /\ order \in MoneyOrders
    /\ flows \in [FlowNames -> Int]
    /\ DOMAIN pc = Procs

(* The fees of a transfer from the balance are computed twice in one way.  *)
SameFees ==
    order.type = "balanceTransfer" =>
        /\ order.override # 0 /\ ~order.gateway
        /\ order.override = NoRate => rateChanges = 0

(* One handler records a transfer whose amount has been taken.             *)
Recording ==
    /\ \A p \in Procs : pc[p] = "record" => stage = "record"
    /\ \A p, q \in Procs : pc[p] = "record" /\ pc[q] = "record" => p = q

(* What has been moved of an order by the time it is at a stage.           *)
AtNone ==
    stage = "none" =>
        /\ flows.taken = 0 /\ flows.collected = 0 /\ flows.credited = 0
        /\ flows.shared = 0 /\ flows.sent = 0 /\ flows.returned = 0

AtRecord ==
    stage = "record" =>
        /\ order.type = "balanceTransfer" /\ order.price <= flows.taken
        /\ flows.collected = 0 /\ flows.credited = 0 /\ flows.sent = 0 /\ flows.returned = 0
        /\ SameFees => flows.taken = DebitedTotal(order)

AtPayin ==
    stage \in {"payin", "paid"} =>
        /\ order.type \in {"sale", "transfer", "recharge"} /\ order.price <= order.total
        /\ flows.taken = 0 /\ flows.collected = IF stage = "paid" THEN order.total ELSE 0
        /\ flows.credited = 0 /\ flows.shared = 0 /\ flows.sent = 0 /\ flows.returned = 0

AtPayout ==
    stage \in {"payout", "sent", "refunded"} =>
        /\ order.type # "sale"
        /\ order.price <= Received
        /\ SameFees => Received = RefundAmount
        /\ flows.credited = 0
        /\ flows.sent = IF stage = "sent" THEN order.price ELSE 0
        /\ flows.returned = IF stage = "refunded" THEN RefundAmount ELSE 0

AtDone ==
    stage = "done" =>
        /\ flows.credited + flows.sent <= Received
        /\ order.type = "sale" => flows.collected = flows.credited + flows.shared

FlowsFit ==
    /\ stage \in Stages
    /\ order.type = "balanceTransfer" => order.payer = "customer"
    /\ AtNone /\ AtRecord /\ AtPayin /\ AtPayout /\ AtDone

MoneyInv == MoneyTypes /\ Recording /\ FlowsFit

(* Fees are rounded up, and a rate of 0 has none.                          *)
LEMMA FeeIsNat == ASSUME NEW a \in Nat, NEW r \in Nat PROVE ArrondOnExeed(a, r) \in Nat
<1>1. a * r \in Nat
  OBVIOUS
<1> QED
  BY <1>1 DEF ArrondOnExeed

LEMMA NoFeeAtZero == ASSUME NEW a \in Nat PROVE ArrondOnExeed(a, 0) = 0
<1>1. a * 0 = 0
  OBVIOUS
<1> QED
  BY <1>1 DEF ArrondOnExeed

LEMMA DebitCovers ==
    ASSUME NEW o \in MoneyOrders, invoiceTaxes \in Nat
    PROVE  DebitedTotal(o) \in Nat /\ o.price <= DebitedTotal(o)
<1> DEFINE rate == IF o.override \in {NoRate, 0} THEN invoiceTaxes ELSE o.override
<1>1. rate \in Nat /\ o.price \in Nat
  BY DEF MoneyOrders
<1>2. ArrondOnExeed(o.price, rate) \in Nat
  BY <1>1, FeeIsNat
<1> QED
  BY <1>1, <1>2 DEF DebitedTotal

LEMMA StoredCovers ==
    ASSUME NEW o \in MoneyOrders, invoiceTaxes \in Nat, providerCommission \in Nat
    PROVE  /\ StoredTotal(o) \in Nat /\ o.price <= StoredTotal(o)
           /\ NoFees(o.type) => StoredTotal(o) = o.price
           /\ ~NoFees(o.type) /\ ~o.gateway /\ o.override # 0 /\ o.payer = "customer" =>
                StoredTotal(o) = DebitedTotal(o)
<1> DEFINE rate == IF o.override = NoRate THEN invoiceTaxes ELSE o.override
           commission == IF o.gateway THEN providerCommission ELSE 0
           base == o.price + ArrondOnExeed(o.price, rate)
<1>1. rate \in Nat /\ o.price \in Nat /\ commission \in Nat
  BY DEF MoneyOrders
<1>2. base \in Nat /\ o.price <= base
  <2>1. ArrondOnExeed(o.price, rate) \in Nat
    BY <1>1, FeeIsNat
  <2> QED
    BY <1>1, <2>1
<1>3. ArrondOnExeed(base, commission) \in Nat
  BY <1>1, <1>2, FeeIsNat
<1>4. ~o.gateway => ArrondOnExeed(base, commission) = 0
  BY <1>2, NoFeeAtZero
<1>5. o.override # 0 => DebitedTotal(o) = base
  BY DEF DebitedTotal
<1>6. StoredTotal(o) = IF NoFees(o.type) THEN o.price
                       ELSE IF o.payer = "customer" THEN base + ArrondOnExeed(base, commission)
                       ELSE o.price
  BY DEF StoredTotal, PaymentAmount
<1> HIDE DEF base, commission, rate
<1> QED
  BY <1>1, <1>2, <1>3, <1>4, <1>5, <1>6

LEMMA RequestedIsOrder ==
    ASSUME NEW type \in OrderTypes, NEW o \in Requested(type), o.override # Refused
    PROVE  /\ o \in MoneyOrders /\ o.type = type
           /\ type # "sale" => o.payer = "customer"
<1>1. PICK price \in Prices, gateway \in BOOLEAN, named \in Payers \cup {NoCode},
           said \in Payers, payerCode \in DOMAIN Methods \cup {NoCode},
           legacyCode \in DOMAIN Methods \cup {NoCode, "unknown"} :
             o = [type |-> type, price |-> price, total |-> 0, gateway |-> gateway,
                  override |-> ResolveTaxOverride(type, payerCode, legacyCode),
                  payer |-> CommissionPayer(type, named, said)]
  BY SMTT(60) DEF Requested
<1>2. ResolveTaxOverride(type, payerCode, legacyCode) \in Nat \cup {NoRate, Refused}
  BY MoneyAssumption DEF ResolveTaxOverride, MethodDocs
<1>3. CommissionPayer(type, named, said) \in Payers /\ (type # "sale" => o.payer = "customer")
  BY <1>1 DEF CommissionPayer, Payers
<1>4. price \in Nat
  BY MoneyAssumption
<1> QED
  BY <1>1, <1>2, <1>3, <1>4 DEF MoneyOrders

(* What a movement of money does to the flows.                             *)
Share(amounts, f) == IF f \in DOMAIN amounts THEN amounts[f] ELSE 0

LEMMA Moved ==
    ASSUME flows \in [FlowNames -> Int], NEW amounts, DOMAIN amounts \subseteq FlowNames,
           \A f \in DOMAIN amounts : amounts[f] \in Int, Move(amounts)
    PROVE  /\ flows' \in [FlowNames -> Int]
           /\ flows'.taken = flows.taken + Share(amounts, "taken")
           /\ flows'.collected = flows.collected + Share(amounts, "collected")
           /\ flows'.credited = flows.credited + Share(amounts, "credited")
           /\ flows'.shared = flows.shared + Share(amounts, "shared")
           /\ flows'.sent = flows.sent + Share(amounts, "sent")
           /\ flows'.returned = flows.returned + Share(amounts, "returned")
<1>1. \A f \in FlowNames : flows'[f] = flows[f] + Share(amounts, f) /\ flows'[f] \in Int
  BY DEF Move, Share
<1>2. flows' \in [FlowNames -> Int]
  BY DEF Move
<1> QED
  BY <1>1, <1>2 DEF FlowNames

LEMMA MoneyStart == MoneyInit => MoneyInv
<1> SUFFICES ASSUME MoneyInit PROVE MoneyInv
  OBVIOUS
<1>1. MoneyTypes
  BY MoneyAssumption DEF MoneyInit, RequestsInit, MoneyTypes, MoneyOrders, NoOrder, NoFlows,
     FlowNames, OrderTypes, Sales, Payers, NoRate
<1>2. Recording
  BY DEF MoneyInit, RequestsInit, Recording
<1>3. FlowsFit
  BY DEF MoneyInit, NoOrder, NoFlows, FlowsFit, AtNone, AtRecord, AtPayin, AtPayout, AtDone, Stages
<1> QED
  BY <1>1, <1>2, <1>3 DEF MoneyInv

(* A step of the order alone.                                              *)
OrderStep == UNCHANGED <<reqVars, invoiceTaxes, providerCommission, rateChanges>>

LEMMA MoneyStep == MoneyInv /\ [MoneyNext]_moneyVars => MoneyInv'
<1> SUFFICES ASSUME MoneyInv, [MoneyNext]_moneyVars PROVE MoneyInv'
  OBVIOUS
<1> USE DEF RatesStay, reqVars, Received
<1>1. MoneyTypes /\ Recording /\ FlowsFit
  BY DEF MoneyInv
<1>2. /\ invoiceTaxes \in Nat /\ providerCommission \in Nat /\ order \in MoneyOrders
      /\ order.price \in Nat /\ order.total \in Nat /\ flows \in [FlowNames -> Int]
      /\ DOMAIN pc = Procs
  BY <1>1 DEF MoneyTypes, MoneyOrders
<1>0. /\ flows.taken \in Int /\ flows.collected \in Int /\ flows.credited \in Int
      /\ flows.shared \in Int /\ flows.sent \in Int /\ flows.returned \in Int
  BY <1>2 DEF FlowNames
<1>3. CASE UNCHANGED moneyVars
  BY <1>1, <1>3
     DEF moneyVars, moneyOnly, MoneyInv, MoneyTypes, Recording, FlowsFit, AtNone, AtRecord,
         AtPayin, AtPayout, AtDone, Stages, SameFees, RefundAmount, DebitedTotal
<1>4. CASE CreateOrder
  <2>0. PICK type \in {"sale", "transfer", "recharge"} :
          \E o \in Requested(type) : o.override # Refused /\ Store(o)
    BY <1>4 DEF CreateOrder
  <2>1. PICK o \in Requested(type) : o.override # Refused /\ Store(o)
    BY <2>0
  <2>2. o \in MoneyOrders /\ o.type = type
    BY <2>1, RequestedIsOrder DEF OrderTypes, Sales
  <2>3. StoredTotal(o) \in Nat /\ o.price <= StoredTotal(o)
    BY <1>2, <2>2, StoredCovers
  <2>4. order' \in MoneyOrders /\ order'.type = type /\ order'.price <= order'.total
    BY <2>1, <2>2, <2>3 DEF Store, MoneyOrders
  <2>5. /\ UNCHANGED <<flows, pc, invoiceTaxes, providerCommission, rateChanges>>
        /\ stage = "none" /\ stage' = "payin"
    BY <1>4 DEF CreateOrder
  <2>6. FlowsFit'
    BY <1>1, <2>4, <2>5 DEF FlowsFit, AtNone, AtRecord, AtPayin, AtPayout, AtDone, Stages
  <2> QED
    BY <1>1, <2>4, <2>5, <2>6 DEF MoneyInv, MoneyTypes, Recording
<1>5. CASE Withdraw
  <2>1. PICK o \in Requested("withdrawal") :
          o.override = NoRate /\ Store(o) /\ Move([taken |-> o.price])
    BY <1>5 DEF Withdraw
  <2>2. o \in MoneyOrders /\ o.type = "withdrawal"
    <3>1. "withdrawal" \in OrderTypes /\ o.override # Refused
      BY <2>1 DEF OrderTypes, NoRate, Refused
    <3> QED
      BY <2>1, <3>1, RequestedIsOrder
  <2>3. StoredTotal(o) = o.price /\ o.price \in Nat
    BY <1>2, <2>2, StoredCovers DEF NoFees, MoneyOrders
  <2>4. /\ order' \in MoneyOrders /\ order'.type = "withdrawal"
        /\ order'.price = o.price /\ order'.total = o.price
    BY <2>1, <2>2, <2>3 DEF Store, MoneyOrders
  <2>5. /\ UNCHANGED <<pc, invoiceTaxes, providerCommission, rateChanges>>
        /\ stage = "none" /\ stage' = "payout"
    BY <1>5 DEF Withdraw
  <2>6. /\ flows' \in [FlowNames -> Int]
        /\ flows'.taken = flows.taken + o.price
        /\ flows'.collected = flows.collected
        /\ flows'.credited = flows.credited
        /\ flows'.shared = flows.shared
        /\ flows'.sent = flows.sent
        /\ flows'.returned = flows.returned
    BY <1>0, <1>2, <2>1, <2>3, Moved DEF Share, FlowNames
  <2>7. RefundAmount' = o.price
    BY <2>4 DEF RefundAmount, IsTransfer
  <2>8. FlowsFit'
    BY <1>0, <1>1, <2>3, <2>4, <2>5, <2>6, <2>7
       DEF FlowsFit, AtNone, AtRecord, AtPayin, AtPayout, AtDone, Stages
  <2> QED
    BY <1>1, <2>4, <2>5, <2>6, <2>8 DEF MoneyInv, MoneyTypes, Recording
<1>6. ASSUME OrderStep, order' = order, flows' \in [FlowNames -> Int], stage # "record", FlowsFit'
      PROVE  MoneyInv'
  BY <1>1, <1>6 DEF OrderStep, MoneyInv, MoneyTypes, Recording
<1>16. OrderStep /\ order' = order => RefundAmount' = RefundAmount /\ SameFees' = SameFees
  BY DEF OrderStep, RefundAmount, SameFees
<1>17. RefundAmount \in Nat
  BY <1>2 DEF RefundAmount
<1>7. CASE CollectTotal
  <2>1. /\ flows' \in [FlowNames -> Int]
        /\ flows'.taken = flows.taken
        /\ flows'.collected = flows.collected + order.total
        /\ flows'.credited = flows.credited
        /\ flows'.shared = flows.shared
        /\ flows'.sent = flows.sent
        /\ flows'.returned = flows.returned
    BY <1>0, <1>2, <1>7, Moved DEF CollectTotal, Share, FlowNames
  <2>2. OrderStep /\ order' = order /\ stage = "payin" /\ stage' = "paid"
    BY <1>7 DEF CollectTotal, OrderStep
  <2>3. FlowsFit'
    BY <1>0, <1>1, <1>2, <2>1, <2>2
       DEF FlowsFit, AtNone, AtRecord, AtPayin, AtPayout, AtDone, Stages
  <2> QED
    BY <1>6, <2>1, <2>2, <2>3
<1>8. CASE PayTheReceiver
  <2>1. /\ flows' \in [FlowNames -> Int]
        /\ flows'.taken = flows.taken
        /\ flows'.collected = flows.collected
        /\ flows'.credited = flows.credited
        /\ flows'.shared = flows.shared
        /\ flows'.sent = flows.sent + order.price
        /\ flows'.returned = flows.returned
    BY <1>0, <1>2, <1>8, Moved DEF PayTheReceiver, Share, FlowNames
  <2>2. OrderStep /\ order' = order /\ stage = "payout" /\ stage' = "sent"
    BY <1>8 DEF PayTheReceiver, OrderStep
  <2>3. FlowsFit'
    BY <1>0, <1>1, <1>2, <1>16, <1>17, <2>1, <2>2
       DEF FlowsFit, AtNone, AtRecord, AtPayin, AtPayout, AtDone, Stages
  <2> QED
    BY <1>6, <2>1, <2>2, <2>3
<1>9. CASE RefundPayout
  <2>1. /\ flows' \in [FlowNames -> Int]
        /\ flows'.taken = flows.taken
        /\ flows'.collected = flows.collected
        /\ flows'.credited = flows.credited
        /\ flows'.shared = flows.shared
        /\ flows'.sent = flows.sent
        /\ flows'.returned = flows.returned + RefundAmount
    BY <1>0, <1>2, <1>9, <1>17, Moved DEF RefundPayout, Share, FlowNames
  <2>2. OrderStep /\ order' = order /\ stage = "payout" /\ stage' = "refunded"
    BY <1>9 DEF RefundPayout, OrderStep
  <2>3. FlowsFit'
    BY <1>0, <1>1, <1>2, <1>16, <1>17, <2>1, <2>2
       DEF FlowsFit, AtNone, AtRecord, AtPayin, AtPayout, AtDone, Stages
  <2> QED
    BY <1>6, <2>1, <2>2, <2>3
<1>10. CASE Reclaim
  <2>1. /\ flows' \in [FlowNames -> Int]
        /\ flows'.taken = flows.taken
        /\ flows'.collected = flows.collected
        /\ flows'.credited = flows.credited
        /\ flows'.shared = flows.shared
        /\ flows'.sent = flows.sent
        /\ flows'.returned = flows.returned + (-RefundAmount)
    BY <1>0, <1>2, <1>10, <1>17, Moved DEF Reclaim, Share, FlowNames
  <2>2. OrderStep /\ order' = order /\ stage = "refunded" /\ stage' = "payout"
    BY <1>10 DEF Reclaim, OrderStep
  <2>3. FlowsFit'
    BY <1>0, <1>1, <1>2, <1>16, <1>17, <2>1, <2>2
       DEF FlowsFit, AtNone, AtRecord, AtPayin, AtPayout, AtDone, Stages
  <2> QED
    BY <1>6, <2>1, <2>2, <2>3
<1>11. CASE SettleOrder
  <2>1. OrderStep /\ order' = order /\ stage = "paid"
    BY <1>11 DEF SettleOrder, OrderStep
  <2>2. CASE IsTransfer(order.type)
    <3>1. stage' = "payout" /\ flows' = flows
      BY <1>11, <2>2 DEF SettleOrder
    <3>2. RefundAmount = order.total /\ order.type # "sale"
      BY <2>2 DEF RefundAmount, IsTransfer
    <3>3. FlowsFit'
      BY <1>0, <1>1, <1>2, <1>16, <2>1, <3>1, <3>2
         DEF FlowsFit, AtNone, AtRecord, AtPayin, AtPayout, AtDone, Stages
    <3> QED
      BY <1>2, <1>6, <2>1, <3>1, <3>3
  <2>3. CASE ~IsTransfer(order.type) /\ order.type = "recharge"
    <3> DEFINE share == order.price - (IF order.gateway
                                       THEN ArrondOnExeed(order.price, providerCommission) ELSE 0)
    <3>1. stage' = "done" /\ Move([shared |-> share])
      BY <1>11, <2>3 DEF SettleOrder
    <3>2. share \in Int
      <4>1. ArrondOnExeed(order.price, providerCommission) \in Nat
        BY <1>2, FeeIsNat
      <4> QED
        BY <1>2, <4>1
    <3> HIDE DEF share
    <3>3. /\ flows' \in [FlowNames -> Int]
          /\ flows'.taken = flows.taken
          /\ flows'.collected = flows.collected
          /\ flows'.credited = flows.credited
          /\ flows'.shared = flows.shared + share
          /\ flows'.sent = flows.sent
          /\ flows'.returned = flows.returned
      BY <1>0, <1>2, <3>1, <3>2, Moved DEF Share, FlowNames
    <3>4. FlowsFit'
      BY <1>0, <1>1, <1>2, <2>1, <2>3, <3>1, <3>3
         DEF FlowsFit, AtNone, AtRecord, AtPayin, AtPayout, AtDone, Stages
    <3> QED
      BY <1>6, <2>1, <3>3, <3>4
  <2>4. CASE ~IsTransfer(order.type) /\ order.type # "recharge"
    <3> DEFINE share == IF order.total > order.price THEN order.total - order.price ELSE 0
    <3>1. stage' = "done" /\ Move([credited |-> order.price, shared |-> share])
      BY <1>11, <2>4 DEF SettleOrder
    <3>2. share \in Int /\ order.price + share = order.total
      <4>1. order.price <= order.total
        BY <1>1, <2>1 DEF FlowsFit, AtPayin
      <4> QED
        BY <1>2, <4>1
    <3> HIDE DEF share
    <3>3. /\ flows' \in [FlowNames -> Int]
          /\ flows'.taken = flows.taken
          /\ flows'.collected = flows.collected
          /\ flows'.credited = flows.credited + order.price
          /\ flows'.shared = flows.shared + share
          /\ flows'.sent = flows.sent
          /\ flows'.returned = flows.returned
      BY <1>0, <1>2, <3>1, <3>2, Moved DEF Share, FlowNames
    <3>4. FlowsFit'
      BY <1>0, <1>1, <1>2, <2>1, <2>4, <3>1, <3>2, <3>3
         DEF FlowsFit, AtNone, AtRecord, AtPayin, AtPayout, AtDone, Stages
    <3> QED
      BY <1>6, <2>1, <3>3, <3>4
  <2> QED
    BY <2>2, <2>3, <2>4
<1>12. CASE ChangeRates
  <2>1. /\ UNCHANGED <<pc, order, stage, flows>> /\ rateChanges' = rateChanges + 1
        /\ invoiceTaxes' \in Nat /\ providerCommission' \in Nat /\ rateChanges \in Nat
    BY <1>1, <1>12, MoneyAssumption DEF ChangeRates, MoneyTypes
  <2>2. SameFees' => SameFees
    BY <2>1 DEF SameFees
  <2>3. order.type = "balanceTransfer" /\ SameFees' => DebitedTotal(order)' = DebitedTotal(order)
    BY <2>1 DEF DebitedTotal, SameFees
  <2>4. RefundAmount' = RefundAmount
    BY <2>1 DEF RefundAmount
  <2>5. FlowsFit'
    BY <1>1, <2>1, <2>2, <2>3, <2>4
       DEF FlowsFit, AtNone, AtRecord, AtPayin, AtPayout, AtDone, Stages
  <2> QED
    BY <1>1, <2>1, <2>5 DEF MoneyInv, MoneyTypes, Recording
<1>13. ASSUME NEW p \in Procs, DebitTransfer(p) PROVE MoneyInv'
  <2>1. PICK o \in Requested("balanceTransfer") :
          o.override # Refused /\ order' = o /\ Move([taken |-> DebitedTotal(o)])
    BY <1>13 DEF DebitTransfer
  <2>2. o \in MoneyOrders /\ o.type = "balanceTransfer" /\ o.payer = "customer"
    <3>1. "balanceTransfer" \in OrderTypes
      BY DEF OrderTypes
    <3> QED
      BY <2>1, <3>1, RequestedIsOrder
  <2>3. DebitedTotal(o) \in Nat /\ o.price <= DebitedTotal(o)
    BY <1>2, <2>2, DebitCovers
  <2>4. /\ pc' = [pc EXCEPT ![p] = "record"] /\ stage = "none" /\ stage' = "record"
        /\ UNCHANGED <<invoiceTaxes, providerCommission, rateChanges>>
    BY <1>13 DEF DebitTransfer, Begin
  <2>5. /\ flows' \in [FlowNames -> Int]
        /\ flows'.taken = flows.taken + DebitedTotal(o)
        /\ flows'.collected = flows.collected
        /\ flows'.credited = flows.credited
        /\ flows'.shared = flows.shared
        /\ flows'.sent = flows.sent
        /\ flows'.returned = flows.returned
    BY <1>0, <1>2, <2>1, <2>3, Moved DEF Share, FlowNames
  <2>6. DebitedTotal(order)' = DebitedTotal(o)
    BY <2>1, <2>4 DEF DebitedTotal
  <2>7. FlowsFit'
    BY <1>0, <1>1, <2>1, <2>2, <2>3, <2>4, <2>5, <2>6
       DEF FlowsFit, AtNone, AtRecord, AtPayin, AtPayout, AtDone, Stages
  <2>8. Recording'
    BY <1>1, <1>2, <2>4 DEF Recording
  <2> QED
    BY <1>1, <2>1, <2>2, <2>4, <2>5, <2>7, <2>8 DEF MoneyInv, MoneyTypes
<1>14. ASSUME NEW p \in Procs, RecordTransfer(p) PROVE MoneyInv'
  <2>1. /\ pc' = [pc EXCEPT ![p] = "idle"] /\ stage' = "payout" /\ Store(order)
        /\ UNCHANGED <<flows, invoiceTaxes, providerCommission, rateChanges>> /\ pc[p] = "record"
    BY <1>14 DEF RecordTransfer, Return, JumpWith
  <2>2. stage = "record" /\ order.type = "balanceTransfer" /\ order.payer = "customer"
    BY <1>1, <2>1 DEF Recording, FlowsFit, AtRecord
  <2>3. /\ StoredTotal(order) \in Nat
        /\ ~order.gateway /\ order.override # 0 => StoredTotal(order) = DebitedTotal(order)
    BY <1>2, <2>2, StoredCovers DEF NoFees
  <2>4. /\ order' \in MoneyOrders /\ order'.total = StoredTotal(order)
        /\ order'.type = order.type /\ order'.price = order.price /\ order'.payer = order.payer
        /\ order'.override = order.override /\ order'.gateway = order.gateway
    BY <1>2, <2>1, <2>3 DEF Store, MoneyOrders
  <2>5. RefundAmount' = StoredTotal(order) /\ SameFees' = SameFees
    BY <2>1, <2>2, <2>4 DEF RefundAmount, IsTransfer, SameFees
  <2>6. SameFees => StoredTotal(order) = flows.taken
    BY <1>1, <2>2, <2>3 DEF FlowsFit, AtRecord, SameFees
  <2>7. FlowsFit'
    BY <1>0, <1>1, <2>1, <2>2, <2>4, <2>5, <2>6
       DEF FlowsFit, AtNone, AtRecord, AtPayin, AtPayout, AtDone, Stages
  <2>8. Recording'
    BY <1>1, <1>2, <2>1 DEF Recording
  <2> QED
    BY <1>1, <2>1, <2>4, <2>7, <2>8 DEF MoneyInv, MoneyTypes
<1>15. ASSUME NEW p \in Procs, RollBackTransfer(p) \/ MoneyCrash(p) PROVE MoneyInv'
  <2>1. /\ pc' = [pc EXCEPT ![p] = "idle"] /\ stage' = "done" /\ order' = order
        /\ UNCHANGED <<invoiceTaxes, providerCommission, rateChanges>> /\ pc[p] = "record"
    BY <1>15 DEF RollBackTransfer, MoneyCrash, FaultyReturn
  <2>2. stage = "record" /\ order.type = "balanceTransfer"
    BY <1>1, <2>1 DEF Recording, FlowsFit, AtRecord
  <2>3. /\ flows' \in [FlowNames -> Int] /\ flows'.taken = flows.taken
        /\ flows'.collected = flows.collected /\ flows'.credited = flows.credited
        /\ flows'.sent = flows.sent
    <3>1. CASE RollBackTransfer(p)
      <4>1. Move([returned |-> flows.taken])
        BY <3>1 DEF RollBackTransfer
      <4> QED
        BY <1>0, <1>2, <4>1, Moved DEF Share, FlowNames
    <3>2. CASE MoneyCrash(p)
      BY <1>2, <3>2 DEF MoneyCrash
    <3> QED
      BY <1>15, <3>1, <3>2
  <2>4. FlowsFit'
    BY <1>0, <1>1, <1>2, <2>1, <2>2, <2>3
       DEF FlowsFit, AtNone, AtRecord, AtPayin, AtPayout, AtDone, Stages
  <2>5. Recording'
    BY <1>1, <1>2, <2>1 DEF Recording
  <2> QED
    BY <1>1, <2>1, <2>3, <2>4, <2>5 DEF MoneyInv, MoneyTypes
<1> QED
  BY <1>3, <1>4, <1>5, <1>7, <1>8, <1>9, <1>10, <1>11, <1>12, <1>13, <1>14, <1>15 DEF MoneyNext

LEMMA MoneyAlways == MoneySpec => []MoneyInv
BY MoneyStart, MoneyStep, PTL DEF MoneySpec

(* A payout that fails gives back to the last unit what was taken for it,  *)
(* and a retry takes that again, for any prices, rates and methods that    *)
(* compute the fees of a transfer from the balance in the same way.        *)
THEOREM RefundIsExact == MoneySpec => []RefundGivesBack
<1>1. MoneyInv => RefundGivesBack
  BY DEF MoneyInv, FlowsFit, AtPayout, SameFees, RefundGivesBack
<1> QED
  BY <1>1, MoneyAlways, PTL

(* What a customer paid for a sale is shared without a rest, and no more   *)
(* leaves an order than came in, however the fees are rounded.             *)
THEOREM SharesAddUp == MoneySpec => []CollectedAddsUp
<1>1. MoneyInv => CollectedAddsUp
  <2> SUFFICES ASSUME MoneyInv PROVE CollectedAddsUp
    OBVIOUS
  <2> QED
    <3>1. /\ flows.taken \in Int /\ flows.collected \in Int /\ flows.credited \in Int
          /\ flows.shared \in Int /\ flows.sent \in Int /\ order.price \in Nat /\ order.total \in Nat
      BY DEF MoneyInv, MoneyTypes, MoneyOrders, FlowNames
    <3>2. CASE stage \in {"none", "record", "payin", "paid"}
      BY <3>1, <3>2 DEF MoneyInv, FlowsFit, AtNone, AtRecord, AtPayin, Received, CollectedAddsUp
    <3>3. CASE stage \in {"payout", "sent", "refunded"}
      BY <3>1, <3>3 DEF MoneyInv, FlowsFit, AtPayout, Received, CollectedAddsUp
    <3>4. CASE stage = "done"
      BY <3>1, <3>4 DEF MoneyInv, FlowsFit, AtDone, Received, CollectedAddsUp
    <3> QED
      BY <3>2, <3>3, <3>4 DEF MoneyInv, FlowsFit, Stages
<1> QED
  BY <1>1, MoneyAlways, PTL

----
(* What a payin is for.                                                    *)

FulfilMaps ==
    /\ DOMAIN pc = Procs /\ DOMAIN stack = Procs
    /\ DOMAIN orderTx = Orders /\ DOMAIN request = Asked
    /\ faults \in [Faults -> Nat]

(* What a handler works on.                                                *)
FulfilFrame(p) ==
    /\ pc[p] \in {"accept", "refuse", "request", "giveUp", "closeRequest"} => OrderOf(p) \in Asked
    /\ pc[p] \in {"donate", "insert", "collect"} => OrderOf(p) \in Given
    /\ pc[p] \in {"find", "sell"} => OrderOf(p) \in Sold
    /\ pc[p] \in {"fees", "closeTx"} => OrderOf(p) \in Orders
    /\ pc[p] \in {"look", "write"} =>
        /\ DOMAIN stack[p] = {"subject", "to", "first", "todo", "seen"}
        /\ stack[p].todo \subseteq Asked

FulfilBase == FulfilMaps /\ \A p \in Procs : FulfilFrame(p)

LEMMA FulfilBaseStart == FulfilmentInit => FulfilBase
BY DEF FulfilmentInit, RequestsInit, FulfilBase, FulfilMaps, FulfilFrame

(* A step of one handler.                                                  *)
StepOf(p) ==
    /\ DOMAIN pc' = Procs /\ DOMAIN stack' = Procs
    /\ \A q \in Procs \ {p} : pc'[q] = pc[q] /\ stack'[q] = stack[q]

OfHandler(p) ==
    \/ \E t \in Asked : RequestPayment(p, t)
    \/ \E t \in Orders :
        \/ StartFulfil(p, t)
        \/ \E first \in {"tx", "request"} : StartGivingUp(p, t, first)
    \/ Accept(p) \/ Refuse(p) \/ CreditFees(p) \/ FailToCreditFees(p) \/ MarkRequest(p)
    \/ FailToMarkRequest(p) \/ GiveUpRequest(p) \/ FindDonation(p) \/ InsertDonation(p)
    \/ CollectDonation(p) \/ FindSale(p) \/ CreateSale(p) \/ FailToDeliver(p)
    \/ CloseOrderTx(p) \/ CloseRequest(p)
    \/ StartRequestSync(p) \/ LookAtTxs(p) \/ WriteSynced(p) \/ FulfilmentCrash(p)

OfNobody ==
    \/ \E t \in Orders : PayerActs(t) \/ ExpireOrder(t)
    \/ EndCampaign
    \/ \E t \in Given : Donate(t)
    \/ \E t \in Sold : BuyService(t)

LEMMA FulfilSplit == FulfilmentNext => OfNobody \/ \E p \in Procs : OfHandler(p)
BY DEF FulfilmentNext, OfNobody, OfHandler

LEMMA HandlerStep ==
    ASSUME FulfilBase, NEW p \in Procs, OfHandler(p)
    PROVE  StepOf(p) /\ FulfilMaps' /\ FulfilFrame(p)'
<1> USE DEF Begin, Jump, JumpWith, Return, FaultyReturn, FaultyJump, Handle, ForOrder, NoStack,
            OrderOf, StepOf, FulfilMaps, FulfilFrame, SetTx, SetRequest, PlaceOrder, fulfilOnly
<1>1. FulfilMaps /\ FulfilFrame(p)
  BY DEF FulfilBase
<1>2. CASE \E t \in Asked : RequestPayment(p, t)
  BY <1>1, <1>2 DEF RequestPayment, Orders
<1>3. CASE \E t \in Orders : StartFulfil(p, t)
  BY <1>1, <1>3 DEF StartFulfil
<1>4. CASE \E t \in Orders, first \in {"tx", "request"} : StartGivingUp(p, t, first)
  BY <1>1, <1>4 DEF StartGivingUp
<1>5. CASE Accept(p) \/ Refuse(p)
  BY <1>1, <1>5 DEF Accept, Refuse
<1>6. CASE CreditFees(p)
  BY <1>1, <1>6 DEF CreditFees, Orders
<1>7. CASE MarkRequest(p) \/ GiveUpRequest(p)
  BY <1>1, <1>7 DEF MarkRequest, GiveUpRequest
<1>8. CASE FindDonation(p) \/ InsertDonation(p) \/ CollectDonation(p) \/ FindSale(p) \/ CreateSale(p)
  BY <1>1, <1>8 DEF FindDonation, InsertDonation, CollectDonation, FindSale, CreateSale
<1>9. CASE CloseOrderTx(p) \/ CloseRequest(p)
  BY <1>1, <1>9 DEF CloseOrderTx, CloseRequest, Orders
<1>10. CASE StartRequestSync(p)
  BY <1>1, <1>10 DEF StartRequestSync, PendingRequests
<1>11. CASE LookAtTxs(p)
  <2> DEFINE ended == {t \in stack[p].todo : MappedStatus(orderTx[t]) # "PENDING"}
             seen == [t \in Asked |-> orderTx[t]]
  <2>1. \/ Return(p)
        \/ JumpWith(p, "write", [stack[p] EXCEPT !.todo = ended, !.seen = seen])
    BY <1>11 DEF LookAtTxs
  <2>2. pc[p] = "look" /\ UNCHANGED fulfilOnly /\ ended \subseteq stack[p].todo
    BY <1>11 DEF LookAtTxs
  <2>3. /\ DOMAIN stack[p] = {"subject", "to", "first", "todo", "seen"}
        /\ ended \subseteq Asked
    BY <1>1, <2>2
  <2> HIDE DEF ended, seen
  <2>4. CASE Return(p)
    BY <1>1, <2>2, <2>4
  <2>5. CASE JumpWith(p, "write", [stack[p] EXCEPT !.todo = ended, !.seen = seen])
    <3>1. /\ pc' = [pc EXCEPT ![p] = "write"] /\ UNCHANGED <<faults, orderTx, request>>
          /\ stack' = [stack EXCEPT ![p] = [stack[p] EXCEPT !.todo = ended, !.seen = seen]]
      BY <2>2, <2>5
    <3>2. stack'[p].todo = ended /\ DOMAIN stack'[p] = DOMAIN stack[p] /\ pc'[p] = "write"
      BY <1>1, <2>3, <3>1
    <3> QED
      BY <1>1, <2>3, <3>1, <3>2
  <2> QED
    BY <2>1, <2>4, <2>5
<1>12. CASE WriteSynced(p)
  BY <1>1, <1>12 DEF WriteSynced
<1>13. CASE FailToCreditFees(p) \/ FailToMarkRequest(p) \/ FailToDeliver(p) \/ FulfilmentCrash(p)
  BY <1>1, <1>13 DEF FailToCreditFees, FailToMarkRequest, FailToDeliver, FulfilmentCrash, Faulty
<1> QED
  BY <1>2, <1>3, <1>4, <1>5, <1>6, <1>7, <1>8, <1>9, <1>10, <1>11, <1>12, <1>13 DEF OfHandler

LEMMA NobodyStep ==
    ASSUME FulfilBase, OfNobody
    PROVE  UNCHANGED <<pc, stack, faults, request, donations, collectedAmount, sales, crossing>>
           /\ FulfilBase'
<1>1. UNCHANGED <<pc, stack, faults, request, donations, collectedAmount, sales, crossing>>
      /\ DOMAIN orderTx' = DOMAIN orderTx
  BY
     DEF OfNobody, PayerActs, ExpireOrder, EndCampaign, Donate, BuyService, PlaceOrder, SetTx,
         reqVars
<1> QED
  BY <1>1 DEF FulfilBase, FulfilMaps, FulfilFrame, OrderOf

LEMMA FulfilBaseStep == FulfilBase /\ [FulfilmentNext]_fulfilmentVars => FulfilBase'
<1> SUFFICES ASSUME FulfilBase, [FulfilmentNext]_fulfilmentVars PROVE FulfilBase'
  OBVIOUS
<1>1. CASE UNCHANGED fulfilmentVars
  BY <1>1 DEF fulfilmentVars, fulfilOnly, reqVars, FulfilBase, FulfilMaps, FulfilFrame, OrderOf
<1>2. ASSUME NEW p \in Procs, OfHandler(p) PROVE FulfilBase'
  <2>1. StepOf(p) /\ FulfilMaps' /\ FulfilFrame(p)'
    BY <1>2, HandlerStep
  <2>2. \A q \in Procs \ {p} : FulfilFrame(q)'
    BY <2>1 DEF FulfilBase, FulfilFrame, StepOf, OrderOf
  <2> QED
    BY <2>1, <2>2 DEF FulfilBase
<1> QED
  BY <1>1, <1>2, FulfilSplit, NobodyStep

(* After a fault nothing is promised, and before it there was none.        *)
LEMMA FaultIsFelt ==
    ASSUME FulfilMaps, NEW k, Faulty(k) PROVE ~Serene'
BY DEF FulfilMaps, Faulty, Serene

----
(* The claim of a payin is made once, and its handler alone delivers.      *)
DeliverySteps == {"fees", "donate", "insert", "collect", "find", "sell"}
Delivers(p) == pc[p] \in DeliverySteps
PaidTxs == {t \in Orders : orderTx[t] = "success"}
Gift == [t \in Given |-> Amount(t)]
Collectors == {OrderOf(p) : p \in {q \in Procs : pc[q] = "collect"}}

AfterClaim(p) ==
    /\ Delivers(p) => OrderOf(p) \in PaidTxs
    /\ pc[p] \in {"fees", "find", "sell"} /\ OrderOf(p) \in Sold => sales[OrderOf(p)] = 0
    /\ pc[p] \in {"fees", "donate", "insert"} => OrderOf(p) \notin donations
    /\ pc[p] = "collect" => OrderOf(p) \in donations

Alone(p, q) == Delivers(p) /\ Delivers(q) /\ p # q => OrderOf(p) # OrderOf(q)

OnceAtMost ==
    /\ sales \in [Sold -> {0, 1}]
    /\ \A t \in Sold \ PaidTxs : sales[t] = 0
    /\ donations \subseteq Given \cap PaidTxs /\ IsFiniteSet(donations)
    /\ collectedAmount \in Int

(* Without a fault nothing that was claimed is dropped.                    *)
Delivered(t) ==
    t \in PaidTxs =>
        \/ t \in Asked
        \/ t \in Sold /\ sales[t] = 1
        \/ t \in donations
        \/ \E p \in Procs : OrderOf(p) = t /\ pc[p] \in DeliverySteps \ {"collect"}

AllDelivered ==
    /\ \A t \in Orders : Delivered(t)
    /\ collectedAmount = SumFunctionOnSet(Gift, donations \ Collectors)

DeliveryInv ==
    /\ FulfilBase
    /\ \A p \in Procs : AfterClaim(p)
    /\ \A p, q \in Procs : Alone(p, q)
    /\ OnceAtMost
    /\ Serene => AllDelivered

LEMMA DeliveryStart == FulfilmentInit => DeliveryInv
<1> SUFFICES ASSUME FulfilmentInit PROVE DeliveryInv
  OBVIOUS
<1>1. /\ \A p \in Procs : pc[p] = "idle"
      /\ PaidTxs = {} /\ donations = {} /\ collectedAmount = 0 /\ sales = [t \in Sold |-> 0]
  BY DEF FulfilmentInit, RequestsInit, PaidTxs
<1>2. OnceAtMost
  BY <1>1, FS_EmptySet DEF OnceAtMost
<1>3. AllDelivered
  <2>1. donations \ Collectors = {}
    BY <1>1
  <2>2. SumFunctionOnSet(Gift, {}) = 0
    BY SumEmpty
  <2> QED
    BY <1>1, <2>1, <2>2 DEF AllDelivered, Delivered
<1> QED
  BY <1>1, <1>2, <1>3, FulfilBaseStart DEF DeliveryInv, AfterClaim, Alone, Delivers, DeliverySteps

(* A step that delivers nothing.                                           *)
LEMMA DeliveryAside ==
    ASSUME DeliveryInv, FulfilBase', NEW p \in Procs, StepOf(p),
           pc[p] \notin DeliverySteps, pc'[p] \notin DeliverySteps,
           PaidTxs' = PaidTxs, UNCHANGED <<donations, collectedAmount, sales>>,
           Serene' => Serene
    PROVE  DeliveryInv'
<1> USE DEF StepOf, OrderOf
<1>1. \A q \in Procs : AfterClaim(q)'
  <2> SUFFICES ASSUME NEW q \in Procs PROVE AfterClaim(q)'
    OBVIOUS
  <2>1. AfterClaim(q)
    BY DEF DeliveryInv
  <2>2. CASE q = p
    BY <2>2 DEF AfterClaim, Delivers, DeliverySteps
  <2>3. CASE q # p
    BY <2>1, <2>3 DEF AfterClaim, Delivers
  <2> QED
    BY <2>2, <2>3
<1>2. \A q, r \in Procs : Alone(q, r)'
  BY DEF DeliveryInv, Alone, Delivers
<1>3. OnceAtMost'
  BY DEF DeliveryInv, OnceAtMost
<1>4. Collectors' = Collectors
  BY DEF Collectors, DeliverySteps
<1>5. ASSUME Serene' PROVE AllDelivered'
  <2>1. AllDelivered
    BY <1>5 DEF DeliveryInv
  <2>2. \A t \in Orders : Delivered(t)'
    BY <2>1 DEF AllDelivered, Delivered
  <2>3. collectedAmount' = SumFunctionOnSet(Gift, donations' \ Collectors')
    BY <1>4, <2>1 DEF AllDelivered
  <2> QED
    BY <2>2, <2>3 DEF AllDelivered, Gift
<1> QED
  BY <1>1, <1>2, <1>3, <1>5 DEF DeliveryInv

(* A handler on its way from one step of a delivery to the next.           *)
LEMMA DeliveryGoesOn ==
    ASSUME DeliveryInv, FulfilBase', NEW p \in Procs, StepOf(p),
           Delivers(p), pc'[p] \in DeliverySteps \ {"collect"}, pc[p] # "collect",
           OrderOf(p)' = OrderOf(p), pc[p] = "fees" \/ (pc[p] = "donate" /\ pc'[p] = "insert")
                                       \/ (pc[p] = "find" /\ pc'[p] = "sell"),
           PaidTxs' = PaidTxs, UNCHANGED <<donations, collectedAmount, sales>>,
           Serene' => Serene
    PROVE  DeliveryInv'
<1> USE DEF StepOf, OrderOf
<1>1. \A q \in Procs : AfterClaim(q)'
  <2> SUFFICES ASSUME NEW q \in Procs PROVE AfterClaim(q)'
    OBVIOUS
  <2>1. AfterClaim(q) /\ FulfilFrame(q) /\ FulfilFrame(q)'
    BY DEF DeliveryInv, FulfilBase
  <2>2. CASE q = p
    BY <2>1, <2>2, FulfilmentAssumption DEF AfterClaim, Delivers, DeliverySteps, FulfilFrame
  <2>3. CASE q # p
    BY <2>1, <2>3 DEF AfterClaim, Delivers
  <2> QED
    BY <2>2, <2>3
<1>2. \A q, r \in Procs : Alone(q, r)'
  BY DEF DeliveryInv, Alone, Delivers
<1>3. OnceAtMost'
  BY DEF DeliveryInv, OnceAtMost
<1>4. Collectors' = Collectors
  BY DEF Collectors
<1>5. ASSUME Serene' PROVE AllDelivered'
  <2>1. AllDelivered
    BY <1>5 DEF DeliveryInv
  <2>2. \A t \in Orders : Delivered(t)'
    <3> SUFFICES ASSUME NEW t \in Orders PROVE Delivered(t)'
      OBVIOUS
    <3>1. Delivered(t)
      BY <2>1 DEF AllDelivered
    <3>2. ASSUME NEW q \in Procs, OrderOf(q) = t, pc[q] \in DeliverySteps \ {"collect"}
          PROVE  OrderOf(q)' = t /\ pc'[q] \in DeliverySteps \ {"collect"}
      BY <3>2
    <3> QED
      BY <3>1, <3>2 DEF Delivered
  <2>3. collectedAmount' = SumFunctionOnSet(Gift, donations' \ Collectors')
    BY <1>4, <2>1 DEF AllDelivered
  <2> QED
    BY <2>2, <2>3 DEF AllDelivered, Gift
<1> QED
  BY <1>1, <1>2, <1>3, <1>5 DEF DeliveryInv

(* The claim.                                                              *)
LEMMA DeliveryBegins ==
    ASSUME DeliveryInv, FulfilBase', NEW p \in Procs, StepOf(p), NEW t \in Orders \ PaidTxs,
           pc[p] = "idle", pc'[p] = "fees", OrderOf(p)' = t,
           PaidTxs' = PaidTxs \cup {t}, UNCHANGED <<donations, collectedAmount, sales>>,
           Serene' => Serene
    PROVE  DeliveryInv'
<1> USE DEF StepOf, OrderOf
<1>1. \A q \in Procs : AfterClaim(q)'
  <2> SUFFICES ASSUME NEW q \in Procs PROVE AfterClaim(q)'
    OBVIOUS
  <2>1. AfterClaim(q) /\ OnceAtMost
    BY DEF DeliveryInv
  <2>2. CASE q = p
    BY <2>1, <2>2 DEF AfterClaim, Delivers, DeliverySteps, OnceAtMost
  <2>3. CASE q # p
    BY <2>1, <2>3 DEF AfterClaim, Delivers
  <2> QED
    BY <2>2, <2>3
<1>2. \A q, r \in Procs : Alone(q, r)'
  BY DEF DeliveryInv, Alone, Delivers, AfterClaim
<1>3. OnceAtMost'
  BY DEF DeliveryInv, OnceAtMost
<1>4. Collectors' = Collectors
  BY DEF Collectors
<1>5. ASSUME Serene' PROVE AllDelivered'
  <2>1. AllDelivered
    BY <1>5 DEF DeliveryInv
  <2>2. \A u \in Orders : Delivered(u)'
    <3> SUFFICES ASSUME NEW u \in Orders PROVE Delivered(u)'
      OBVIOUS
    <3>1. Delivered(u)
      BY <2>1 DEF AllDelivered
    <3>2. ASSUME NEW q \in Procs, OrderOf(q) = u, pc[q] \in DeliverySteps \ {"collect"}
          PROVE  OrderOf(q)' = u /\ pc'[q] \in DeliverySteps \ {"collect"}
      BY <3>2 DEF DeliverySteps
    <3>3. u = t => OrderOf(p)' = u /\ pc'[p] \in DeliverySteps \ {"collect"}
      BY DEF DeliverySteps
    <3> QED
      BY <3>1, <3>2, <3>3 DEF Delivered
  <2>3. collectedAmount' = SumFunctionOnSet(Gift, donations' \ Collectors')
    BY <1>4, <2>1 DEF AllDelivered
  <2> QED
    BY <2>2, <2>3 DEF AllDelivered, Gift
<1> QED
  BY <1>1, <1>2, <1>3, <1>5 DEF DeliveryInv

(* The end of a delivery: a payment request has none of its own, a sale is *)
(* made, a donation is counted, or a fault stops the handler.              *)
LEMMA DeliveryEnds ==
    ASSUME DeliveryInv, FulfilBase', NEW p \in Procs, StepOf(p),
           Delivers(p), pc'[p] \notin DeliverySteps,
           PaidTxs' = PaidTxs, UNCHANGED donations, Serene' => Serene,
           \/ /\ ~Serene' \/ OrderOf(p) \in Asked
              /\ UNCHANGED <<collectedAmount, sales>>
           \/ /\ pc[p] = "sell" /\ UNCHANGED collectedAmount
              /\ sales' = [sales EXCEPT ![OrderOf(p)] = @ + 1]
           \/ /\ pc[p] = "collect" /\ UNCHANGED sales
              /\ collectedAmount' = collectedAmount + Amount(OrderOf(p))
    PROVE  DeliveryInv'
<1> USE DEF StepOf, OrderOf
<1> DEFINE t == OrderOf(p)
<1>0. /\ AfterClaim(p) /\ FulfilFrame(p) /\ OnceAtMost /\ t \in PaidTxs
      /\ \A q \in Procs \ {p} : Delivers(q) => OrderOf(q) # t
  BY DEF DeliveryInv, FulfilBase, AfterClaim, Alone
<1>1. \A q \in Procs : AfterClaim(q)'
  <2> SUFFICES ASSUME NEW q \in Procs PROVE AfterClaim(q)'
    OBVIOUS
  <2>1. AfterClaim(q)
    BY DEF DeliveryInv
  <2>2. CASE q = p
    BY <2>2 DEF AfterClaim, Delivers, DeliverySteps
  <2>3. CASE q # p
    <3>1. Delivers(q) => OrderOf(q) # t
      BY <1>0, <2>3
    <3>2. OrderOf(q) \in Sold /\ OrderOf(q) # t => sales'[OrderOf(q)] = sales[OrderOf(q)]
      BY <1>0 DEF OnceAtMost
    <3> QED
      BY <2>1, <2>3, <3>1, <3>2 DEF AfterClaim, Delivers, DeliverySteps
  <2> QED
    BY <2>2, <2>3
<1>2. \A q, r \in Procs : Alone(q, r)'
  BY DEF DeliveryInv, Alone, Delivers
<1>3. OnceAtMost'
  <2>1. pc[p] = "sell" => t \in Sold /\ sales[t] = 0
    BY <1>0 DEF AfterClaim, FulfilFrame
  <2>2. pc[p] = "collect" => Amount(t) \in Nat
    BY <1>0, FulfilmentAssumption DEF FulfilFrame
  <2> QED
    BY <1>0, <2>1, <2>2 DEF OnceAtMost
<1>4. Collectors' = IF pc[p] = "collect" THEN Collectors \ {t} ELSE Collectors
  BY <1>0 DEF Collectors, Delivers, DeliverySteps
<1>5. ASSUME Serene' PROVE AllDelivered'
  <2>1. AllDelivered
    BY <1>5 DEF DeliveryInv
  <2>2. \A u \in Orders : Delivered(u)'
    <3> SUFFICES ASSUME NEW u \in Orders PROVE Delivered(u)'
      OBVIOUS
    <3>1. Delivered(u)
      BY <2>1 DEF AllDelivered
    <3>2. ASSUME NEW q \in Procs, OrderOf(q) = u, pc[q] \in DeliverySteps \ {"collect"}, u # t
          PROVE  OrderOf(q)' = u /\ pc'[q] \in DeliverySteps \ {"collect"}
      BY <3>2
    <3>3. CASE u = t
      <4>1. t \in Asked \/ (t \in Sold /\ sales'[t] = 1) \/ t \in donations
        BY <1>0, <1>5 DEF AfterClaim, FulfilFrame, OnceAtMost
      <4> QED
        BY <3>3, <4>1 DEF Delivered
    <3>4. CASE u # t
      <4>1. u \in Sold => sales'[u] = sales[u]
        BY <1>0, <3>4 DEF OnceAtMost
      <4> QED
        BY <3>1, <3>2, <3>4, <4>1 DEF Delivered
    <3> QED
      BY <3>3, <3>4
  <2>3. collectedAmount' = SumFunctionOnSet(Gift, donations' \ Collectors')
    <3>1. CASE pc[p] # "collect"
      <4>1. collectedAmount' = collectedAmount
        BY <1>5, <3>1
      <4> QED
        BY <1>4, <2>1, <3>1, <4>1 DEF AllDelivered
    <3>2. CASE pc[p] = "collect"
      <4> DEFINE S == donations \ Collectors
      <4>1. t \in donations /\ t \in Collectors /\ t \in Given
        BY <1>0, <3>2 DEF AfterClaim, FulfilFrame, Collectors
      <4>2. donations' \ Collectors' = S \cup {t} /\ t \notin S
        BY <1>4, <3>2, <4>1
      <4>3. IsFiniteSet(S) /\ (\A u \in S : Gift[u] \in Int) /\ Gift[t] = Amount(t) /\ Gift[t] \in Int
        <5>1. IsFiniteSet(S) /\ S \subseteq Given
          BY <1>0, FS_Subset DEF OnceAtMost
        <5> QED
          BY <4>1, <5>1, FulfilmentAssumption DEF Gift
      <4> HIDE DEF S
      <4>4. SumFunctionOnSet(Gift, S \cup {t}) = SumFunctionOnSet(Gift, S) + Gift[t]
        BY <4>2, <4>3, SumAdd
      <4>5. collectedAmount' = SumFunctionOnSet(Gift, S) + Amount(t)
        BY <1>5, <2>1, <3>2, <4>1, FulfilmentAssumption DEF AllDelivered, S
      <4> QED
        BY <4>2, <4>3, <4>4, <4>5
    <3> QED
      BY <3>1, <3>2
  <2> QED
    BY <2>2, <2>3 DEF AllDelivered, Gift
<1> QED
  BY <1>1, <1>2, <1>3, <1>5 DEF DeliveryInv

(* A donation is inserted, and is to be counted next.                      *)
LEMMA DonationInserted ==
    ASSUME DeliveryInv, FulfilBase', NEW p \in Procs, StepOf(p),
           pc[p] = "insert", pc'[p] = "collect", OrderOf(p)' = OrderOf(p),
           donations' = donations \cup {OrderOf(p)},
           PaidTxs' = PaidTxs, UNCHANGED <<collectedAmount, sales>>, Serene' => Serene
    PROVE  DeliveryInv'
<1> USE DEF StepOf, OrderOf
<1> DEFINE t == OrderOf(p)
<1>0. /\ AfterClaim(p) /\ FulfilFrame(p) /\ OnceAtMost /\ Delivers(p)
      /\ \A q \in Procs \ {p} : Delivers(q) => OrderOf(q) # t
  BY DEF DeliveryInv, FulfilBase, Alone, Delivers, DeliverySteps
<1>00. t \in PaidTxs /\ t \in Given /\ t \notin donations
  BY <1>0 DEF AfterClaim, FulfilFrame
<1>1. \A q \in Procs : AfterClaim(q)'
  <2> SUFFICES ASSUME NEW q \in Procs PROVE AfterClaim(q)'
    OBVIOUS
  <2>1. AfterClaim(q)
    BY DEF DeliveryInv
  <2>2. CASE q = p
    BY <1>00, <2>2 DEF AfterClaim, Delivers, DeliverySteps
  <2>3. CASE q # p
    BY <1>0, <2>1, <2>3 DEF AfterClaim, Delivers, DeliverySteps
  <2> QED
    BY <2>2, <2>3
<1>2. \A q, r \in Procs : Alone(q, r)'
  BY <1>0 DEF DeliveryInv, Alone, Delivers
<1>3. OnceAtMost'
  <2>1. IsFiniteSet(donations')
    BY <1>0, FS_AddElement DEF OnceAtMost
  <2> QED
    BY <1>0, <1>00, <2>1 DEF OnceAtMost
<1>4. donations' \ Collectors' = donations \ Collectors
  <2>1. Collectors' = Collectors \cup {t}
    BY DEF Collectors
  <2> QED
    BY <1>00, <2>1
<1>5. ASSUME Serene' PROVE AllDelivered'
  <2>1. AllDelivered
    BY <1>5 DEF DeliveryInv
  <2>2. \A u \in Orders : Delivered(u)'
    <3> SUFFICES ASSUME NEW u \in Orders PROVE Delivered(u)'
      OBVIOUS
    <3>1. Delivered(u)
      BY <2>1 DEF AllDelivered
    <3>2. ASSUME NEW q \in Procs, OrderOf(q) = u, pc[q] \in DeliverySteps \ {"collect"}, u # t
          PROVE  OrderOf(q)' = u /\ pc'[q] \in DeliverySteps \ {"collect"}
      BY <3>2
    <3> QED
      BY <3>1, <3>2 DEF Delivered
  <2>3. collectedAmount' = SumFunctionOnSet(Gift, donations' \ Collectors')
    BY <1>4, <2>1 DEF AllDelivered
  <2> QED
    BY <2>2, <2>3 DEF AllDelivered, Gift
<1> QED
  BY <1>1, <1>2, <1>3, <1>5 DEF DeliveryInv

LEMMA DeliveryStep == DeliveryInv /\ [FulfilmentNext]_fulfilmentVars => DeliveryInv'
<1> SUFFICES ASSUME DeliveryInv, [FulfilmentNext]_fulfilmentVars PROVE DeliveryInv'
  OBVIOUS
<1>1. FulfilBase /\ FulfilBase'
  BY FulfilBaseStep DEF DeliveryInv
<1>2. ASSUME UNCHANGED <<pc, stack, faults, donations, collectedAmount, sales>>, PaidTxs' = PaidTxs
      PROVE  DeliveryInv'
  BY <1>1, <1>2 DEF DeliveryInv, AfterClaim, Alone, Delivers, OnceAtMost, AllDelivered, Delivered,
     Collectors, OrderOf, Serene, Gift
<1>3. CASE UNCHANGED fulfilmentVars
  BY <1>2, <1>3 DEF fulfilmentVars, fulfilOnly, reqVars, PaidTxs
<1>4. CASE OfNobody
  <2>1. PaidTxs' = PaidTxs
    BY <1>1, <1>4 DEF OfNobody, PayerActs, ExpireOrder, EndCampaign, Donate, BuyService, PlaceOrder,
       SetTx, PaidTxs, FulfilBase, FulfilMaps
  <2> QED
    BY <1>1, <1>2, <1>4, <2>1, NobodyStep
<1>5. ASSUME NEW p \in Procs, OfHandler(p) PROVE DeliveryInv'
  <2> USE DEF Begin, Jump, JumpWith, Return, FaultyReturn, FaultyJump, Handle, ForOrder, OrderOf,
              SetTx, SetRequest, fulfilOnly
  <2>1. StepOf(p)
    BY <1>1, <1>5, HandlerStep
  <2>2. /\ FulfilMaps /\ FulfilFrame(p) /\ AfterClaim(p) /\ OnceAtMost
        /\ DOMAIN pc = Procs /\ DOMAIN stack = Procs /\ DOMAIN orderTx = Orders
    BY <1>1 DEF FulfilBase, FulfilMaps, DeliveryInv
  <2>3. UNCHANGED faults => (Serene' => Serene)
    BY DEF Serene
  <2>4. CASE \E t \in Asked : RequestPayment(p, t)
    <3>1. UNCHANGED <<donations, collectedAmount, sales, faults>> /\ PaidTxs' = PaidTxs
      BY <2>2, <2>4 DEF RequestPayment, PlaceOrder, PaidTxs
    <3>2. pc[p] = "idle" /\ pc'[p] \in {"accept", "refuse"}
      BY <2>2, <2>4 DEF RequestPayment
    <3> QED
      BY <1>1, <2>1, <2>3, <3>1, <3>2, DeliveryAside DEF DeliverySteps
  <2>5. CASE \E t \in Orders : StartFulfil(p, t)
    <3>1. PICK t \in Orders : StartFulfil(p, t)
      BY <2>5
    <3>2. /\ t \notin PaidTxs /\ PaidTxs' = PaidTxs \cup {t}
          /\ pc[p] = "idle" /\ pc'[p] = "fees" /\ OrderOf(p)' = t
          /\ UNCHANGED <<donations, collectedAmount, sales, faults>>
      BY <2>2, <3>1 DEF StartFulfil, PaidTxs
    <3> QED
      BY <1>1, <2>1, <2>3, <3>2, DeliveryBegins
  <2>6. CASE \/ \E t \in Orders, first \in {"tx", "request"} : StartGivingUp(p, t, first)
             \/ StartRequestSync(p)
    <3>1. UNCHANGED <<donations, collectedAmount, sales, faults, orderTx>>
      BY <2>6 DEF StartGivingUp, StartRequestSync
    <3>2. pc[p] = "idle" /\ pc'[p] \in {"closeTx", "closeRequest", "look"}
      BY <2>2, <2>6 DEF StartGivingUp, StartRequestSync
    <3> QED
      BY <1>1, <2>1, <2>3, <3>1, <3>2, DeliveryAside DEF DeliverySteps, PaidTxs
  <2>7. CASE Accept(p) \/ MarkRequest(p) \/ GiveUpRequest(p) \/ LookAtTxs(p) \/ WriteSynced(p)
    <3>1. UNCHANGED <<donations, collectedAmount, sales, faults, orderTx>>
      BY <2>7 DEF Accept, MarkRequest, GiveUpRequest, LookAtTxs, WriteSynced
    <3>2. /\ pc[p] \in {"accept", "request", "giveUp", "look", "write"}
          /\ pc'[p] \in {"idle", "write"}
      BY <2>2, <2>7 DEF Accept, MarkRequest, GiveUpRequest, LookAtTxs, WriteSynced
    <3> QED
      BY <1>1, <2>1, <2>3, <3>1, <3>2, DeliveryAside DEF DeliverySteps, PaidTxs
  <2>8. CASE Refuse(p) \/ CloseOrderTx(p) \/ CloseRequest(p)
    <3>1. UNCHANGED <<donations, collectedAmount, sales, faults>> /\ PaidTxs' = PaidTxs
      BY <2>2, <2>8 DEF Refuse, CloseOrderTx, CloseRequest, PaidTxs, EndStatus
    <3>2. /\ pc[p] \in {"refuse", "closeTx", "closeRequest"}
          /\ pc'[p] \in {"idle", "closeTx", "closeRequest"}
      BY <2>2, <2>8 DEF Refuse, CloseOrderTx, CloseRequest
    <3> QED
      BY <1>1, <2>1, <2>3, <3>1, <3>2, DeliveryAside DEF DeliverySteps
  <2>9. CASE CreditFees(p)
    <3>1. /\ UNCHANGED <<donations, collectedAmount, sales, faults, orderTx>>
          /\ pc[p] = "fees" /\ OrderOf(p)' = OrderOf(p)
          /\ pc'[p] = CASE OrderOf(p) \in Asked -> "request"
                        [] OrderOf(p) \in Given -> "donate"
                        [] OTHER                -> "find"
      BY <2>2, <2>9 DEF CreditFees
    <3>2. PaidTxs' = PaidTxs
      BY <3>1 DEF PaidTxs
    <3>3. CASE OrderOf(p) \in Asked
      <4>1. Delivers(p) /\ pc'[p] \notin DeliverySteps
        BY <3>1, <3>3, FulfilmentAssumption DEF DeliverySteps, Delivers
      <4>2. UNCHANGED <<donations, collectedAmount, sales>> /\ (Serene' => Serene)
        BY <2>3, <3>1
      <4> QED
        BY <1>1, <2>1, <3>2, <3>3, <4>1, <4>2, DeliveryEnds
    <3>4. CASE OrderOf(p) \notin Asked
      BY <1>1, <2>1, <2>3, <3>1, <3>2, <3>4, DeliveryGoesOn DEF DeliverySteps, Delivers
    <3> QED
      BY <3>3, <3>4
  <2>10. CASE FindDonation(p) \/ FindSale(p)
    <3>1. /\ UNCHANGED <<donations, collectedAmount, sales, faults, orderTx>>
          /\ OrderOf(p)' = OrderOf(p)
          /\ \/ pc[p] = "donate" /\ pc'[p] = "insert"
             \/ pc[p] = "find" /\ pc'[p] = "sell"
      BY <2>2, <2>10 DEF FindDonation, FindSale, AfterClaim, FulfilFrame
    <3> QED
      BY <1>1, <2>1, <2>3, <3>1, DeliveryGoesOn DEF DeliverySteps, Delivers, PaidTxs
  <2>11. CASE InsertDonation(p)
    <3>1. /\ UNCHANGED <<collectedAmount, sales, faults, orderTx>>
          /\ donations' = donations \cup {OrderOf(p)} /\ OrderOf(p)' = OrderOf(p)
          /\ pc[p] = "insert" /\ pc'[p] = "collect"
      BY <2>2, <2>11 DEF InsertDonation, AfterClaim
    <3> QED
      BY <1>1, <2>1, <2>3, <3>1, DonationInserted DEF PaidTxs
  <2>12. CASE CollectDonation(p) \/ CreateSale(p)
    <3>1. /\ UNCHANGED <<donations, faults, orderTx>> /\ pc'[p] = "idle"
          /\ \/ /\ pc[p] = "sell" /\ UNCHANGED collectedAmount
                /\ sales' = [sales EXCEPT ![OrderOf(p)] = @ + 1]
             \/ /\ pc[p] = "collect" /\ UNCHANGED sales
                /\ collectedAmount' = collectedAmount + Amount(OrderOf(p))
      BY <2>2, <2>12 DEF CollectDonation, CreateSale
    <3> QED
      BY <1>1, <2>1, <2>3, <3>1, DeliveryEnds DEF DeliverySteps, Delivers, PaidTxs
  <2>13. CASE FailToCreditFees(p) \/ FailToMarkRequest(p) \/ FailToDeliver(p) \/ FulfilmentCrash(p)
    <3>1. /\ UNCHANGED <<donations, collectedAmount, sales, orderTx>>
          /\ pc'[p] \notin DeliverySteps /\ \E k \in {"write", "crash"} : Faulty(k)
      BY <2>2, <2>13 DEF FailToCreditFees, FailToMarkRequest, FailToDeliver, FulfilmentCrash,
         DeliverySteps
    <3>2. ~Serene'
      BY <2>2, <3>1, FaultIsFelt
    <3>3. CASE Delivers(p)
      BY <1>1, <2>1, <3>1, <3>2, <3>3, DeliveryEnds DEF PaidTxs
    <3>4. CASE ~Delivers(p)
      BY <1>1, <2>1, <3>1, <3>2, <3>4, DeliveryAside DEF PaidTxs, Delivers
    <3> QED
      BY <3>3, <3>4
  <2> QED
    BY <1>5, <2>4, <2>5, <2>6, <2>7, <2>8, <2>9, <2>10, <2>11, <2>12, <2>13 DEF OfHandler
<1> QED
  BY <1>3, <1>4, <1>5, FulfilSplit

LEMMA DeliveryAlways == FulfilmentSpec => []DeliveryInv
BY DeliveryStart, DeliveryStep, PTL DEF FulfilmentSpec

(* What was paid for is delivered exactly once, however many notices,      *)
(* crons and clients report the payment, and the amount collected is that  *)
(* of the donations.                                                       *)
THEOREM DeliveredOnce == FulfilmentSpec => []PaidIsDeliveredOnce
<1>1. DeliveryInv => PaidIsDeliveredOnce
  <2> SUFFICES ASSUME DeliveryInv PROVE PaidIsDeliveredOnce
    OBVIOUS
  <2>1. \A t \in Sold : sales[t] <= 1
    BY DEF DeliveryInv, OnceAtMost
  <2>2. ASSUME Serene, NEW t \in Orders, orderTx[t] = "success", ~Worked(t)
        PROVE  (t \in Sold => sales[t] = 1) /\ (t \in Given => t \in donations)
    <3>1. Delivered(t) /\ t \in PaidTxs
      BY <2>2 DEF DeliveryInv, AllDelivered, PaidTxs
    <3>2. \A p \in Procs : ~(OrderOf(p) = t /\ pc[p] \in DeliverySteps)
      BY <2>2 DEF Worked, Touching, OrderOf, DeliverySteps
    <3>3. donations \subseteq Given
      BY DEF DeliveryInv, OnceAtMost
    <3> QED
      BY <3>1, <3>2, <3>3, FulfilmentAssumption DEF Delivered
  <2>3. ASSUME Serene, \A p \in Procs : pc[p] # "collect"
        PROVE  collectedAmount = SumFunctionOnSet([t \in Given |-> Amount(t)], donations)
    <3>1. donations \ Collectors = donations
      BY <2>3 DEF Collectors, DeliveryInv, FulfilBase, FulfilMaps
    <3> QED
      BY <2>3, <3>1 DEF DeliveryInv, AllDelivered, Gift
  <2> QED
    BY <2>1, <2>2, <2>3 DEF PaidIsDeliveredOnce, Orders
<1> QED
  BY <1>1, DeliveryAlways, PTL

----
(* The handlers of a payment request.                                      *)
OrderSteps == {"accept", "refuse", "fees", "request", "giveUp", "closeTx", "closeRequest"}

Handling(p, t) ==
    \/ pc[p] \in OrderSteps /\ OrderOf(p) = t
    \/ pc[p] \in {"look", "write"} /\ t \in stack[p].todo

Marks(p, t) == pc[p] \in {"fees", "request"} /\ OrderOf(p) = t

IsPaid(t) == orderTx[t] = "success"

(* What a handler knows of the transaction still holds.                    *)
Duty(p, t) ==
    /\ pc[p] \in {"closeTx", "closeRequest"} /\ OrderOf(p) = t => ~IsPaid(t)
    /\ Marks(p, t) => IsPaid(t)
    /\ pc[p] = "write" /\ t \in stack[p].todo =>
        /\ stack[p].seen[t] \in {"success", "error", "closed"}
        /\ stack[p].seen[t] = "success" <=> IsPaid(t)
    /\ pc[p] = "giveUp" /\ OrderOf(p) = t => ~Serene

Agree(t) == request[t] \in {"none", "PENDING"} \/ (request[t] = "SUCCESS" <=> IsPaid(t))

Settling(t) ==
    /\ \A p, q \in Procs : Handling(p, t) /\ Handling(q, t) => p = q
    /\ \A p \in Procs : Duty(p, t)
    /\ Serene => Agree(t) \/ \E p \in Procs : Marks(p, t)

RequestInv == FulfilBase /\ \A t \in Asked \ crossing : Settling(t)

LEMMA RequestStart == FulfilmentInit => RequestInv
BY FulfilBaseStart DEF FulfilmentInit, RequestsInit, RequestInv, Settling, Handling, Duty, Agree,
   Marks, OrderSteps

(* A payment request nobody touches.                                       *)
LEMMA RequestLeftAlone ==
    ASSUME NEW p \in Procs, NEW t, StepOf(p), Settling(t),
           ~Handling(p, t), ~Handling(p, t)', Serene' => Serene,
           request'[t] = request[t], IsPaid(t)' <=> IsPaid(t)
    PROVE  Settling(t)'
<1>1. \A q \in Procs : Handling(q, t)' <=> Handling(q, t)
  BY DEF StepOf, Handling, OrderOf
<1>2. \A q \in Procs : Marks(q, t)' <=> Marks(q, t)
  BY <1>1 DEF StepOf, Marks, OrderOf, Handling, OrderSteps
<1>3. \A q \in Procs : Duty(q, t)'
  <2> SUFFICES ASSUME NEW q \in Procs PROVE Duty(q, t)'
    OBVIOUS
  <2>1. Duty(q, t)
    BY DEF Settling
  <2>2. CASE q = p
    BY <2>2 DEF Duty, Handling, Marks, OrderSteps
  <2>3. CASE q # p
    BY <1>2, <2>1, <2>3 DEF Duty, StepOf, OrderOf
  <2> QED
    BY <2>2, <2>3
<1>4. Agree(t) => Agree(t)'
  BY DEF Agree
<1> QED
  BY <1>1, <1>2, <1>3, <1>4 DEF Settling

(* A payment request one handler works on.                                 *)
LEMMA RequestInOneHand ==
    ASSUME NEW p \in Procs, NEW t, StepOf(p), \A q \in Procs \ {p} : ~Handling(q, t),
           Duty(p, t)', Serene' => Agree(t)' \/ Marks(p, t)'
    PROVE  Settling(t)'
<1>1. \A q \in Procs \ {p} : ~Handling(q, t)'
  BY DEF StepOf, Handling, OrderOf
<1>2. \A q \in Procs \ {p} : Duty(q, t)'
  BY <1>1 DEF Duty, Handling, Marks, OrderSteps
<1> QED
  BY <1>1, <1>2 DEF Settling

(* The handler that begins is alone with it, or it is remembered.          *)
LEMMA BeginsAlone ==
    ASSUME NEW p \in Procs, NEW label, NEW frame, NEW S, Handle(p, label, frame, S),
           NEW t \in Asked \ crossing', t \in S
    PROVE  t \notin crossing /\ \A q \in Procs : ~Handling(q, t)
<1>1. t \notin crossing /\ ~ \E q \in Procs : pc[q] # "idle" /\ Touching(q, t)
  BY DEF Handle
<1> QED
  BY <1>1 DEF Handling, Touching, OrderOf, OrderSteps

LEMMA RequestStep == RequestInv /\ [FulfilmentNext]_fulfilmentVars => RequestInv'
<1> SUFFICES ASSUME RequestInv, [FulfilmentNext]_fulfilmentVars PROVE RequestInv'
  OBVIOUS
<1>1. FulfilBase /\ FulfilBase'
  BY FulfilBaseStep DEF RequestInv
<1>2. ASSUME UNCHANGED <<pc, stack, faults, request, crossing>>,
             \A t \in Asked : IsPaid(t)' <=> IsPaid(t)
      PROVE  RequestInv'
  <2> SUFFICES ASSUME NEW t \in Asked \ crossing' PROVE Settling(t)'
    BY <1>1 DEF RequestInv
  <2>1. Settling(t) /\ (IsPaid(t)' <=> IsPaid(t))
    BY <1>2 DEF RequestInv
  <2> QED
    BY <1>2, <2>1 DEF Settling, Handling, Duty, Marks, Agree, OrderOf, Serene
<1>3. CASE UNCHANGED fulfilmentVars
  BY <1>2, <1>3 DEF fulfilmentVars, fulfilOnly, reqVars, IsPaid
<1>4. CASE OfNobody
  <2>1. ASSUME NEW t \in Asked PROVE IsPaid(t)' <=> IsPaid(t)
    <3>1. /\ t \in Orders /\ t \notin Given /\ t \notin Sold
          /\ DOMAIN orderTx = Orders
      BY <1>1, FulfilmentAssumption DEF Orders, FulfilBase, FulfilMaps
    <3>2. CASE EndCampaign \/ \E u \in Orders : PayerActs(u)
      BY <3>2 DEF EndCampaign, PayerActs, IsPaid
    <3>3. CASE \E u \in Orders : ExpireOrder(u)
      BY <3>1, <3>3 DEF ExpireOrder, SetTx, IsPaid
    <3>4. CASE (\E u \in Given : Donate(u)) \/ \E u \in Sold : BuyService(u)
      BY <3>1, <3>4 DEF Donate, BuyService, PlaceOrder, SetTx, IsPaid
    <3> QED
      BY <1>4, <3>2, <3>3, <3>4 DEF OfNobody
  <2> QED
    BY <1>1, <1>2, <1>4, <2>1, NobodyStep
<1>5. ASSUME NEW p \in Procs, OfHandler(p), NEW t \in Asked \ crossing' PROVE Settling(t)'
  <2> USE DEF Begin, Jump, JumpWith, Return, FaultyReturn, FaultyJump, ForOrder, OrderOf,
              SetTx, SetRequest, fulfilOnly
  <2>1. StepOf(p)
    BY <1>1, <1>5, HandlerStep
  <2>2. /\ FulfilMaps /\ FulfilFrame(p)
        /\ DOMAIN pc = Procs /\ DOMAIN stack = Procs /\ DOMAIN orderTx = Orders
        /\ DOMAIN request = Asked
    BY <1>1 DEF FulfilBase, FulfilMaps
  <2>3. UNCHANGED faults => (Serene' => Serene)
    BY DEF Serene
  <2>4. t \in Asked /\ t \in Orders /\ t \notin Given /\ t \notin Sold
    BY FulfilmentAssumption DEF Orders
  <2>5. t \notin crossing => Settling(t)
    BY DEF RequestInv
  (* A handler that goes on and changes no other order.                    *)
  <2>6. ASSUME UNCHANGED crossing, Handling(p, t)' => Handling(p, t), Serene' => Serene,
               ~Handling(p, t) => request'[t] = request[t] /\ (IsPaid(t)' <=> IsPaid(t)),
               Handling(p, t) => Duty(p, t)' /\ (Serene' => Agree(t)' \/ Marks(p, t)')
        PROVE  Settling(t)'
    <3>1. Settling(t)
      BY <2>5, <2>6
    <3>2. CASE Handling(p, t)
      <4>1. \A q \in Procs \ {p} : ~Handling(q, t)
        BY <3>1, <3>2 DEF Settling
      <4> QED
        BY <2>1, <2>6, <3>2, <4>1, RequestInOneHand
    <3>3. CASE ~Handling(p, t)
      BY <2>1, <2>6, <3>1, <3>3, RequestLeftAlone
    <3> QED
      BY <3>2, <3>3
  <2>7. Handling(p, t) /\ UNCHANGED crossing => Duty(p, t) /\ (Serene => Agree(t) \/ Marks(p, t))
    BY <2>5 DEF Settling, Handling, Marks, OrderSteps
  (* A handler that begins with the orders in S.                           *)
  <2>8. ASSUME NEW label, NEW frame, NEW S, Handle(p, label, frame, S), Handling(p, t)' => t \in S,
               t \notin S => request'[t] = request[t] /\ (IsPaid(t)' <=> IsPaid(t)),
               t \in S => Duty(p, t)' /\ (Agree(t) => Agree(t)' \/ Marks(p, t)')
        PROVE  Settling(t)'
    <3>1. /\ pc[p] = "idle" /\ UNCHANGED faults
          /\ t \notin crossing
      BY <2>8 DEF Handle
    <3>2. ~Handling(p, t) /\ Settling(t)
      BY <2>5, <3>1 DEF Handling, OrderSteps
    <3>3. CASE t \in S
      <4>1. \A q \in Procs : ~Handling(q, t)
        BY <1>5, <2>8, <3>3, BeginsAlone
      <4>2. Serene => Agree(t)
        BY <3>2, <4>1 DEF Settling, Handling, Marks, OrderSteps
      <4> QED
        BY <2>1, <2>3, <2>8, <3>1, <3>3, <4>1, <4>2, RequestInOneHand
    <3>4. CASE t \notin S
      BY <2>1, <2>3, <2>8, <3>1, <3>2, <3>4, RequestLeftAlone
    <3> QED
      BY <3>3, <3>4
  <2>9. CASE \E u \in Asked : RequestPayment(p, u)
    <3>1. PICK u \in Asked, c \in ChargeAnswers :
              /\ PlaceOrder(u, c)
              /\ Handle(p, IF c = "open" THEN "accept" ELSE "refuse", ForOrder(u, c), {u})
      BY <2>9 DEF RequestPayment
    <3>2. /\ pc'[p] \in {"accept", "refuse"} /\ OrderOf(p)' = u
      BY <2>2, <3>1 DEF Handle
    <3>3. /\ request' = request
          /\ orderTx[u] = "none" /\ orderTx' = [orderTx EXCEPT ![u] = "pending"]
      BY <3>1 DEF PlaceOrder
    <3>4. IsPaid(t)' <=> IsPaid(t)
      BY <2>2, <2>4, <3>3 DEF IsPaid
    <3>5. (Handling(p, t)' => t \in {u}) /\ Duty(p, t)' /\ (Agree(t) => Agree(t)')
      BY <3>2, <3>3, <3>4 DEF Handling, Duty, Marks, Agree, OrderSteps
    <3> QED
      BY <2>8, <3>1, <3>3, <3>4, <3>5
  <2>10. CASE \E u \in Orders : StartFulfil(p, u)
    <3>1. PICK u \in Orders : StartFulfil(p, u)
      BY <2>10
    <3>2. /\ Handle(p, "fees", ForOrder(u, "paid"), {u}) /\ request' = request
          /\ orderTx' = [orderTx EXCEPT ![u] = "success"]
      BY <3>1 DEF StartFulfil
    <3>3. pc'[p] = "fees" /\ OrderOf(p)' = u /\ orderTx'[u] = "success"
      BY <2>2, <3>2 DEF Handle
    <3>4. t # u => (IsPaid(t)' <=> IsPaid(t))
      BY <2>2, <2>4, <3>2 DEF IsPaid
    <3>5. (Handling(p, t)' => t = u) /\ (t = u => Duty(p, t)' /\ Marks(p, t)')
      BY <3>3 DEF Handling, Duty, Marks, OrderSteps, IsPaid
    <3> QED
      BY <2>8, <3>2, <3>4, <3>5
  <2>11. CASE \E u \in Orders, first \in {"tx", "request"} : StartGivingUp(p, u, first)
    <3>1. PICK u \in Orders, first \in {"tx", "request"} : StartGivingUp(p, u, first)
      BY <2>11
    <3>2. /\ Handle(p, IF first = "tx" THEN "closeTx" ELSE "closeRequest",
                    [ForOrder(u, charged[u]) EXCEPT !.first = first], {u})
          /\ request' = request /\ orderTx' = orderTx /\ orderTx[u] # "success"
      BY <3>1 DEF StartGivingUp
    <3>3. pc'[p] \in {"closeTx", "closeRequest"} /\ OrderOf(p)' = u
      BY <2>2, <3>2 DEF Handle
    <3>4. /\ IsPaid(t)' <=> IsPaid(t)
          /\ Handling(p, t)' => t = u
          /\ (t = u => Duty(p, t)') /\ (Agree(t) => Agree(t)')
      BY <3>2, <3>3 DEF Handling, Duty, Marks, Agree, OrderSteps, IsPaid
    <3> QED
      BY <2>8, <3>2, <3>4
  <2>12. CASE StartRequestSync(p)
    <3>1. /\ Handle(p, "look", [ForOrder("cron", "") EXCEPT !.todo = PendingRequests],
                    PendingRequests)
          /\ request' = request /\ orderTx' = orderTx
      BY <2>12 DEF StartRequestSync
    <3>2. pc'[p] = "look" /\ stack'[p].todo = PendingRequests
      BY <2>2, <3>1 DEF Handle
    <3>3. /\ IsPaid(t)' <=> IsPaid(t)
          /\ Handling(p, t)' => t \in PendingRequests
          /\ Duty(p, t)' /\ (Agree(t) => Agree(t)')
      BY <3>1, <3>2 DEF Handling, Duty, Marks, Agree, OrderSteps, IsPaid
    <3> QED
      BY <2>8, <3>1, <3>3
  <2>13. CASE Accept(p) \/ Refuse(p)
    <3>1. /\ UNCHANGED <<faults, crossing>> /\ pc'[p] = "idle"
          /\ pc[p] \in {"accept", "refuse"} /\ (OrderOf(p) = t => Handling(p, t))
      BY <2>2, <2>13 DEF Accept, Refuse, Handling, OrderSteps
    <3>2. IsPaid(t)' <=> IsPaid(t)
      BY <2>2, <2>4, <2>13 DEF Accept, Refuse, IsPaid, EndStatus
    <3>3. request'[t] = request[t] \/ (OrderOf(p) = t /\ request'[t] = "PENDING")
      BY <2>2, <2>13 DEF Accept, Refuse
    <3>4. ~Handling(p, t)' /\ Duty(p, t)' /\ ~Marks(p, t)
      BY <3>1 DEF Handling, Duty, Marks, OrderSteps
    <3>5. Agree(t) => Agree(t)'
      BY <3>2, <3>3 DEF Agree
    <3> QED
      BY <2>3, <2>6, <2>7, <3>1, <3>2, <3>3, <3>4, <3>5
  <2>14. CASE CreditFees(p)
    <3>1. /\ UNCHANGED <<faults, crossing, request, orderTx>> /\ OrderOf(p)' = OrderOf(p)
          /\ pc[p] = "fees" /\ (OrderOf(p) = t => pc'[p] = "request")
          /\ pc'[p] \in {"request", "donate", "find"}
      BY <2>2, <2>4, <2>14 DEF CreditFees
    <3>2. /\ Handling(p, t)' => Handling(p, t)
          /\ Duty(p, t) => Duty(p, t)'
          /\ Marks(p, t)' <=> Marks(p, t)
          /\ IsPaid(t)' <=> IsPaid(t)
          /\ request'[t] = request[t]
      BY <2>2, <2>4, <3>1 DEF Handling, Duty, Marks, OrderSteps, IsPaid, FulfilFrame
    <3>3. Agree(t) => Agree(t)'
      BY <3>2 DEF Agree
    <3> QED
      BY <2>3, <2>6, <2>7, <3>1, <3>2, <3>3
  <2>15. CASE MarkRequest(p)
    <3>1. /\ UNCHANGED <<faults, crossing, orderTx>> /\ pc'[p] = "idle"
          /\ pc[p] = "request" /\ request' = [request EXCEPT ![OrderOf(p)] = "SUCCESS"]
      BY <2>2, <2>15 DEF MarkRequest
    <3>2. ~Handling(p, t)' /\ Duty(p, t)' /\ (IsPaid(t)' <=> IsPaid(t))
      BY <3>1 DEF Handling, Duty, Marks, OrderSteps, IsPaid
    <3>3. CASE OrderOf(p) = t
      <4>1. Handling(p, t) /\ Marks(p, t)
        BY <3>1, <3>3 DEF Handling, Marks, OrderSteps
      <4>2. Agree(t)'
        BY <2>2, <2>7, <3>1, <3>2, <3>3, <4>1 DEF Agree, Duty
      <4> QED
        BY <2>3, <2>6, <3>1, <3>2, <4>1, <4>2
    <3>4. CASE OrderOf(p) # t
      BY <2>2, <2>3, <2>6, <3>1, <3>2, <3>4 DEF Handling
    <3> QED
      BY <3>3, <3>4
  <2>16. CASE GiveUpRequest(p)
    <3>1. /\ UNCHANGED <<faults, crossing, orderTx>> /\ pc'[p] = "idle" /\ pc[p] = "giveUp"
          /\ OrderOf(p) # t => request'[t] = request[t]
      BY <2>2, <2>16 DEF GiveUpRequest
    <3>2. /\ ~Handling(p, t)' /\ Duty(p, t)' /\ (IsPaid(t)' <=> IsPaid(t))
          /\ Handling(p, t) => OrderOf(p) = t
      BY <3>1 DEF Handling, Duty, Marks, OrderSteps, IsPaid
    <3>3. OrderOf(p) = t => Handling(p, t) /\ ~Serene
      BY <2>7, <3>1 DEF Handling, Duty, OrderSteps
    <3> QED
      BY <2>3, <2>6, <3>1, <3>2, <3>3
  <2>17. CASE CloseOrderTx(p)
    <3>1. /\ UNCHANGED <<faults, crossing, request>> /\ pc[p] = "closeTx"
          /\ \/ pc'[p] = "closeRequest" /\ OrderOf(p)' = OrderOf(p)
             \/ pc'[p] = "idle"
      BY <2>2, <2>17 DEF CloseOrderTx
    <3>2. IsPaid(t)' <=> IsPaid(t)
      BY <2>2, <2>4, <2>17 DEF CloseOrderTx, IsPaid, EndStatus
    <3>3. /\ Handling(p, t)' => Handling(p, t)
          /\ Duty(p, t) => Duty(p, t)'
          /\ ~Marks(p, t)
      BY <3>1, <3>2 DEF Handling, Duty, Marks, OrderSteps
    <3>4. Agree(t) => Agree(t)'
      BY <3>1, <3>2 DEF Agree
    <3> QED
      BY <2>3, <2>6, <2>7, <3>1, <3>2, <3>3, <3>4
  <2>18. CASE CloseRequest(p)
    <3>1. /\ UNCHANGED <<faults, crossing, orderTx>> /\ pc[p] = "closeRequest"
          /\ \/ pc'[p] = "closeTx" /\ OrderOf(p)' = OrderOf(p)
             \/ pc'[p] = "idle"
          /\ OrderOf(p) # t => request'[t] = request[t]
          /\ request'[t] \in {request[t], "CANCELED", "FAILED"}
      BY <2>2, <2>18 DEF CloseRequest
    <3>2. /\ IsPaid(t)' <=> IsPaid(t)
          /\ Handling(p, t) <=> OrderOf(p) = t
          /\ Handling(p, t)' => Handling(p, t)
          /\ Duty(p, t) => Duty(p, t)'
          /\ ~Marks(p, t)
      BY <3>1 DEF Handling, Duty, Marks, OrderSteps, IsPaid
    <3>3. OrderOf(p) = t /\ Duty(p, t) /\ Agree(t) => Agree(t)'
      BY <3>1, <3>2 DEF Agree, Duty
    <3> QED
      BY <2>3, <2>6, <2>7, <3>1, <3>2, <3>3
  <2>19. CASE LookAtTxs(p)
    <3> DEFINE ended == {u \in stack[p].todo : MappedStatus(orderTx[u]) # "PENDING"}
               seen == [u \in Asked |-> orderTx[u]]
    <3>1. /\ UNCHANGED <<faults, crossing, orderTx, request>> /\ pc[p] = "look"
          /\ \/ pc'[p] = "idle"
             \/ /\ pc'[p] = "write"
                /\ stack' = [stack EXCEPT ![p] = [stack[p] EXCEPT !.todo = ended, !.seen = seen]]
      BY <2>2, <2>19 DEF LookAtTxs
    <3>2. /\ t \in ended => /\ t \in stack[p].todo
                            /\ orderTx[t] \in {"success", "error", "closed"}
          /\ seen[t] = orderTx[t]
      BY <1>5 DEF MappedStatus
    <3>3. DOMAIN stack[p] = {"subject", "to", "first", "todo", "seen"}
      BY <2>2, <3>1 DEF FulfilFrame
    <3> HIDE DEF ended, seen
    <3>4. pc'[p] = "write" => stack'[p].todo = ended /\ stack'[p].seen = seen
      BY <2>2, <3>1, <3>3
    <3>5. /\ Handling(p, t)' => Handling(p, t)
          /\ Duty(p, t)' /\ ~Marks(p, t) /\ (IsPaid(t)' <=> IsPaid(t))
      BY <3>1, <3>2, <3>4 DEF Handling, Duty, Marks, OrderSteps, IsPaid
    <3>6. Agree(t) => Agree(t)'
      BY <3>1, <3>5 DEF Agree
    <3> QED
      BY <2>3, <2>6, <2>7, <3>1, <3>5, <3>6
  <2>20. CASE WriteSynced(p)
    <3>1. PICK u \in stack[p].todo :
              /\ SetRequest(u, MappedStatus(stack[p].seen[u]))
              /\ IF stack[p].todo = {u} THEN Return(p)
                 ELSE JumpWith(p, "write", [stack[p] EXCEPT !.todo = @ \ {u}])
      BY <2>20 DEF WriteSynced
    <3>2. /\ UNCHANGED <<faults, crossing, orderTx>> /\ pc[p] = "write"
          /\ DOMAIN stack[p] = {"subject", "to", "first", "todo", "seen"}
      BY <2>2, <2>20, <3>1 DEF WriteSynced, FulfilFrame
    <3>3. \/ pc'[p] = "idle" /\ stack[p].todo = {u}
          \/ /\ pc'[p] = "write" /\ stack'[p].todo = stack[p].todo \ {u}
             /\ stack'[p].seen = stack[p].seen
      BY <2>2, <3>1, <3>2
    <3>4. /\ Handling(p, t) <=> t \in stack[p].todo
          /\ Handling(p, t)' => Handling(p, t) /\ t # u
          /\ Duty(p, t) => Duty(p, t)'
          /\ ~Marks(p, t) /\ (IsPaid(t)' <=> IsPaid(t))
      BY <3>2, <3>3 DEF Handling, Duty, Marks, OrderSteps, IsPaid
    <3>5. CASE t = u
      <4>1. Handling(p, t) /\ Duty(p, t)
        BY <2>7, <3>2, <3>4, <3>5
      <4>2. request'[t] = MappedStatus(stack[p].seen[t])
        BY <2>2, <3>1, <3>5
      <4>3. /\ stack[p].seen[t] \in {"success", "error", "closed"}
            /\ stack[p].seen[t] = "success" <=> IsPaid(t)
        BY <3>2, <3>4, <4>1 DEF Duty
      <4>4. Agree(t)'
        BY <3>4, <4>2, <4>3 DEF Agree, MappedStatus
      <4> QED
        BY <2>3, <2>6, <3>2, <3>4, <4>1, <4>4
    <3>6. CASE t # u
      <4>1. request'[t] = request[t]
        BY <2>2, <3>1, <3>6
      <4>2. Agree(t) => Agree(t)'
        BY <3>4, <4>1 DEF Agree
      <4> QED
        BY <2>3, <2>6, <2>7, <3>2, <3>4, <4>1, <4>2
    <3> QED
      BY <3>5, <3>6
  <2>21. CASE \/ FindDonation(p) \/ InsertDonation(p) \/ CollectDonation(p)
              \/ FindSale(p) \/ CreateSale(p)
    <3>1. /\ UNCHANGED <<faults, crossing, orderTx, request>>
          /\ pc[p] \in DeliverySteps \ {"fees"} /\ pc'[p] \in {"idle"} \cup (DeliverySteps \ {"fees"})
      BY <2>2, <2>21 DEF FindDonation, InsertDonation, CollectDonation, FindSale, CreateSale,
         DeliverySteps
    <3>2. ~Handling(p, t) /\ ~Handling(p, t)' /\ (IsPaid(t)' <=> IsPaid(t))
      BY <3>1 DEF Handling, OrderSteps, DeliverySteps, IsPaid
    <3> QED
      BY <2>3, <2>6, <3>1, <3>2
  <2>22. CASE FailToCreditFees(p) \/ FailToMarkRequest(p) \/ FailToDeliver(p) \/ FulfilmentCrash(p)
    <3>1. /\ UNCHANGED <<crossing, orderTx, request>> /\ \E k \in {"write", "crash"} : Faulty(k)
          /\ \/ pc'[p] = "idle"
             \/ pc[p] = "request" /\ pc'[p] = "giveUp" /\ OrderOf(p)' = OrderOf(p)
      BY <2>2, <2>22 DEF FailToCreditFees, FailToMarkRequest, FailToDeliver, FulfilmentCrash
    <3>2. ~Serene'
      BY <2>2, <3>1, FaultIsFelt
    <3>3. /\ Handling(p, t)' => Handling(p, t)
          /\ Duty(p, t)' /\ (IsPaid(t)' <=> IsPaid(t))
      BY <3>1, <3>2 DEF Handling, Duty, Marks, OrderSteps, IsPaid
    <3> QED
      BY <2>6, <3>1, <3>2, <3>3
  <2> QED
    BY <1>5, <2>9, <2>10, <2>11, <2>12, <2>13, <2>14, <2>15, <2>16, <2>17, <2>18, <2>19, <2>20,
       <2>21, <2>22 DEF OfHandler
<1> QED
  BY <1>1, <1>3, <1>4, <1>5, FulfilSplit DEF RequestInv

LEMMA RequestAlways == FulfilmentSpec => []RequestInv
BY RequestStart, RequestStep, PTL DEF FulfilmentSpec

(* A payment request that is not pending tells whether it was paid, unless *)
(* two handlers worked on it at the same time: the one that ends a payment *)
(* request knows its transaction's last status, and nobody else changes    *)
(* either of them meanwhile.                                               *)
THEOREM RequestTellsTruth == FulfilmentSpec => []RequestFollowsTx
<1>1. RequestInv => RequestFollowsTx
  <2> SUFFICES ASSUME RequestInv, Serene, NEW t \in Asked \ crossing,
                      request[t] \notin {"none", "PENDING"}, ~Worked(t)
               PROVE  request[t] = "SUCCESS" <=> orderTx[t] = "success"
    BY DEF RequestFollowsTx
  <2>1. Settling(t)
    BY DEF RequestInv
  <2>2. ~ \E p \in Procs : Marks(p, t)
    BY DEF Worked, Touching, OrderOf, Marks
  <2> QED
    BY <2>1, <2>2 DEF Settling, Agree, IsPaid
<1> QED
  BY <1>1, RequestAlways, PTL

----
(* The keys of a developer.                                                *)
KeySteps == {"find", "look", "verify", "insert", "change", "reset"}
KeyJobs == [subject : {"read", "status", "webhook", "generate"}, value : BOOLEAN \cup Urls,
            seen : Nat, id : Nat]
KeyDocs == [secretKey : Nat, status : BOOLEAN, webhookUrl : {"", "url"}]

(* What a handler has read of the documents, which are never removed.      *)
KeyFrame(p) == pc[p] \in KeySteps =>
    /\ stack[p] \in KeyJobs
    /\ stack[p].subject = "status" => stack[p].value \in BOOLEAN
    /\ stack[p].subject = "webhook" => stack[p].value \in Urls
    /\ pc[p] \in {"find", "look"} => stack[p].seen <= Len(devs)
    /\ pc[p] \in {"verify", "insert"} => stack[p].seen = 0
    /\ pc[p] = "change" =>
        stack[p].id \in 1..Len(devs) /\ stack[p].subject \in {"status", "webhook"}

KeyTypes ==
    /\ DOMAIN pc = Procs /\ DOMAIN stack = Procs
    /\ devs \in Seq(KeyDocs) /\ keys \in Nat /\ collided \in BOOLEAN
    /\ \A i \in 1..Len(devs) : devs[i].secretKey \in 1..keys
    /\ issued \subseteq 1..keys /\ replaced \subseteq 1..keys

(* A key that was replaced is in no document that is read, and while no    *)
(* request met another one's document, every other key is in the only one. *)
KeysKept ==
    /\ devs # <<>> => devs[1].secretKey \notin replaced
    /\ ~collided =>
        /\ Len(devs) <= 1
        /\ \A k \in issued \ replaced : devs # <<>> /\ devs[1].secretKey = k

CopyKept == cached = NoCopy \/ missed \/ cached = profile \/ \E p \in Procs : pc[p] = "invalidate"

KeyInv == KeyTypes /\ (\A p \in Procs : KeyFrame(p)) /\ KeysKept /\ CopyKept

LEMMA KeyStart == DevKeysInit => KeyInv
<1> SUFFICES ASSUME DevKeysInit PROVE KeyInv
  OBVIOUS
<1>1. /\ pc = [p \in Procs |-> "idle"] /\ stack = [p \in Procs |-> NoStack]
      /\ cached = NoCopy /\ devs = <<>> /\ keys = 0
      /\ issued = {} /\ replaced = {} /\ collided = FALSE
  BY DEF DevKeysInit, UserCacheInit, RequestsInit
<1>2. devs \in Seq(KeyDocs) /\ Len(devs) = 0
  BY <1>1
<1>3. KeyTypes
  <2>1. /\ \A i \in 1..Len(devs) : devs[i].secretKey \in 1..keys
        /\ issued \subseteq 1..keys /\ replaced \subseteq 1..keys
    BY <1>1, <1>2
  <2>2. DOMAIN pc = Procs /\ DOMAIN stack = Procs /\ keys \in Nat /\ collided \in BOOLEAN
    BY <1>1
  <2> QED
    BY <1>2, <2>1, <2>2 DEF KeyTypes
<1>4. KeysKept
  BY <1>1, <1>2 DEF KeysKept
<1> QED
  BY <1>1, <1>3, <1>4 DEF KeyInv, KeyFrame, CopyKept, KeySteps

(* What the keys' handlers have read still holds.                          *)
LEMMA KeyFramesKept ==
    ASSUME KeyTypes, \A p \in Procs : KeyFrame(p), NEW p \in Procs, StepOf(p), KeyFrame(p)',
           Len(devs') \in Nat, Len(devs) <= Len(devs')
    PROVE  \A q \in Procs : KeyFrame(q)'
<1> SUFFICES ASSUME NEW q \in Procs, q # p PROVE KeyFrame(q)'
  OBVIOUS
<1>1. pc'[q] = pc[q] /\ stack'[q] = stack[q] /\ KeyFrame(q) /\ Len(devs) \in Nat
  BY DEF StepOf, KeyTypes
<1> QED
  BY <1>1 DEF KeyFrame, KeyJobs

(* The copy of the profile, when a handler of the keys takes a step.       *)
LEMMA CopyAside ==
    ASSUME CopyKept, NEW p \in Procs, StepOf(p), pc[p] # "invalidate", UNCHANGED cacheOnly
    PROVE  CopyKept'
BY DEF CopyKept, StepOf, cacheOnly, NoCopy

(* The copy of the profile, when a handler of the profile takes a step.    *)
LEMMA CacheStep == KeyInv /\ UserCacheNext /\ UNCHANGED keyOnly => KeyInv'
<1> SUFFICES ASSUME KeyInv, UserCacheNext, UNCHANGED keyOnly PROVE KeyInv'
  OBVIOUS
<1> USE DEF Begin, JumpWith, Return, FaultyReturn
<1>1. KeyTypes /\ KeysKept /\ CopyKept /\ Len(devs) \in Nat
  BY DEF KeyInv, KeyTypes
<1>2. KeysKept'
  BY <1>1 DEF KeysKept, keyOnly
<1>3. CASE UpdateElsewhere \/ ExpireCopy
  <2>1. UNCHANGED <<pc, stack>>
    BY <1>3 DEF UpdateElsewhere, ExpireCopy, reqVars
  <2>2. CopyKept'
    BY <1>1, <1>3, <2>1 DEF CopyKept, UpdateElsewhere, ExpireCopy, NoCopy
  <2> QED
    BY <1>1, <1>2, <2>1, <2>2 DEF KeyInv, KeyTypes, KeyFrame, keyOnly
<1>4. ASSUME NEW p \in Procs, \/ StartGet(p) \/ Fill(p) \/ UpdateUser(p) \/ StartTurn(p) \/ Turn(p)
                              \/ InvalidateCopy(p) \/ CacheCrash(p)
      PROVE  KeyInv'
  <2>1. StepOf(p) /\ pc'[p] \notin KeySteps /\ DOMAIN pc' = Procs /\ DOMAIN stack' = Procs
    BY <1>1, <1>4 DEF StartGet, Fill, UpdateUser, StartTurn, Turn, InvalidateCopy, CacheCrash,
       KeyTypes, StepOf, KeySteps
  <2>2. CopyKept'
    <3>1. CASE StartGet(p) \/ StartTurn(p)
      BY <1>1, <2>1, <3>1, CopyAside DEF StartGet, StartTurn
    <3>2. CASE Fill(p)
      BY <1>1, <2>1, <3>2 DEF Fill, CopyKept, StepOf, NoCopy
    <3>3. CASE UpdateUser(p) \/ Turn(p)
      BY <1>1, <3>3 DEF UpdateUser, Turn, CopyKept, KeyTypes
    <3>4. CASE InvalidateCopy(p) \/ CacheCrash(p)
      BY <3>4 DEF InvalidateCopy, CacheCrash, CopyKept, NoCopy
    <3> QED
      BY <1>4, <3>1, <3>2, <3>3, <3>4
  <2>3. \A q \in Procs : KeyFrame(q)'
    BY <1>1, <2>1, KeyFramesKept DEF KeyInv, KeyFrame, keyOnly
  <2> QED
    BY <1>1, <1>2, <2>1, <2>2, <2>3 DEF KeyInv, KeyTypes, keyOnly
<1> QED
  BY <1>3, <1>4 DEF UserCacheNext

(* A handler that writes no document: it may tell a key that is in one.    *)
LEMMA KeyIsRead ==
    ASSUME KeyInv, NEW p \in Procs, StepOf(p), pc[p] # "invalidate", KeyFrame(p)',
           UNCHANGED <<devs, keys, replaced, collided>>, UNCHANGED cacheOnly,
           \/ issued' = issued
           \/ \E i \in 1..Len(devs) : issued' = issued \cup {devs[i].secretKey}
    PROVE  KeyInv'
<1>1. KeyTypes /\ KeysKept /\ CopyKept /\ Len(devs) \in Nat
  BY DEF KeyInv, KeyTypes
<1>2. KeyTypes'
  BY <1>1 DEF KeyTypes, StepOf
<1>3. \A q \in Procs : KeyFrame(q)'
  BY <1>1, KeyFramesKept DEF KeyInv
<1>4. KeysKept'
  <2>1. CASE issued' = issued
    BY <1>1, <2>1 DEF KeysKept
  <2>2. CASE \E i \in 1..Len(devs) : issued' = issued \cup {devs[i].secretKey}
    <3>1. PICK i \in 1..Len(devs) : issued' = issued \cup {devs[i].secretKey}
      BY <2>2
    <3>2. Len(devs) <= 1 => i = 1 /\ devs # <<>>
      BY <1>1
    <3> QED
      BY <1>1, <3>1, <3>2 DEF KeysKept
  <2> QED
    BY <2>1, <2>2
<1>5. CopyKept'
  BY <1>1, CopyAside
<1> QED
  BY <1>2, <1>3, <1>4, <1>5 DEF KeyInv

KeyAct(p) ==
    \/ AskForKey(p) \/ AskForChange(p) \/ FindDev(p) \/ VerifyFirst(p)
    \/ AskToGenerate(p) \/ LookForDev(p) \/ InsertDev(p) \/ ChangeDev(p)
    \/ AskToReset(p) \/ ResetKey(p) \/ FailToWriteDev(p)

LEMMA KeyActStep == ASSUME KeyInv, NEW p \in Procs, KeyAct(p) PROVE KeyInv'
<1> USE DEF Begin, Jump, JumpWith, Return, FaultyReturn, Tell, NewKey
<1>1. /\ KeyTypes /\ KeyFrame(p) /\ KeysKept /\ CopyKept /\ Len(devs) \in Nat
      /\ DOMAIN pc = Procs /\ DOMAIN stack = Procs
  BY DEF KeyInv, KeyTypes
<1>2. CASE AskForKey(p) \/ AskForChange(p) \/ AskToGenerate(p) \/ AskToReset(p)
  <2>1. /\ pc[p] = "idle" /\ pc'[p] \in {"find", "look", "reset"} /\ StepOf(p)
        /\ UNCHANGED cacheOnly /\ UNCHANGED keyOnly
    BY <1>1, <1>2 DEF AskForKey, AskForChange, AskToGenerate, AskToReset, StepOf
  <2>2. PICK job \in {"read", "status", "webhook", "generate"}, value \in BOOLEAN \cup Urls :
            /\ stack' = [stack EXCEPT ![p] = KeyJob(job, value)]
            /\ job = "status" => value \in BOOLEAN
            /\ job = "webhook" => value \in Urls
    BY <1>2 DEF AskForKey, AskForChange, AskToGenerate, AskToReset
  <2>3. stack'[p] = [subject |-> job, value |-> value, seen |-> Len(devs), id |-> 0]
    BY <1>1, <2>2 DEF KeyJob
  <2>4. KeyFrame(p)'
    BY <1>1, <2>1, <2>2, <2>3 DEF KeyFrame, KeyJobs, keyOnly
  <2> QED
    BY <2>1, <2>4, KeyIsRead DEF keyOnly
<1>3. CASE VerifyFirst(p) \/ FailToWriteDev(p)
  <2>1. /\ pc[p] # "invalidate" /\ StepOf(p) /\ UNCHANGED cacheOnly /\ UNCHANGED keyOnly
        /\ \/ pc'[p] = "idle"
           \/ pc[p] = "verify" /\ pc'[p] = "insert" /\ stack'[p] = stack[p]
    BY <1>1, <1>3 DEF VerifyFirst, FailToWriteDev, StepOf
  <2>2. KeyFrame(p)'
    BY <1>1, <2>1 DEF KeyFrame, KeySteps
  <2> QED
    BY <2>1, <2>2, KeyIsRead DEF keyOnly
<1>4. CASE LookForDev(p)
  <2>1. /\ pc[p] = "look" /\ StepOf(p) /\ UNCHANGED cacheOnly
        /\ UNCHANGED <<devs, keys, replaced, collided>>
        /\ \/ /\ pc'[p] = "idle" /\ devs # <<>>
              /\ issued' = issued \cup {devs[1].secretKey}
           \/ pc'[p] = "insert" /\ stack'[p] = stack[p] /\ devs = <<>> /\ issued' = issued
    BY <1>1, <1>4 DEF LookForDev, StepOf
  <2>2. devs # <<>> => 1 \in 1..Len(devs)
    BY <1>1 DEF KeyTypes
  <2>3. KeyFrame(p)'
    BY <1>1, <2>1 DEF KeyFrame, KeySteps, KeyJobs
  <2> QED
    BY <2>1, <2>2, <2>3, KeyIsRead
<1>5. CASE FindDev(p)
  <2>1. /\ pc[p] = "find" /\ StepOf(p) /\ UNCHANGED cacheOnly
        /\ UNCHANGED <<devs, keys, replaced, collided>>
    BY <1>1, <1>5 DEF FindDev, GoOn, StepOf
  <2>2. devs # <<>> => 1 \in 1..Len(devs)
    BY <1>1 DEF KeyTypes
  <2>3. CASE devs = <<>>
    <3>1. pc'[p] = "verify" /\ stack'[p] = stack[p] /\ issued' = issued
      BY <1>1, <1>5, <2>3 DEF FindDev
    <3>2. KeyFrame(p)'
      BY <1>1, <2>1, <2>3, <3>1 DEF KeyFrame, KeySteps, KeyJobs
    <3> QED
      BY <2>1, <3>1, <3>2, KeyIsRead
  <2>4. CASE devs # <<>> /\ stack[p].subject \in {"status", "webhook"}
    <3>1. /\ pc'[p] = "change" /\ issued' = issued
          /\ stack' = [stack EXCEPT ![p] = [stack[p] EXCEPT !.id = 1]]
      BY <1>1, <1>5, <2>4 DEF FindDev, GoOn
    <3>2. stack[p] \in KeyJobs
      BY <1>1, <2>1 DEF KeyFrame, KeySteps
    <3>3. /\ stack'[p] \in KeyJobs /\ stack'[p].id = 1
          /\ stack'[p].subject = stack[p].subject /\ stack'[p].value = stack[p].value
      BY <1>1, <3>1, <3>2 DEF KeyJobs
    <3>4. KeyFrame(p)'
      BY <1>1, <2>1, <2>2, <2>4, <3>1, <3>3 DEF KeyFrame, KeySteps
    <3> QED
      BY <2>1, <3>1, <3>4, KeyIsRead
  <2>5. CASE devs # <<>> /\ stack[p].subject \notin {"status", "webhook"}
    <3>1. pc'[p] = "idle" /\ issued' = issued \cup {devs[1].secretKey}
      BY <1>1, <1>5, <2>1, <2>5 DEF FindDev, GoOn
    <3>2. KeyFrame(p)'
      BY <3>1 DEF KeyFrame, KeySteps
    <3> QED
      BY <2>1, <2>2, <2>5, <3>1, <3>2, KeyIsRead
  <2> QED
    BY <2>3, <2>4, <2>5
<1>6. CASE InsertDev(p)
  <2> DEFINE doc == [secretKey |-> keys + 1, status |-> stack[p].subject = "generate",
                     webhookUrl |-> ""]
  <2>1. /\ pc[p] = "insert" /\ UNCHANGED cacheOnly /\ UNCHANGED replaced
        /\ keys' = keys + 1 /\ devs' = Append(devs, doc)
        /\ collided' = (collided \/ Len(devs) > stack[p].seen)
    BY <1>6 DEF InsertDev
  <2>2. /\ stack[p] \in KeyJobs /\ stack[p].seen = 0
        /\ stack[p].subject = "status" => stack[p].value \in BOOLEAN
        /\ stack[p].subject = "webhook" => stack[p].value \in Urls
    BY <1>1, <2>1 DEF KeyFrame, KeySteps
  <2>3. doc \in KeyDocs /\ doc.secretKey = keys + 1
    <3>1. (stack[p].subject = "generate") \in BOOLEAN /\ keys + 1 \in Nat
      BY <1>1 DEF KeyTypes
    <3> QED
      BY <3>1 DEF KeyDocs
  <2> HIDE DEF doc
  <2>4. /\ devs' \in Seq(KeyDocs) /\ Len(devs') = Len(devs) + 1
        /\ \A i \in 1..Len(devs) : devs'[i] = devs[i]
        /\ devs'[Len(devs')] = doc
    BY <1>1, <2>1, <2>3 DEF KeyTypes
  <2>5. /\ StepOf(p)
        /\ \/ /\ stack[p].subject \in {"status", "webhook"} /\ pc'[p] = "change"
              /\ stack' = [stack EXCEPT ![p] = [stack[p] EXCEPT !.id = Len(devs')]]
              /\ issued' = issued
           \/ pc'[p] = "idle" /\ issued' = issued \cup {devs'[Len(devs')].secretKey}
    BY <1>1, <1>6 DEF InsertDev, GoOn, StepOf
  <2>6. KeyTypes'
    <3>1. \A i \in 1..Len(devs') : devs'[i].secretKey \in 1..keys'
      <4> SUFFICES ASSUME NEW i \in 1..Len(devs') PROVE devs'[i].secretKey \in 1..keys'
        OBVIOUS
      <4>1. CASE i \in 1..Len(devs)
        BY <1>1, <2>1, <2>4, <4>1 DEF KeyTypes
      <4>2. CASE i = Len(devs')
        BY <1>1, <2>1, <2>3, <2>4, <4>2 DEF KeyTypes
      <4> QED
        BY <1>1, <2>4, <4>1, <4>2
    <3>2. issued' \subseteq 1..keys' /\ replaced' \subseteq 1..keys'
      BY <1>1, <2>1, <2>3, <2>4, <2>5 DEF KeyTypes
    <3> QED
      BY <1>1, <2>1, <2>4, <2>5, <3>1, <3>2 DEF KeyTypes, StepOf
  <2>7. KeyFrame(p)'
    <3>1. CASE pc'[p] = "idle"
      BY <3>1 DEF KeyFrame, KeySteps
    <3>2. CASE /\ stack[p].subject \in {"status", "webhook"} /\ pc'[p] = "change"
               /\ stack' = [stack EXCEPT ![p] = [stack[p] EXCEPT !.id = Len(devs')]]
      <4>1. /\ stack'[p] \in KeyJobs /\ stack'[p].id = Len(devs')
            /\ stack'[p].subject = stack[p].subject /\ stack'[p].value = stack[p].value
        BY SMTT(60), <1>1, <2>2, <2>4, <3>2 DEF KeyJobs
      <4> QED
        BY <1>1, <2>2, <2>4, <3>2, <4>1 DEF KeyFrame
    <3> QED
      BY <2>5, <3>1, <3>2
  <2>8. KeysKept'
    <3>1. ~collided' => ~collided /\ Len(devs) = 0 /\ devs = <<>>
      <4>1. (~collided' => ~collided /\ ~(Len(devs) > 0))
        BY <2>1, <2>2, Zenon
      <4>2. ~(Len(devs) > 0) => Len(devs) = 0 /\ devs = <<>>
        BY <1>1 DEF KeyTypes
      <4> QED
        BY <4>1, <4>2
    <3>2. ~collided' => issued \subseteq replaced
      BY <1>1, <3>1 DEF KeysKept
    <3>3. ~collided' => Len(devs') = 1 /\ devs'[1].secretKey = keys + 1 /\ devs' # <<>>
      BY <2>3, <2>4, <3>1
    <3>4. devs'[1].secretKey \notin replaced
      <4>1. CASE devs = <<>>
        BY <1>1, <2>3, <2>4, <4>1 DEF KeyTypes
      <4>2. CASE devs # <<>>
        <5>1. 1 \in 1..Len(devs)
          BY <1>1, <4>2 DEF KeyTypes
        <5> QED
          BY <1>1, <2>4, <4>2, <5>1 DEF KeysKept
      <4> QED
        BY <4>1, <4>2
    <3>5. ~collided' => \A k \in issued' \ replaced' : devs' # <<>> /\ devs'[1].secretKey = k
      BY <2>1, <2>3, <2>4, <2>5, <3>2, <3>3
    <3> QED
      BY <2>1, <3>3, <3>4, <3>5 DEF KeysKept
  <2>9. (\A q \in Procs : KeyFrame(q)') /\ CopyKept'
    BY <1>1, <2>1, <2>4, <2>5, <2>7, KeyFramesKept, CopyAside DEF KeyInv
  <2> QED
    BY <2>6, <2>8, <2>9 DEF KeyInv
<1>7. CASE ChangeDev(p)
  <2> DEFINE id == stack[p].id
  <2>1. /\ pc[p] = "change" /\ pc'[p] = "idle" /\ StepOf(p)
        /\ UNCHANGED cacheOnly /\ UNCHANGED <<keys, replaced, collided>>
    BY <1>1, <1>7 DEF ChangeDev, StepOf
  <2>2. /\ stack[p] \in KeyJobs /\ id \in 1..Len(devs)
        /\ stack[p].subject = "status" => stack[p].value \in BOOLEAN
        /\ stack[p].subject = "webhook" => stack[p].value \in Urls
    BY <1>1, <2>1 DEF KeyFrame, KeySteps
  <2>3. KeyFrame(p)'
    BY <2>1 DEF KeyFrame, KeySteps
  <2>4. CASE devs' = devs /\ issued' = issued
    BY <2>1, <2>3, <2>4, KeyIsRead
  <2>5. CASE /\ issued' = issued \cup {devs[id].secretKey}
             /\ \/ /\ stack[p].subject = "status"
                   /\ devs' = [devs EXCEPT ![id].status = stack[p].value]
                \/ /\ stack[p].subject = "webhook" /\ stack[p].value # BadUrl
                   /\ devs' = [devs EXCEPT ![id].webhookUrl = stack[p].value]
    <3>1. devs[id] \in KeyDocs
      BY <1>1, <2>2 DEF KeyTypes
    <3>2. /\ devs' \in Seq(KeyDocs) /\ Len(devs') = Len(devs)
          /\ devs'[id].secretKey = devs[id].secretKey
          /\ \A i \in 1..Len(devs) \ {id} : devs'[i] = devs[i]
      <4> DEFINE on == [devs[id] EXCEPT !.status = stack[p].value]
                 at == [devs[id] EXCEPT !.webhookUrl = stack[p].value]
      <4>1. CASE stack[p].subject = "status" /\ devs' = [devs EXCEPT ![id] = on]
        <5>1. on \in KeyDocs /\ on.secretKey = devs[id].secretKey
          BY <2>2, <3>1, <4>1 DEF KeyDocs
        <5> HIDE DEF on, id
        <5> QED
          BY <1>1, <2>2, <4>1, <5>1 DEF KeyTypes
      <4>2. CASE /\ stack[p].subject = "webhook" /\ stack[p].value # BadUrl
                 /\ devs' = [devs EXCEPT ![id] = at]
        <5>1. at \in KeyDocs /\ at.secretKey = devs[id].secretKey
          BY <2>2, <3>1, <4>2 DEF KeyDocs, Urls
        <5> HIDE DEF at, id
        <5> QED
          BY <1>1, <2>2, <4>2, <5>1 DEF KeyTypes
      <4> QED
        BY <2>5, <4>1, <4>2
    <3> HIDE DEF id
    <3>3. \A i \in 1..Len(devs) : devs'[i].secretKey = devs[i].secretKey
      BY <3>2
    <3>4. devs # <<>> /\ devs' # <<>> /\ 1 \in 1..Len(devs) /\ (Len(devs) <= 1 => id = 1)
      BY <1>1, <2>2, <3>2 DEF KeyTypes
    <3>5. KeyTypes'
      BY <1>1, <2>1, <2>2, <2>5, <3>2, <3>3 DEF KeyTypes, StepOf
    <3>6. KeysKept'
      BY <1>1, <2>1, <2>5, <3>2, <3>3, <3>4 DEF KeysKept
    <3>7. (\A q \in Procs : KeyFrame(q)') /\ CopyKept'
      BY <1>1, <2>1, <2>3, <3>2, KeyFramesKept, CopyAside DEF KeyInv
    <3> QED
      BY <3>5, <3>6, <3>7 DEF KeyInv
  <2> QED
    BY <1>7, <2>4, <2>5 DEF ChangeDev
<1>8. CASE ResetKey(p)
  <2>1. /\ pc[p] = "reset" /\ pc'[p] = "idle" /\ StepOf(p) /\ keys' = keys + 1
        /\ UNCHANGED cacheOnly /\ UNCHANGED collided
    BY <1>1, <1>8 DEF ResetKey, StepOf
  <2>2. KeyFrame(p)'
    BY <2>1 DEF KeyFrame, KeySteps
  <2>3. CASE devs = <<>>
    <3>1. UNCHANGED <<devs, issued, replaced>>
      BY <1>8, <2>3 DEF ResetKey
    <3>2. KeyTypes' /\ KeysKept'
      BY <1>1, <2>1, <2>3, <3>1 DEF KeyTypes, KeysKept, StepOf
    <3> QED
      BY <1>1, <2>1, <2>2, <3>1, <3>2, KeyFramesKept, CopyAside DEF KeyInv
  <2>4. CASE devs # <<>>
    <3>1. /\ devs' = [devs EXCEPT ![1].secretKey = keys + 1]
          /\ replaced' = replaced \cup {devs[1].secretKey}
          /\ issued' = issued \cup {keys + 1}
      BY <1>8, <2>1, <2>4 DEF ResetKey
    <3>2. 1 \in 1..Len(devs) /\ devs[1] \in KeyDocs /\ devs[1].secretKey \in 1..keys
      BY <1>1, <2>4 DEF KeyTypes
    <3>3. /\ devs' \in Seq(KeyDocs) /\ Len(devs') = Len(devs)
          /\ devs'[1].secretKey = keys + 1
          /\ \A i \in 1..Len(devs) \ {1} : devs'[i] = devs[i]
      <4> DEFINE new == [devs[1] EXCEPT !.secretKey = keys + 1]
      <4>1. new \in KeyDocs /\ new.secretKey = keys + 1 /\ devs' = [devs EXCEPT ![1] = new]
        <5>1. devs' = [devs EXCEPT ![1] = new]
          BY <3>1
        <5>2. keys + 1 \in Nat
          BY <1>1 DEF KeyTypes
        <5> QED
          BY <3>2, <5>1, <5>2 DEF KeyDocs
      <4> HIDE DEF new
      <4> QED
        BY <1>1, <3>2, <4>1 DEF KeyTypes
    <3>4. KeyTypes'
      <4>1. \A i \in 1..Len(devs') : devs'[i].secretKey \in 1..keys'
        BY <1>1, <2>1, <3>3 DEF KeyTypes
      <4>2. issued' \subseteq 1..keys' /\ replaced' \subseteq 1..keys'
        BY <1>1, <2>1, <3>1, <3>2 DEF KeyTypes
      <4> QED
        BY <1>1, <2>1, <3>3, <4>1, <4>2 DEF KeyTypes, StepOf
    <3>5. KeysKept'
      <4>1. devs' # <<>> /\ keys + 1 \notin replaced'
        BY <1>1, <3>1, <3>2, <3>3 DEF KeyTypes
      <4>2. ~collided => issued' \ replaced' \subseteq {keys + 1}
        BY <1>1, <3>1 DEF KeysKept
      <4> QED
        BY <1>1, <2>1, <3>3, <4>1, <4>2 DEF KeysKept
    <3> QED
      BY <1>1, <2>1, <2>2, <3>3, <3>4, <3>5, KeyFramesKept, CopyAside DEF KeyInv
  <2> QED
    BY <2>3, <2>4
<1> QED
  BY <1>2, <1>3, <1>4, <1>5, <1>6, <1>7, <1>8 DEF KeyAct

LEMMA KeyStep == KeyInv /\ [DevKeysNext]_keyVars => KeyInv'
<1> SUFFICES ASSUME KeyInv, [DevKeysNext]_keyVars PROVE KeyInv'
  OBVIOUS
<1>1. CASE UNCHANGED keyVars
  BY <1>1 DEF keyVars, keyOnly, cacheVars, cacheOnly, reqVars, KeyInv, KeyTypes, KeyFrame, KeysKept,
     CopyKept
<1>2. CASE UserCacheNext /\ UNCHANGED keyOnly
  BY <1>2, CacheStep
<1>3. CASE \E p \in Procs : KeyAct(p)
  BY <1>3, KeyActStep
<1> QED
  BY <1>1, <1>2, <1>3 DEF DevKeysNext, KeyAct

LEMMA KeyAlways == DevKeysSpec => []KeyInv
BY KeyStart, KeyStep, PTL DEF DevKeysSpec

(* A key the developer was told opens the API until he replaces it, and no *)
(* key he replaced does, whatever requests overlap once he has a document; *)
(* the API is closed to one who is inactive, but for updates that need not *)
(* have reached the copy of his profile.                                   *)
THEOREM KeysFollowTheirOwner == DevKeysSpec => []KeysObeyTheirOwner
<1>1. KeyInv => KeysObeyTheirOwner
  <2> SUFFICES ASSUME KeyInv PROVE KeysObeyTheirOwner
    OBVIOUS
  <2>1. KeysKept /\ CopyKept
    BY DEF KeyInv
  <2>2. ASSUME NEW k \in issued \ replaced
        PROVE  Accepts(k) \/ collided \/ ~MayUseApi \/ ~devs[1].status
    BY <2>1, <2>2 DEF KeysKept, Accepts, FoundBy
  <2>3. \A k \in replaced : ~Accepts(k)
    BY <2>1 DEF KeysKept, Accepts, FoundBy
  <2>4. ASSUME \E k \in 1..keys : Accepts(k), ~missed, \A p \in Procs : pc[p] # "invalidate"
        PROVE  profile.isActive
    BY <2>1, <2>4 DEF CopyKept, Accepts, MayUseApi
  <2> QED
    BY <2>2, <2>3, <2>4 DEF KeysObeyTheirOwner
<1> QED
  BY <1>1, KeyAlways, PTL
====
