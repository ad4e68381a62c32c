---- MODULE Notices ----
(***************************************************************************)
(* What the server tells people about an operation, by WhatsApp and by     *)
(* mail.  A notice is a list of sends that one handler makes in turn.      *)
(*   operation-notification.service.ts, whatsapp.service.ts,               *)
(*   email.service.ts, smtp.service.ts, auth.service.ts, invoice.service.ts*)
(* Wording, languages and the layout of mails are left out.                *)
(***************************************************************************)
EXTENDS Requests, Sequences

CONSTANTS
    Events,         \* operations that people are told about
    KindsOf(_),     \* what an event may be: see Kinds
    Admins,         \* the administrators, in the order they are read
    Alerted,        \* the addresses that alerts go to
    Numberless,     \* people whose profile has no number or no country
    Mailless,       \* people whose address is not valid
    MaxFailNumber   \* failed texts in a row before an alert (the code: 6)

ASSUME NoticesAssumption ==
    /\ MaxFailNumber \in Nat \ {0}
    /\ \A list \in {Admins, Alerted} : list \in Seq({list[i] : i \in DOMAIN list})

VARIABLES
    kind,       \* what an event is, or "none"
    notice,     \* how far its notice is
    copies,     \* history: how often each of its sends so far was heard
    enabled,    \* the channels the administrator leaves on
    configured, \* the database has the settings of the mail server
    mailer,     \* the instance's transporter of mails
    failNumber  \* the instance's count of failed texts

noticeOnly == <<kind, notice, copies, enabled, configured, mailer, failNumber>>
noticeVars == <<reqVars, noticeOnly>>

Channels == {"whatsapp", "mail"}

----
(* A send tries its forms until one is accepted.  nowhere is what the code *)
(* does for a person it has no number of: it passes over them, throws, or  *)
(* tries all the same; "given" is a number stored with the transaction.    *)
Whatsapp(to, forms, nowhere) ==
    [over |-> "whatsapp", to |-> to, forms |-> forms, nowhere |-> nowhere]

WithFallback == <<"template", "text">>

WelcomeMessage == Whatsapp("user", <<"template">>, "try")
ResetMessage == Whatsapp("user", WithFallback, "try")
PasswordMessage == Whatsapp("user", WithFallback, "try")
TransferReceiverMessage == Whatsapp("receiver", WithFallback, "given")
TransferSenderMessage == Whatsapp("sender", WithFallback, "given")
NewSubscriberMessage == Whatsapp("sender", WithFallback, "throw")
ForPlanAuthorMessage == Whatsapp("receiver", WithFallback, "skip")
WithdrawalMessage == Whatsapp("receiver", WithFallback, "try")
ServiceMessage == Whatsapp("sender", WithFallback, "try")
ServiceReceivedMessage == Whatsapp("receiver", WithFallback, "try")
RejectedMessage == Whatsapp("sender", WithFallback, "try")
DonorMessage == Whatsapp("sender", WithFallback, "try")
OwnerMessage == Whatsapp("receiver", WithFallback, "try")
PayoutFailedMessage == Whatsapp("alert", WithFallback, "given")

(* Every administrator, or the number for alerts when there is none.       *)
NeedValidationMessages ==
    IF Admins = <<>> THEN <<Whatsapp("alert", <<"text">>, "given")>>
    ELSE [i \in DOMAIN Admins |-> Whatsapp(Admins[i], WithFallback, "skip")]

(* At the start of an instance, two templates are tried with every one.    *)
StartupTest ==
    [i \in DOMAIN Admins |-> Whatsapp(Admins[i], <<"template", "template">>, "skip")]

(* Some mails let their error through, the others return false.            *)
Mail(to, throws) == [over |-> "mail", to |-> to, forms |-> <<"mail">>, throws |-> throws]

WelcomeMail == Mail("user", TRUE)
NewsletterMail == Mail("user", TRUE)
ResetMail == Mail("user", FALSE)
PasswordMail == Mail("user", TRUE)
CodeMail == Mail("user", FALSE)
LockedMail == Mail("user", FALSE)
PaymentMail == Mail("user", TRUE)
WithdrawalMail == Mail("receiver", TRUE)
TransferMail(to) == Mail(to, TRUE)
OperationMail(to) == Mail(to, TRUE)
InvoiceMail(to) == Mail(to, TRUE)

(* One mail for each address, in the background; errors are caught there.  *)
AlertMails == [i \in DOMAIN Alerted |-> Mail(Alerted[i], FALSE)]
BruteForceMails == AlertMails
PayoutPendingMails == AlertMails
PayoutFailedMails == AlertMails

----
(* The notices.                                                            *)
TransferSuccess ==
    <<TransferReceiverMessage, TransferMail("receiver"), TransferSenderMessage,
      TransferMail("sender")>>
WithdrawalSuccess == <<WithdrawalMessage, WithdrawalMail>>
ServicePaymentSuccess ==
    <<ServiceMessage, ServiceReceivedMessage, OperationMail("sender"),
      OperationMail("receiver")>>
SubscriptionSuccess ==
    <<NewSubscriberMessage, OperationMail("sender"), ForPlanAuthorMessage,
      OperationMail("receiver")>>
FundraisingDonation ==
    <<DonorMessage, OperationMail("sender"), OwnerMessage, OperationMail("receiver")>>
AdminPayoutPending == NeedValidationMessages \o PayoutPendingMails
AdminPayoutFailed == <<PayoutFailedMessage>> \o PayoutFailedMails
RejectedTransaction == <<RejectedMessage, OperationMail("sender")>>
Started == AlertMails \o StartupTest

(* The two sends of an account's notice do not wait for each other: any    *)
(* order is as good.                                                       *)
Sends ==
    [transfer |-> TransferSuccess, withdrawal |-> WithdrawalSuccess,
     service |-> ServicePaymentSuccess, subscription |-> SubscriptionSuccess,
     donation |-> FundraisingDonation, pending |-> AdminPayoutPending,
     failed |-> AdminPayoutFailed, rejected |-> RejectedTransaction,
     invoice |-> <<InvoiceMail("payer"), InvoiceMail("owner")>>,
     started |-> Started, welcome |-> <<WelcomeMail, WelcomeMessage>>,
     reset |-> <<ResetMail, ResetMessage>>, password |-> <<PasswordMail, PasswordMessage>>,
     code |-> <<CodeMail>>, locked |-> BruteForceMails \o <<LockedMail>>,
     newsletter |-> <<NewsletterMail>>, payment |-> <<PaymentMail>>]
Kinds == DOMAIN Sends

ASSUME KindsAssumption == \A e \in Events : KindsOf(e) \subseteq Kinds

(* A user who is looked up and not found ends the notice, and so does a    *)
(* payout to validate whose transaction is no longer paid and waiting.  The*)
(* notice of an invoice leaves out a payer without an address and an owner *)
(* who is not found.                                                       *)
LookedUp(k) ==
    CASE k \in {"transfer", "service", "subscription", "donation"} -> {"sender", "receiver"}
      [] k = "withdrawal" -> {"receiver"}
      [] k = "rejected" -> {"sender"}
      [] k = "pending" -> {"transaction"}
      [] OTHER -> {}

SendsOf(k, known) ==
    IF k = "invoice" THEN SelectSeq(Sends[k], LAMBDA m : m.to \in known) ELSE Sends[k]

(* notifyPaymentSuccess of the invoices catches at its end only.           *)
\* Mutant: no send is wrapped in safe().
GuardedNever(k) == FALSE

Guarded(k) == k # "invoice"

----
NoticesTypeOK ==
    /\ kind \in [Events -> Kinds \cup {"none"}]
    /\ notice \in [Events -> {"none", "running", "told", "nobody", "abandoned", "stopped"}]
    /\ \A e \in Events : copies[e] \in Seq(0..2)
    /\ enabled \subseteq Channels
    /\ configured \in BOOLEAN
    /\ mailer \in {"starting", "ready", "failed"}
    /\ failNumber \in Nat
    /\ pc \in [Procs -> {"idle", "send", "alert"}]

NoticesInit ==
    /\ RequestsInit
    /\ kind = [e \in Events |-> "none"]
    /\ notice = [e \in Events |-> "none"]
    /\ copies = [e \in Events |-> <<>>]
    /\ enabled \in SUBSET Channels
    /\ configured \in BOOLEAN
    /\ mailer = "starting" /\ failNumber = 0

FormsOf(sends) == IF sends = <<>> THEN <<>> ELSE Head(sends).forms
Facing(e, sends) ==
    [subject |-> e, left |-> sends, forms |-> FormsOf(sends), heard |-> 0]

(* The caller does not wait, and catches what a notice throws.             *)
Notify(p, e, k) ==
    /\ notice[e] = "none"
    /\ kind' = [kind EXCEPT ![e] = k]
    /\ \E known \in SUBSET {"sender", "receiver", "payer", "owner", "transaction"} :
        IF LookedUp(k) \subseteq known
        THEN /\ notice' = [notice EXCEPT ![e] = "running"]
             /\ Begin(p, "send", Facing(e, SendsOf(k, known)))
        ELSE /\ notice' = [notice EXCEPT ![e] = "nobody"]
             /\ pc[p] = "idle" /\ UNCHANGED reqVars
    /\ UNCHANGED <<copies, enabled, configured, mailer, failNumber>>

EndNotice(p, e, how) ==
    /\ notice' = [notice EXCEPT ![e] = how]
    /\ Return(p)

Told(p) ==
    /\ pc[p] = "send" /\ stack[p].left = <<>>
    /\ EndNotice(p, stack[p].subject, "told")
    /\ UNCHANGED <<kind, copies, enabled, configured, mailer, failNumber>>

(* The send is through; it was heard so often.                             *)
CountCopies(f, heard) == copies' = [copies EXCEPT ![f.subject] = Append(@, heard)]
NextSend(f) == Facing(f.subject, Tail(f.left))

----
(* WhatsApp.                                                               *)
AtSend(p, over) ==
    /\ pc[p] = "send"
    /\ stack[p].left # <<>>
    /\ Head(stack[p].left).over = over

Nowhere(p) == LET m == Head(stack[p].left) IN m.to \in Numberless /\ m.nowhere # "given"

Settings == <<kind, notice, enabled, configured, mailer>>

PassOver(p) ==
    /\ AtSend(p, "whatsapp")
    /\ Nowhere(p) /\ Head(stack[p].left).nowhere \in {"skip", "throw"}
    /\ CountCopies(stack[p], 0)
    /\ JumpWith(p, "send", NextSend(stack[p]))
    /\ UNCHANGED <<Settings, failNumber>>

(* Tries reaches the sending of a payload.                                 *)
Tries(p) ==
    /\ AtSend(p, "whatsapp")
    /\ Nowhere(p) => Head(stack[p].left).nowhere = "try"

AfterSuccess(p) == IF Head(stack[p].forms) = "text" THEN 0 ELSE failNumber

(* While the channel is off, a payload is left out and counts as sent.     *)
LeaveOut(p) ==
    /\ Tries(p) /\ "whatsapp" \notin enabled
    /\ CountCopies(stack[p], stack[p].heard)
    /\ failNumber' = AfterSuccess(p)
    /\ JumpWith(p, "send", NextSend(stack[p]))
    /\ UNCHANGED Settings

\* Mutant: the fallback follows a template that was accepted.
AcceptAndGoOn(p) ==
    /\ Tries(p) /\ "whatsapp" \in enabled /\ ~Nowhere(p)
    /\ IF Len(stack[p].forms) > 1
       THEN /\ JumpWith(p, "send", [stack[p] EXCEPT !.forms = Tail(@), !.heard = @ + 1])
            /\ UNCHANGED <<copies, failNumber>>
       ELSE /\ CountCopies(stack[p], stack[p].heard + 1)
            /\ failNumber' = AfterSuccess(p)
            /\ JumpWith(p, "send", NextSend(stack[p]))
    /\ UNCHANGED Settings

Accept(p) ==
    /\ Tries(p) /\ "whatsapp" \in enabled /\ ~Nowhere(p)
    /\ CountCopies(stack[p], stack[p].heard + 1)
    /\ failNumber' = AfterSuccess(p)
    /\ JumpWith(p, "send", NextSend(stack[p]))
    /\ UNCHANGED Settings

(* A form that fails gives way to the next; a text that fails is counted,  *)
(* and too many of them raise an alert.                                    *)
NextForm(p, heard) ==
    LET f == [stack[p] EXCEPT !.heard = @ + heard]
        failed == failNumber + (IF Head(f.forms) = "text" THEN 1 ELSE 0)
    IN /\ failNumber' = failed
       /\ IF Len(f.forms) > 1
          THEN /\ pc' = pc
               /\ stack' = [stack EXCEPT ![p] = [f EXCEPT !.forms = Tail(@)]]
               /\ UNCHANGED copies
          ELSE /\ CountCopies(f, f.heard)
               /\ pc' = [pc EXCEPT ![p] = IF failed >= MaxFailNumber /\ failed > failNumber
                                          THEN "alert" ELSE "send"]
               /\ stack' = [stack EXCEPT ![p] = NextSend(f)]

(* Meta refuses: a template it has not approved, a number it does not know,*)
(* an instance without the access data, an outage.                         *)
Refuse(p) ==
    /\ Tries(p) /\ "whatsapp" \in enabled
    /\ NextForm(p, 0)
    /\ UNCHANGED <<Settings, faults>>

(* The message arrives and the answer does not, within its 20 s.           *)
LoseAnswer(p) ==
    /\ Tries(p) /\ "whatsapp" \in enabled /\ ~Nowhere(p)
    /\ NextForm(p, 1)
    /\ Faulty("outage")
    /\ UNCHANGED Settings

(* The alert is mailed in the background; then the count begins anew, even *)
(* if another text failed meanwhile.                                       *)
Alert(p) ==
    /\ pc[p] = "alert"
    /\ failNumber' = 0
    /\ Jump(p, "send")
    /\ UNCHANGED <<Settings, copies>>

----
(* Mail.                                                                   *)
(* The transporter is made once, when the instance starts.  If the settings*)
(* were missing then, every mail awaits the promise that was rejected.     *)
InitializeTransporter ==
    /\ mailer = "starting"
    /\ mailer' = IF configured THEN "ready" ELSE "failed"
    /\ UNCHANGED <<reqVars, kind, notice, copies, enabled, configured, failNumber>>

UpdateSmtpData ==
    /\ ~configured /\ configured' = TRUE
    /\ UNCHANGED <<reqVars, kind, notice, copies, enabled, mailer, failNumber>>

(* safe() keeps the error of one send from the sends that follow.          *)
Throw(p, heard) ==
    /\ CountCopies(stack[p], heard)
    /\ IF Head(stack[p].left).throws /\ ~Guarded(kind[stack[p].subject])
       THEN EndNotice(p, stack[p].subject, "abandoned")
       ELSE /\ JumpWith(p, "send", NextSend(stack[p]))
            /\ UNCHANGED notice

SendMail(p) ==
    /\ AtSend(p, "mail") /\ "mail" \in enabled /\ mailer = "ready"
    /\ Head(stack[p].left).to \notin Mailless
    /\ CountCopies(stack[p], 1)
    /\ JumpWith(p, "send", NextSend(stack[p]))
    /\ UNCHANGED <<Settings, failNumber>>

(* An invalid address is passed over before the transporter is asked for.  *)
PassOverAddress(p) ==
    /\ AtSend(p, "mail") /\ "mail" \in enabled
    /\ Head(stack[p].left).to \in Mailless
    /\ CountCopies(stack[p], 0)
    /\ JumpWith(p, "send", NextSend(stack[p]))
    /\ UNCHANGED <<Settings, failNumber>>

(* Mails are off, there is no transporter, or the mail server refuses; it  *)
(* may also have taken the mail without saying so.                         *)
FailMail(p) ==
    /\ AtSend(p, "mail")
    /\ "mail" \notin enabled \/ mailer # "starting"
    /\ \E heard \in {0, 1} :
        /\ heard = 1 => "mail" \in enabled /\ mailer = "ready"
        /\ Throw(p, heard)
    /\ UNCHANGED <<kind, enabled, configured, mailer, failNumber>>

----
Switch(channel) ==
    /\ enabled' = IF channel \in enabled THEN enabled \ {channel} ELSE enabled \cup {channel}
    /\ UNCHANGED <<reqVars, kind, notice, copies, configured, mailer, failNumber>>

(* The instance stops in the middle of a notice, and starts again.         *)
Restart ==
    /\ \E p \in Procs : pc[p] # "idle"
    /\ Faulty("crash")
    /\ pc' = [p \in Procs |-> "idle"]
    /\ stack' = [p \in Procs |-> NoStack]
    /\ notice' = [e \in Events |-> IF notice[e] = "running" THEN "stopped" ELSE notice[e]]
    /\ mailer' = "starting" /\ failNumber' = 0
    /\ UNCHANGED <<kind, copies, enabled, configured>>

NoticesNext ==
    \/ InitializeTransporter \/ UpdateSmtpData \/ Restart
    \/ \E channel \in Channels : Switch(channel)
    \/ \E p \in Procs :
        \/ \E e \in Events : \E k \in KindsOf(e) : Notify(p, e, k)
        \/ Told(p) \/ PassOver(p) \/ LeaveOut(p) \/ Accept(p) \/ Refuse(p) \/ LoseAnswer(p)
        \/ Alert(p) \/ SendMail(p) \/ PassOverAddress(p) \/ FailMail(p)

NoticesSpec == NoticesInit /\ [][NoticesNext]_noticeVars

----
(* A send that fails does not keep the others from being made: of a notice *)
(* that is over everything was tried.  An invoice's, without safe, is left *)
(* out.                                                                    *)
OthersAreTold ==
    \A e \in Events :
        notice[e] \in {"told", "abandoned"} /\ kind[e] # "invoice" =>
            Len(copies[e]) = Len(Sends[kind[e]])

Twice(counts) == {i \in DOMAIN counts : counts[i] > 1}

(* One message is heard twice only if Meta took it and its answer was lost,*)
(* so that the fallback followed.                                          *)
HeardTwiceLostAnswer == \A e \in Events : Cardinality(Twice(copies[e])) <= LostAnswers

(* Everybody whom a notice concerns is told, and told once, as far as Meta *)
(* and the mail server let it: one failing send costs nobody else theirs   *)
(* (operation-notification.service.ts:15, safe), and the fallback follows  *)
(* a failure only (whatsapp.service.ts:563 and its likes).                 *)
EachIsToldOnce == OthersAreTold /\ HeardTwiceLostAnswer
====
