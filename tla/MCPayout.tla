---- MODULE MCPayout ----
(***************************************************************************)
(* Payout for TLC: two processes, one of them the crons.                   *)
(***************************************************************************)
EXTENDS Payout, TLC

CONSTANTS Request, Background

MCProcs == {Request, Background}

(* What an HTTP request or a webhook starts, and what the schedulers do;   *)
(* auto-approval is a job of the schedulers.                               *)
MCJobs ==
    (Request :> {"payout", "reject", "bulkReject", "poll", "callback", "txCron"})
    @@ (Background :> {"payout", "cron", "check", "txCron"})
====
