---- MODULE MCPayin ----
(***************************************************************************)
(* Payin for TLC: two processes, one of them the crons.                    *)
(***************************************************************************)
EXTENDS Payin, TLC

CONSTANTS Request, Background

MCProcs == {Request, Background}

(* What HTTP requests, notices of a provider and the payer start, and what *)
(* the schedulers do.  A request to verify does what the cron does, and    *)
(* the reopening is left to the liveness run: with it this one triples.    *)
MCJobs ==
    (Request :> {"create", "close", "webhook", "callback", "get"})
    @@ (Background :> {"cron", "txCron", "reconcile"})

(* For the liveness run: closing on demand, which the cron does too, and   *)
(* the page that polls are left out, and Paystack's redirect is there.     *)
MCLiveJobs ==
    (Request :> {"create", "webhook", "callback", "redirect", "open"})
    @@ (Background :> {"cron", "txCron", "reconcile"})
====
