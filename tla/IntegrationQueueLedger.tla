----------------------- MODULE IntegrationQueueLedger -----------------------
(***************************************************************************)
(* IntegrationQueue implements MeetingLedger.  The ledger is what is on    *)
(* disk: the head, the acceptances and the publication a restart would     *)
(* read from the Meeting journal, and the user's base.                     *)
(***************************************************************************)
EXTENDS IntegrationQueue

Ledger == INSTANCE MeetingLedger WITH
    head      <- log.head,
    accepted  <- log.accepted,
    published <- IF log.publication = "published" THEN log.request.head ELSE None

\* Through crashes, restarts, rejected journal writes and failing Git calls, the
\* queue does on disk what the ledger allows and nothing else: no acceptance is
\* lost, doubled or reordered, no commit of the user is rewritten, and nothing is
\* called published that is not on the base (process(), publish(), restore()).
ImplementsLedger == Ledger!Spec
=============================================================================
