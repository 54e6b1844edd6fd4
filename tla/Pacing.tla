------------------------------- MODULE Pacing --------------------------------
(***************************************************************************)
(* What sstBrokerPreStartInterval asks of the broker: machines of a pool   *)
(* are started one at a time and Interval apart.  A broker that has been   *)
(* started anew since does not know of the last start and may be a round,  *)
(* Slack, early.                                                           *)
(***************************************************************************)
EXTENDS Integers

CONSTANTS Interval, Slack

VARIABLES
  since,   \* time since the last start, as far as it matters
  forgot   \* the broker has been started anew since

Gap == IF forgot THEN Interval - Slack ELSE Interval

PacingInit == since = Interval /\ forgot = TRUE

Start == since >= Gap /\ since' = 0 /\ forgot' = FALSE

Wait == since' >= since /\ UNCHANGED forgot

Forget == forgot' = TRUE /\ UNCHANGED since

PacingSpec == PacingInit /\ [][Start \/ Wait \/ Forget]_<<since, forgot>>
=============================================================================
