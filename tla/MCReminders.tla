---------------------------- MODULE MCReminders -----------------------------
(* An event that is not over when the clock stands still: its reminder stays *)
(* due for as long as it is not shown.                                       *)
EXTENDS Reminders

CONSTANTS meeting, notifySend, gdbus

TwoStrategies == <<notifySend, gdbus>>
AtTwo   == (meeting :> 2)
Later   == (meeting :> 9)
Single  == (meeting :> {})
Weekly  == (meeting :> {1, 8})
=============================================================================
