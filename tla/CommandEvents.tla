--------------------------- MODULE CommandEvents ---------------------------
(***************************************************************************)
(* The order of the lg_thinq_extended_command_result events about one      *)
(* command: it is announced, then fails or is accepted, and an accepted    *)
(* one is confirmed or given up at most once.  Whether the reading that    *)
(* confirms it was taken after the command was given is no matter of the   *)
(* order of events: see ConfirmedSubsequently in CommandOutcome.           *)
(***************************************************************************)
CONSTANT Commands

VARIABLE last    \* the last event about each command

Init == last = [c \in Commands |-> "none"]

Follows(before, after) ==
  \/ before = "none"     /\ after = "sending"
  \/ before = "sending"  /\ after \in {"accepted", "failed"}
  \/ before = "accepted" /\ after \in {"state_confirmed", "accepted_unconfirmed"}

Event(c) ==
  \E status \in {"sending", "accepted", "failed", "state_confirmed",
                 "accepted_unconfirmed"} :
    /\ Follows(last[c], status)
    /\ last' = [last EXCEPT ![c] = status]

Next == \E c \in Commands : Event(c)

Spec == Init /\ [][Next]_last
=============================================================================
