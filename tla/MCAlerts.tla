------------------------------ MODULE MCAlerts ------------------------------
(* Notifications on a small instance for TLC *)
EXTENDS Alerts, TLC
CONSTANTS smtp, slack

\* Mail takes the expiry warnings, Slack the other events.
TwoChannels == {[ch |-> smtp, on |-> TRUE, events |-> 1..Levels],
                [ch |-> slack, on |-> TRUE, events |-> {0}]}
=============================================================================
