------------------------------- MODULE ScanRun -------------------------------
(***************************************************************************)
(* What a scan promises to those who poll it: while it runs nothing of it  *)
(* is seen, and when it completes all its results are there at once.  A    *)
(* scan that failed has changed no result.  UsageScan implements this.     *)
(***************************************************************************)
CONSTANTS
  Scans,       \* scans that may be requested
  Endpoints,   \* what a scan reports on
  None         \* owner of an endpoint no scan has reported on, not a scan

VARIABLES
  status,   \* what a poll of the scan shows
  owner     \* the scan whose finding each endpoint shows

vars == <<status, owner>>

Statuses == {"nil", "queued", "running", "completed", "failed", "gone"}

Init ==
  /\ status = [s \in Scans |-> "nil"]
  /\ owner = [e \in Endpoints |-> None]

Request(s) ==
  /\ status[s] = "nil"
  /\ status' = [status EXCEPT ![s] = "queued"]
  /\ UNCHANGED owner

\* A request delivered again starts over a scan that has ended.
Begin(s) ==
  /\ status[s] # "gone"
  /\ status' = [status EXCEPT ![s] = "running"]
  /\ UNCHANGED owner

Publish(s, found) ==
  /\ status[s] = "running"
  /\ status' = [status EXCEPT ![s] = "completed"]
  /\ owner' = [e \in Endpoints |-> IF e \in found THEN s ELSE owner[e]]

Fail(s) ==
  /\ status[s] = "running"
  /\ status' = [status EXCEPT ![s] = "failed"]
  /\ UNCHANGED owner

\* The subject of the scans is deleted, and every scan and result with it.
Remove ==
  /\ status' = [s \in Scans |-> IF status[s] = "nil" THEN "nil" ELSE "gone"]
  /\ owner' = [e \in Endpoints |-> None]

Next ==
  \/ \E s \in Scans: Request(s) \/ Begin(s) \/ Fail(s)
  \/ \E s \in Scans, found \in SUBSET Endpoints: Publish(s, found)
  \/ Remove

Spec == Init /\ [][Next]_vars
=============================================================================
