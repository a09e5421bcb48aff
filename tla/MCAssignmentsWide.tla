------------------------- MODULE MCAssignmentsWide -------------------------
(***************************************************************************)
(* One instance of Assignments for several questions.                      *)
(* A behaviour has a subject: "races", two handlers at once with any fault;*)
(* "calls", one handler at a time with refused calls; "sync", one handler  *)
(* at a time beside an administrator of the directory, without time and    *)
(* faults.  In the first two the third row was revoked long ago.           *)
(***************************************************************************)
EXTENDS MCAssignments

CONSTANTS r1, r2, r3

VARIABLE subject

ThreeRows == {r1, r2, r3}
Alike     == Permutations({r1, r2}) \cup Permutations(Requests)

Calls == INSTANCE Assignments WITH MaxInFlight <- 1, Payloads <- MixedBodies, Outside <- {}, Faults <- {"refused", "read"}
Sync1 == INSTANCE Assignments WITH MaxInFlight <- 1, Payloads <- GroupBodies, Faults <- {}, MaxClock <- 0

Used(r)  == Present(r) \/ \E p \in Procs : Working(op[p]) /\ op[p].row = r
Revoked  == [status |-> "REVOKED", target |-> "staff", kind |-> "PERMANENT", approval |-> FALSE, start |-> NoTime,
             exp |-> NoTime, bypass |-> FALSE, via |-> NoGroup, waived |-> FALSE]
WideInit == /\ subject \in {"races", "calls", "sync"}
            /\ rows = [r \in Rows |-> IF r = r3 /\ subject # "sync" THEN Revoked ELSE Absent]
            /\ real = {} /\ members = {} /\ clock = 0 /\ op = [p \in Procs |-> Idle] /\ faults = 0
            /\ approved = {} /\ sanctioned = {}
WideNext == /\ UNCHANGED subject
            /\ \/ subject = "races" /\ Next /\ ~DirectoryChanges
               \/ subject = "calls" /\ Calls!Next
               \/ subject = "sync"  /\ Sync1!Next /\ (Used(r3) => Used(r1) /\ Used(r2))'
WideSpec == WideInit /\ [][WideNext]_<<vars, subject>>

\* One handler at a time: a sync reconciles what it saw change (Assignments!ReconcilesSync).
AloneSyncReconciles == [][subject = "sync" => ReconcilesSync]_vars
=============================================================================
