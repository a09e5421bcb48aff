-------------------------- MODULE MCSodGovernance --------------------------
(***************************************************************************)
(* Instances of SodGovernance for TLC.  A behaviour has a width: the       *)
(* number of handlers it has under way at once.                            *)
(***************************************************************************)
EXTENDS SodGovernance

CONSTANTS tx, ty
VARIABLE width

Sides  == {[a |-> {tx}, b |-> {ty}]}
Tells  == {Options \ {"cooldown_enabled"}, Options \ {"notify_on_new_violation"}}
Limits == [refused |-> 1, crash |-> 1, graph |-> 1]

\* Somebody asked for tx while nobody wished to be told.
Waiting  == [policy |-> CHOOSE p \in Policies : TRUE, target |-> tx, routed |-> FALSE, status |-> "PENDING",
             exception |-> 0, assignment |-> 0, since |-> 0]

\* The policies are there from the start, or one not yet; a request may wait.
WideInit == /\ width \in 1..MaxInFlight
            /\ \E s \in Shapes, there \in {Policies, {CHOOSE p \in Policies : TRUE}} :
                 policy = [p \in Policies |-> IF p \in there THEN [status |-> "ACTIVE", a |-> s.a, b |-> s.b] ELSE Absent]
            /\ requests \in {<<>>, <<Waiting>>}
            /\ rows = <<>> /\ direct \in SUBSET ReadLive /\ recent = {} /\ exceptions = <<>>
            /\ notes = [k \in Keys |-> 0] /\ noted = {} /\ settings \in Settings /\ (width = 2 => settings = Options \ {"cooldown_enabled"})
            /\ op = [q \in Procs |-> Idle] /\ edits = 0 /\ faults = [f \in Faults |-> 0]

\* At width 1 nothing else happens while a handler runs.
PacedNext == /\ Next /\ UNCHANGED width /\ Cardinality(Busy') <= width
             /\ (width = 1 /\ Busy # {} => op' # op)
PacedSpec == Init /\ width \in 1..MaxInFlight /\ [][PacedNext]_<<vars, width>>

\* At width 2 nobody edits policies or looks at notifications.
WideNext == /\ PacedNext
            /\ (width = 2 => /\ UNCHANGED <<policy, settings>>
                             /\ \A q \in Admins : op'[q].kind # "look")
            /\ (edits + faults["refused"] + faults["crash"] + faults["graph"] <= MaxEdits)'
WideSpec == WideInit /\ [][WideNext]_<<vars, width>> /\ Fairness
Alone == width = 1

\* Rows keep their shape; one handler at a time, with no crash between a grant and its link:
\* grants are traceable (SodGovernance!TypeOK, GrantsTraceable).
AloneGrantsTraceable == TypeOK /\ (Alone /\ faults["crash"] = 0 => GrantsTraceable)

\* One handler at a time, Graph being reached: violations are noted (SodGovernance!Noted).
AloneNoted == Alone /\ faults["graph"] = 0 => Noted
=============================================================================
