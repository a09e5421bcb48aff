--------------------------- MODULE AccessPromise ---------------------------
(***************************************************************************)
(* What the assignment engine promises about one person's real access:     *)
(* access appears at the provider only for a target that somebody with the *)
(* authority to do so has decided on; taking access away needs no decision *)
(* and may happen at any moment.  Targets that are also managed in the     *)
(* directory itself change there without anybody's decision here.          *)
(* Assignments implements this specification however its handlers and      *)
(* workers interleave, fail, retry or crash.                               *)
(***************************************************************************)
CONSTANTS
    Targets, \* what access can be granted to
    Outside  \* the targets that are also managed in the directory itself

VARIABLES
    sanctioned, \* the targets a decision was made for
    access      \* the targets the provider grants

promise == <<sanctioned, access>>

Init ==
    /\ sanctioned = {}
    /\ access = {}

Decide(t) ==
    /\ sanctioned' = sanctioned \cup {t}
    /\ UNCHANGED access

Grant(t) ==
    /\ t \in sanctioned \cup Outside
    /\ access' = access \cup {t}
    /\ UNCHANGED sanctioned

Withdraw(t) ==
    /\ access' = access \ {t}
    /\ UNCHANGED sanctioned

Next == \E t \in Targets : Decide(t) \/ Grant(t) \/ Withdraw(t)

Spec == Init /\ [][Next]_promise
=============================================================================
