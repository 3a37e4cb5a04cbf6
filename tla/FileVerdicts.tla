---------------------------- MODULE FileVerdicts ----------------------------
(***************************************************************************)
(* What a file check promises, without goroutines: each entry of the       *)
(* manifest is judged once and for good, and the report, published when    *)
(* all are judged, lists the deviating ones in manifest order.             *)
(***************************************************************************)
EXTENDS Integers, Sequences

CONSTANT Verdicts   \* what an entry can be found to be, "nil" if it is as recorded

VARIABLES
    size,      \* number of entries of the manifest
    judged,    \* their verdicts; "pending" before
    report,    \* the published report
    published

vars == <<size, judged, report, published>>

IsReport(r, verdicts) ==
    /\ \A a, b \in DOMAIN r : a < b => r[a].entry < r[b].entry
    /\ \A a \in DOMAIN r : /\ r[a].entry \in DOMAIN verdicts
                           /\ r[a].reason = verdicts[r[a].entry]
                           /\ r[a].reason # "nil"
    /\ \A i \in DOMAIN verdicts :
          verdicts[i] # "nil" => \E a \in DOMAIN r : r[a].entry = i

Init ==
    /\ size \in Nat
    /\ judged = [i \in 1..size |-> "pending"]
    /\ report = <<>> /\ published = FALSE

Judge(i) ==
    /\ ~published /\ judged[i] = "pending"
    /\ \E v \in Verdicts : judged' = [judged EXCEPT ![i] = v]
    /\ UNCHANGED <<size, report, published>>

Publish ==
    /\ ~published
    /\ \A i \in 1..size : judged[i] # "pending"
    /\ IsReport(report', judged)
    /\ published' = TRUE
    /\ UNCHANGED <<size, judged>>

Next == Publish \/ \E i \in 1..size : Judge(i)

Spec == Init /\ [][Next]_vars
=============================================================================
