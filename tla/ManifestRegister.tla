-------------------------- MODULE ManifestRegister --------------------------
(***************************************************************************)
(* What the manifest file promises its readers: it is absent or one whole  *)
(* document, and it changes in one step, to a document being installed.    *)
(* The promise ends when the machine loses power.                          *)
(***************************************************************************)
CONSTANT Documents

VARIABLES
    current,   \* the installed document, "absent" before the first
    power      \* "on", or "restored" once it was lost

vars == <<current, power>>

Init == current = "absent" /\ power = "on"

Install(d) == power = "on" /\ current' = d /\ UNCHANGED power
Lost == power' = "restored"

Next == Lost \/ \E d \in Documents : Install(d)

Spec == Init /\ [][Next]_vars
=============================================================================
