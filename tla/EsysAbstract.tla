---------------------------- MODULE EsysAbstract ----------------------------
(***************************************************************************)
(* What an ESYS_CONTEXT promises its application, without submissions,     *)
(* timeouts or lower layers: one command is pending at a time; a pending   *)
(* command ends with its own result, with an error, or with the context    *)
(* being broken; and a broken context stays broken.                        *)
(***************************************************************************)
EXTENDS Naturals

VARIABLES
    phase,     \* "idle", "pending" or "broken"
    current,   \* number of the latest command the application issued
    result     \* number of the command whose result was last delivered

avars == <<phase, current, result>>

AInit == phase = "idle" /\ current = 0 /\ result = 0

\* A command is issued, or refused before it reaches the TPM.
Issue ==
    /\ phase = "idle" /\ phase' \in {"pending", "idle"}
    /\ current' = current + 1
    /\ UNCHANGED result

\* The pending command, and no other, succeeds.
Succeed ==
    /\ phase = "pending" /\ phase' = "idle"
    /\ result' = current
    /\ UNCHANGED current

\* The pending command fails and the context can be used again.
Fail ==
    /\ phase = "pending" /\ phase' = "idle"
    /\ UNCHANGED <<current, result>>

\* The context breaks, possibly while a command is issued.
Break ==
    /\ phase \in {"idle", "pending"} /\ phase' = "broken"
    /\ current' \in {current, current + 1}
    /\ UNCHANGED result

ANext == Issue \/ Succeed \/ Fail \/ Break

ASpec == AInit /\ [][ANext]_avars

=============================================================================
