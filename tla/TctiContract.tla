---------------------------- MODULE TctiContract ----------------------------
(***************************************************************************)
(* What a TCTI promises the layer above it: the state machine written down *)
(* in the comment of tcti-common.h.  A transport implements it when, with  *)
(* its own state and its last call and return code substituted for state   *)
(* and last, each of its steps is one of the steps below or leaves both    *)
(* alone.                                                                  *)
(*                                                                         *)
(* "size" is a receive with a NULL response buffer, which only asks how    *)
(* long the response is; Tss2_Sys_ExecuteFinish starts with one.           *)
(***************************************************************************)
EXTENDS TctiCommon

VARIABLES
    state,   \* the state of the context
    last     \* the last call: [op |-> the operation, rc |-> what it returned]

vars == <<state, last>>

Returns(op, rc) == last' = [op |-> op, rc |-> rc]

Init ==
    /\ state = "TRANSMIT"
    /\ last = [op |-> "init", rc |-> "SUCCESS"]

-----------------------------------------------------------------------------

\* A call the current state does not admit changes nothing.
Refused(op) == Returns(op, "TCTI_BAD_SEQUENCE") /\ UNCHANGED state

\* transmit: success transitions to RECEIVE, failure leaves the state alone.
Transmit ==
    \/ ~transmit_checks(state) /\ Refused("transmit")
    \/ /\ transmit_checks(state)
       /\ \/ Returns("transmit", "SUCCESS") /\ state' = "RECEIVE"
          \/ \E rc \in TctiCodes \ {"SUCCESS"} : Returns("transmit", rc) /\ UNCHANGED state

\* receive: success transitions to TRANSMIT, a retry code leaves the state
\* alone, every other failure transitions to TRANSMIT.
Receive ==
    \/ ~receive_checks(state) /\ Refused("receive")
    \/ /\ receive_checks(state)
       /\ \/ Returns("receive", "SUCCESS") /\ state' = "TRANSMIT"
          \/ \E rc \in RetryCodes : Returns("receive", rc) /\ UNCHANGED state
          \/ \E rc \in FatalCodes : Returns("receive", rc) /\ state' = "TRANSMIT"

\* A size query fails as a receive does; its success consumes nothing.
Size ==
    \/ ~receive_checks(state) /\ Refused("size")
    \/ /\ receive_checks(state)
       /\ \/ \E rc \in RetryCodes \cup {"SUCCESS"} : Returns("size", rc) /\ UNCHANGED state
          \/ \E rc \in FatalCodes : Returns("size", rc) /\ state' = "TRANSMIT"

\* cancel: success transitions to TRANSMIT, failure leaves the state alone.
Cancel ==
    \/ ~cancel_checks(state) /\ Refused("cancel")
    \/ /\ cancel_checks(state)
       /\ \/ Returns("cancel", "SUCCESS") /\ state' = "TRANSMIT"
          \/ \E rc \in TctiCodes \ {"SUCCESS"} : Returns("cancel", rc) /\ UNCHANGED state

\* setLocality leaves the state unchanged, and is refused in RECEIVE and FINAL.
SetLocality ==
    \/ ~set_locality_checks(state) /\ Refused("setLocality")
    \/ /\ set_locality_checks(state)
       /\ \E rc \in TctiCodes : Returns("setLocality", rc) /\ UNCHANGED state

\* finalize: transitions to FINAL.
Finalize == Returns("finalize", "SUCCESS") /\ state' = "FINAL"

Next == Transmit \/ Receive \/ Size \/ Cancel \/ SetLocality \/ Finalize

\* The contract is a safety specification: how soon a TPM answers is not the
\* TCTI's promise.
Spec == Init /\ [][Next]_vars
=============================================================================
