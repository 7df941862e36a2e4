----------------------------- MODULE TctiCommon -----------------------------
(***************************************************************************)
(* Definitions every TCTI transport shares: the states of                  *)
(* TSS2_TCTI_COMMON_CONTEXT, the return codes the header comment of        *)
(* tcti-common.h classifies, and the sequence checks of tcti-common.c.     *)
(* Contexts are always valid here (no NULL pointer, the right magic), so a *)
(* check can only succeed or answer BAD_SEQUENCE.                          *)
(***************************************************************************)

\* tcti_state_t.
TctiStates == {"FINAL", "TRANSMIT", "RECEIVE"}

\* Codes after which a failed receive may be called again: the state is kept.
RetryCodes == {"TCTI_TRY_AGAIN", "TCTI_INSUFFICIENT_BUFFER", "TCTI_BAD_CONTEXT",
               "TCTI_BAD_REFERENCE", "TCTI_BAD_VALUE", "TCTI_BAD_SEQUENCE"}

\* The other failures of a receive: "not recoverable".
FatalCodes == {"TCTI_IO_ERROR", "TCTI_GENERAL_FAILURE", "TCTI_NO_CONNECTION"}

\* How a transport fails a call of an operation it does not offer.
Unsupported == "TCTI_NOT_IMPLEMENTED"

TctiCodes == {"SUCCESS", Unsupported} \cup RetryCodes \cup FatalCodes

-----------------------------------------------------------------------------
(* The sequence part of tcti_common_*_checks.                              *)

transmit_checks(st) == st = "TRANSMIT"
receive_checks(st) == st = "RECEIVE"
cancel_checks(st) == st = "RECEIVE"
set_locality_checks(st) == st = "TRANSMIT"

=============================================================================
