---------------------------- MODULE MCSysContext ----------------------------
(***************************************************************************)
(* Instances of SysContext: three commands with the handles and flags of   *)
(* Tss2_Sys_Create (sessions, both encryptable parameters), Tss2_Sys_Load  *)
(* (a response handle as well) and Tss2_Sys_Startup (no sessions at all).  *)
(* A first parameter of two pieces can be replaced by SetDecryptParam and  *)
(* the other sizes it is called with are refused or, for NULL, inserted.   *)
(***************************************************************************)
EXTENDS SysContext

MCLayout ==
    [c \in Commands |->
       CASE c = "Create" ->
              [handles |-> 1, rspHandles |-> 0, decrypt |-> TRUE, encrypt |-> TRUE, auth |-> TRUE,
               sizes |-> {Null, 2}, rest |-> 2, rspSize |-> 2, rspRest |-> 1]
         [] c = "Load" ->
              [handles |-> 1, rspHandles |-> 1, decrypt |-> TRUE, encrypt |-> TRUE, auth |-> TRUE,
               sizes |-> {Null, 2}, rest |-> 1, rspSize |-> 1, rspRest |-> 0]
         [] c = "Startup" ->
              [handles |-> 0, rspHandles |-> 0, decrypt |-> FALSE, encrypt |-> FALSE, auth |-> FALSE,
               sizes |-> {0}, rest |-> 1, rspSize |-> 0, rspRest |-> 0]]
=============================================================================
