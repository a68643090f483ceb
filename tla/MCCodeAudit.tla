----------------------------- MODULE MCCodeAudit -----------------------------
(* The instance of CodeAudit that TLC checks; its .cfg files give the      *)
(* bounds.                                                                 *)
EXTENDS CodeAudit
=============================================================================
