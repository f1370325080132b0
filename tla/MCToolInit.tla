----------------------------- MODULE MCToolInit -----------------------------
(* Initialisation of a process and its threads, and of VCPU threads alone.  *)
EXTENDS ToolInit

=============================================================================
