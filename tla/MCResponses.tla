---------------------------- MODULE MCResponses ----------------------------
(* Three services: one with a diagnostic, one that has no service id, and  *)
(* one without diagnostics.                                                *)
EXTENDS Responses

MCDiags == <<1, 0, 0>>
=============================================================================
