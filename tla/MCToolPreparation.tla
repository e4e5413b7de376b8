-------------------------- MODULE MCToolPreparation --------------------------
(***************************************************************************)
(* One tool: with callers that may ask to repeat the smoke and an outside  *)
(* that promises nothing; in cooperative surroundings with and without the *)
(* request; and where an absent engine may not be installed, as in the     *)
(* program.                                                                *)
(***************************************************************************)
EXTENDS ToolPreparation

MCSettings ==
  [retry : {{TRUE, FALSE}}, first : {"absent", "ready"}, install : {"asked"},
   cooperative : {FALSE}, crash : {1}, mishap : {1}]
  \cup [retry : {{TRUE, FALSE}}, first : {"incompatible"}, install : {"unasked"},
        cooperative : {FALSE}, crash : {1}, mishap : {2}]
  \cup [retry : {{FALSE}}, first : {"absent"}, install : {"asked"},
        cooperative : {TRUE}, crash : {1}, mishap : {2}]
  \cup [retry : {{FALSE}}, first : {"absent"}, install : {"unsupported", "unasked"},
        cooperative : {TRUE}, crash : {1}, mishap : {1}]
  \cup [retry : {{FALSE}}, first : Engines \ {"absent"}, install : {"unasked"},
        cooperative : {TRUE}, crash : {1}, mishap : {2}]
  \cup [retry : {{TRUE}}, first : {"stopped"}, install : {"unasked"},
        cooperative : {TRUE}, crash : {1}, mishap : {2}]
=============================================================================
