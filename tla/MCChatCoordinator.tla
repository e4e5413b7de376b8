-------------------------- MODULE MCChatCoordinator --------------------------
(***************************************************************************)
(* A hasty user who sends, cancels, closes and is asked; a patient one who *)
(* switches the MCP on a failing disk and through a crash; and users who   *)
(* stop the host.                                                          *)
(***************************************************************************)
EXTENDS ChatCoordinator, TLC

\* The things that happen, in a setting where nothing else does.
Only(some) == some @@ [thing \in Things |-> 0]

MCSettings ==
  {[patient |-> FALSE, sound |-> TRUE,
    bound |-> Only([send |-> 3, cancel |-> 2, agent |-> 1])],
   [patient |-> FALSE, sound |-> TRUE,
    bound |-> Only([send |-> 2, cancel |-> 1, close |-> 1, question |-> 1, agent |-> 1])],
   [patient |-> FALSE, sound |-> TRUE,
    bound |-> Only([send |-> 2, cancel |-> 1, switch |-> 1, question |-> 1])],
   [patient |-> TRUE, sound |-> FALSE,
    bound |-> Only([send |-> 2, cancel |-> 1, switch |-> 1, save |-> 1, crash |-> 1])],
   [patient |-> TRUE, sound |-> TRUE,
    bound |-> Only([send |-> 3, cancel |-> 1, switch |-> 2, agent |-> 1])],
   [patient |-> FALSE, sound |-> TRUE,
    bound |-> Only([send |-> 2, cancel |-> 1, switch |-> 1, agent |-> 1, stop |-> 1])],
   [patient |-> FALSE, sound |-> TRUE,
    bound |-> Only([send |-> 1, close |-> 1, agent |-> 1, stop |-> 1, crash |-> 1])]}
==============================================================================
