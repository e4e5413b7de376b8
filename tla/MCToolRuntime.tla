---------------------------- MODULE MCToolRuntime ----------------------------
(***************************************************************************)
(* Leftover containers of two images with every kind of fault and operator *)
(* command; quits with operator commands before and behind their drains, a *)
(* drain that fails or is given up and is asked for again; two             *)
(* conversations that attach and detach around a turn, a viewer operation  *)
(* and a crash; and outages of a provider nobody but the conversations     *)
(* starts.                                                                 *)
(***************************************************************************)
EXTENDS ToolRuntime

Quiet == [chats |-> Chats, ops |-> Ops, timely |-> TRUE, operator |-> {},
          leftovers |-> 0, attempt |-> 0, close |-> 0, busy |-> 0, asked |-> 0,
          timeout |-> 0, outage |-> 0, crash |-> 0, quit |-> 0]

MCSettings ==
  {[Quiet EXCEPT !.chats = {"c1"}, !.ops = {}, !.timely = FALSE,
     !.operator = {"ensure", "stop", "restart"}, !.leftovers = 2, !.attempt = 1,
     !.close = 1, !.asked = 1, !.timeout = 1, !.outage = 1, !.crash = 1],
   [Quiet EXCEPT !.chats = {"c1"}, !.operator = {"ensure", "restart"}, !.leftovers = 1,
     !.attempt = 1, !.asked = 1, !.outage = 1, !.quit = 2],
   [Quiet EXCEPT !.chats = {}, !.ops = {}, !.operator = {"ensure", "restart"},
     !.asked = 2, !.outage = 2, !.quit = 2],
   [Quiet EXCEPT !.attempt = 2, !.close = 1, !.busy = 1, !.crash = 1],
   [Quiet EXCEPT !.chats = {"c1"}, !.leftovers = 1, !.attempt = 3, !.busy = 1,
     !.outage = 2, !.crash = 1]}
=============================================================================
