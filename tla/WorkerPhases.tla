---------------------------- MODULE WorkerPhases ----------------------------
(***************************************************************************)
(* The phases of a WalletWorker task, as its owner (Supervisor) sees it:   *)
(* the steps of WalletWorker.run without what it does in between.          *)
(*                                                                         *)
(*   created     create_task has been called, run() has not started        *)
(*   announcing  posting the status "active", outside every try            *)
(*   working     inside the try: settings, scan, heartbeat                 *)
(*   recovering  inside an except handler, posting what went wrong         *)
(*   resting     in _sleep_or_stop                                         *)
(*   leaving     after the loop, posting the status "stopped"              *)
(*   done / failed / cancelled   how the asyncio task ended                *)
(***************************************************************************)

LivePhases == {"created", "announcing", "working", "recovering", "resting",
               "leaving"}
EndPhases  == {"done", "failed", "cancelled"}
Phases     == LivePhases \cup EndPhases

(***************************************************************************)
(* The steps of run() itself.  The loop condition is read exactly when     *)
(* the first post has returned and when _sleep_or_stop has returned.  A    *)
(* post made outside the try (the first, the last, and those of the        *)
(* handlers) takes the task down when it raises.                           *)
(***************************************************************************)
Moves(stopAsked) ==
    {<<"created", "announcing">>,
     <<"announcing", "failed">>,
     <<"working", "resting">>, <<"working", "recovering">>,
     <<"recovering", "resting">>, <<"recovering", "failed">>,
     <<"leaving", "done">>, <<"leaving", "failed">>}
    \cup ({"announcing", "resting"}
             \X {IF stopAsked THEN "leaving" ELSE "working"})
=============================================================================
