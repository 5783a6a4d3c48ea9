------------------------------ MODULE Connect ------------------------------
(***************************************************************************)
(* A messenger is connected: a Telegram account through the registry of    *)
(* the web process, a WhatsApp or MAX account through the session of its   *)
(* worker.  The three share nothing, so that a behaviour follows one.      *)
(***************************************************************************)
EXTENDS TelegramLogin, WorkerSession, MaxSession

VARIABLE messenger

connectVars == <<messenger, loginVars, sessionVars, maxVars>>

ConnectTypeOK ==
  messenger \in {"tg_user", "wa", "max"} /\ LoginTypeOK /\ SessionTypeOK /\ MaxTypeOK

Init ==
  /\ messenger \in {"tg_user", "wa", "max"}
  /\ LoginInit
  /\ SessionInit
  /\ MaxInit
  /\ messenger # "wa" => ~onDisk

Next ==
  /\ UNCHANGED messenger
  /\ \/ messenger = "tg_user" /\ LoginNext /\ UNCHANGED <<sessionVars, maxVars>>
     \/ messenger = "wa" /\ SessionNext /\ UNCHANGED <<loginVars, maxVars>>
     \/ messenger = "max" /\ MaxNext /\ UNCHANGED <<loginVars, sessionVars>>

Spec == Init /\ [][Next]_connectVars /\ SessionFairness

-----------------------------------------------------------------------------

\* The sync-status of both workers: "ready" is answered with the groups, whichever of
\* several loops wrote it and whatever became of the session it had started for.  In
\* max_worker there is one turn of the event loop between on_start, which says "ready"
\* first, and the task that fetches; a poll in it gets an empty list.
ReadyHasGroups ==
  /\ \A k \in Sockets : sock[k].syncState = "ready" => sock[k].groups
  /\ maxSession # NoClient /\ client[maxSession].sync_state = "ready"
       => client[maxSession].groups \/ \E l \in SyncTasks : syncTask[l].step = "created"

=============================================================================
