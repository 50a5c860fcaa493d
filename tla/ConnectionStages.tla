-------------------------- MODULE ConnectionStages --------------------------
(***************************************************************************)
(* The life of a wallet connection as its server sees it, from the moment  *)
(* it is connected upstream: what Connection implements, and the stages    *)
(* through which Server takes its connections.                             *)
(***************************************************************************)

VARIABLE stage

\* The wallet or the upstream takes no data, or takes it again; a broadcast is
\* at the relay, or has returned, to a wallet that may not be reading.
Working ==
    {<<"open", "blocked">>, <<"blocked", "open">>,
     <<"open", "relaying">>, <<"relaying", "open">>, <<"relaying", "blocked">>}

\* The tasks are stopped and the responses flushed before the task returns.
Closing ==
    {<<"open", "closing">>, <<"relaying", "closing">>, <<"blocked", "closing">>,
     <<"closing", "ended">>}

\* The server may cancel the task at any stage.
Failing == {<<s, "failed">> : s \in {"open", "relaying", "blocked", "closing"}}

Moves == <<stage, stage'>> \in Working \cup Closing \cup Failing

StagesSpec == stage = "open" /\ [][Moves]_stage

=============================================================================
