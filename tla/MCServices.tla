----------------------------- MODULE MCServices -----------------------------
(***************************************************************************)
(* What a run is given when it starts, checked side by side: the settings, *)
(* the provider's stream, the MCP servers and the A2A client.  Once a run  *)
(* is accepted they share no state, so that a step of one commutes with    *)
(* the steps of the others: instead of the product of their states, a      *)
(* behaviour is about the one in focus.                                    *)
(***************************************************************************)
EXTENDS RemoteAgent, AssistantStream, McpServers, SettingsRuntime

CONSTANT s1

VARIABLE focus

\* The pieces a text delta may cut a turn into; ticks and angle brackets matter.
TextPieces == {<<"space">>, <<"word">>, <<"word", "open">>, <<"open">>,
               <<"open", "invoke", "close">>, <<"invoke", "close">>, <<"tick">>, <<"bad">>}
ThinkingPieces == {<<"word">>, <<"lt">>, <<"bad">>}

\* The Registry comes before the other server in the settings.
InOrder == <<Registry, s1>>

\* A service out of focus has one initial state.
OutOfFocus ==
    /\ focus # "agent" => /\ tool.registry /\ cardCache
                          /\ \A t \in Tasks : remote[t] = "absent"
    /\ focus # "settings" => /\ env
                             /\ disk.policy = CHOOSE p \in Policies : TRUE
                             /\ disk.agent.place = CHOOSE p \in Places : TRUE

ServicesInit ==
    /\ focus \in {"agent", "servers", "settings", "stream"}
    /\ Init /\ McpInit /\ SettingsInit /\ StreamInit
    /\ OutOfFocus

ServicesNext ==
    \/ /\ focus = "agent" /\ Next
       /\ UNCHANGED <<focus, mcpVars, settingsVars, streamVars>>
    \/ /\ focus = "servers" /\ McpNext
       /\ UNCHANGED <<focus, agentVars, settingsVars, streamVars>>
    \/ /\ focus = "settings" /\ SettingsNext
       /\ UNCHANGED <<focus, agentVars, mcpVars, streamVars>>
    \/ /\ focus = "stream" /\ StreamNext
       /\ UNCHANGED <<focus, agentVars, mcpVars, settingsVars>>

(* Properties: RemoteEffectsAreBounded and RemoteAnswersAreKept of RemoteAgent, McpIsBounded
   of McpServers, SettingsAreCoherent of SettingsRuntime, StreamIsSound of AssistantStream. *)
=============================================================================
