------------------------------- MODULE MCAgents -------------------------------
(* Instance of AgentGateway: the Principal, the System agent and two Workers  *)
(* on one lane.                                                                *)
EXTENDS AgentGateway, TLC

CONSTANTS P, S, W1, W2, l1

MCCallers == {P, S, W1, W2}
MCRank == P :> 3 @@ S :> 2 @@ W1 :> 0 @@ W2 :> 0
MCRoots == {P, S}
MCKids == S :> {W1, W2} @@ P :> {} @@ W1 :> {} @@ W2 :> {}
MCAnswers ==
  P :> {<<>>}
  @@ S :> {<<"dispatch", "dispatch">>, <<"dispatch">>}
  @@ W1 :> {<<"task_complete">>, <<"request_escalation">>}
  @@ W2 :> {<<>>}
MCEstimates == W1 :> {1} @@ W2 :> {0, 1} @@ P :> {} @@ S :> {}
MCMaxRuns == P :> 1 @@ S :> 1

================================================================================
