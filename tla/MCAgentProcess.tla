--------------------------- MODULE MCAgentProcess ---------------------------
(* AgentProcess on small instances. *)
EXTENDS AgentProcess

MCCallIds == (1..MaxTurns) \X (1..MaxCalls)

Says(type, names)      == [type |-> type, names |-> names, key |-> "calls", value |-> 0]
Counts(type, key, value) == [type |-> type, names |-> <<>>, key |-> key, value |-> value]

\* One assertion of each kind; tool_sequence is left out, see the README.
MCAssertions ==
  { Says("tool_called", <<"bash">>), Says("tool_not_called", <<"wait">>),
    Says("tool_called_any", <<"bash", "tasks">>), Says("trace_has", <<"llm_retry">>),
    Says("event_order", <<"tool_blocked", "llm_start">>), Says("event_order", <<"wait", "end">>),
    Says("trace_contract", <<>>), Says("next_action_is", <<"waiting">>),
    Says("no_tool_errors", <<>>),
    Counts("metric_eq", "retries", 1), Counts("metric_lte", "turns", 2),
    Counts("metric_gte", "calls", 2) }
=============================================================================
