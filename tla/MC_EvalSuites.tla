---------------------------- MODULE MC_EvalSuites ----------------------------
(* Instances of EvalSuites: an administrator, two schedules and an agent. *)
EXTENDS EvalSuites

MCSchedules == <<"nightly", "weekly">>
MCPlan == [admin |-> <<"plain">>, nightly |-> <<"plain">>,
           weekly |-> <<"plain", "boxed">>, agent |-> <<"plain">>]
MCStubs == [plain |-> {"stub"}, boxed |-> {}]
=============================================================================
