-------------------------- MODULE MCEvaluationCycle --------------------------
EXTENDS EvaluationCycle

MCCallers == {"cron", "cycle"}
MCCycles == MCCallers \X (1 .. MaxRuns)
MCNoCycle == <<"none", 0>>
MCTooled == {"trading-agent"}
MCAgents == MCTooled \union {"outcome-fetcher", "pnl-aggregator",
                             "agent-performance-updater"}
=============================================================================
