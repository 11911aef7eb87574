-------------------------- MODULE MCOutcomeIngestion --------------------------
EXTENDS OutcomeIngestion
=============================================================================
