--------------------------- MODULE MCFeedbackPhase ---------------------------
EXTENDS FeedbackPhase
=============================================================================
