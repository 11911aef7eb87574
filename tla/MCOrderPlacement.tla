-------------------------- MODULE MCOrderPlacement --------------------------
EXTENDS OrderPlacementProps
=============================================================================
