---------------------------- MODULE MCLessonsSummary ----------------------------
EXTENDS LessonsSummary
=============================================================================
