---------------------------- MODULE MCAudioLink -----------------------------
EXTENDS AudioLink
=============================================================================
