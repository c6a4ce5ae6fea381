----------------------------- MODULE MCSaveData -----------------------------
EXTENDS SaveData

MCItems == 1..4
=============================================================================
