------------------------------- MODULE MCVues -------------------------------
EXTENDS VuesConversations

CONSTANTS a, b

MCAvance == [v \in Vues |-> 0]
MCAvanceB == [v \in Vues |-> IF v = b THEN 1 ELSE 0]
=============================================================================
