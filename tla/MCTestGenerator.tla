--------------------------- MODULE MCTestGenerator ---------------------------
EXTENDS TestGenerator

CONSTANTS t1, t2, t3, t4, poor, blank

(* Two abilities, one with two slots; evidence for no slot, for two and for    *)
(* three; requests below the abilities, below the evidence or just answered by *)
(* it, and beyond it, where a slot can be asked twice.  Four wordings that are *)
(* kept, so that such a suite can be completed.                                *)
MCAbilities == <<"accuracy", "freshness">>
MCSlots == 1..3
MCAbilityOf == [s \in MCSlots |-> IF s = 3 THEN "freshness" ELSE "accuracy"]
MCTexts == {t1, t2, t3, t4, poor, blank}
MCPoor == {poor}
MCEvidence == {{}, {1, 3}, {1, 2, 3}}
MCBudgets == {1, 2, 4}

=============================================================================
