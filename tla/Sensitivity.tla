---------------------------- MODULE Sensitivity ----------------------------
(* The tiers of src/exodus/classify/sensitivity.py, ordered as there.      *)
EXTENDS Naturals

PUBLIC == 0
LOW == 1
MEDIUM == 2
HIGH == 3
SECRET == 4
Tier == PUBLIC..SECRET
=============================================================================
