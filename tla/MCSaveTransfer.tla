--------------------------- MODULE MCSaveTransfer ---------------------------
(* SaveTransfer with two settings, which are interchangeable.              *)
EXTENDS SaveTransfer, TLC

SettingsAlike == Permutations(Settings)
=============================================================================
