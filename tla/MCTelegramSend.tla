--------------------------- MODULE MCTelegramSend ---------------------------
(* An instance of TelegramSend for TLC. *)
EXTENDS TelegramSend, TLC

Interchangeable == Permutations(Tasks) \cup Permutations(Workers) \cup Permutations(Presses)
=============================================================================
