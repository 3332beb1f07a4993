------------------------- MODULE MCSyncCoordinator --------------------------
(* Instance of SyncCoordinator for TLC. *)
EXTENDS SyncCoordinator

CONSTANTS t1, t2, a1

MCTransactions == {t1, t2}
MCOneAdapter == {a1}

=============================================================================
