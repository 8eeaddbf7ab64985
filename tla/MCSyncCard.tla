----------------------------- MODULE MCSyncCard -----------------------------
(* Small instances of SyncCard: constants only.                            *)
EXTENDS SyncCard

CONSTANT ta

MCMayEnd == <<{"ok", "failed"}, {"ok"}>>
MCKinds == [run : 1..MaxRuns, says : {"progress", "done"}]
=============================================================================
