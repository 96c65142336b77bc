-------------------------- MODULE MCPaneCheckpoint --------------------------
(* Small instances of PaneCheckpoint. *)
EXTENDS PaneCheckpoint

TwoPanes == <<1, 2>>
FirstOnly == <<2, 0, 0>>
=============================================================================
