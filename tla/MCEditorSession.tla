----------------------------- MODULE MCEditorSession -----------------------------
(* Two workflows, saves from the button, the hotkey and the dialog, one restore at *)
(* a time, two changes and a history of one snapshot.                             *)
EXTENDS EditorSession, TLC

CONSTANTS w1, w2, button, hotkey, dialog
MCWorkflows == {w1, w2}
MCSavers == {button, hotkey, dialog}
MCSymmetry == Permutations(MCWorkflows) \union Permutations({button, hotkey})
==================================================================================
