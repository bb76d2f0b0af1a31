-------------------------- MODULE MCEditorSession ---------------------------
EXTENDS EditorSession

Everything == {"text", "paste", "undo", "redo", "save", "quit", "delete", "arrow", "jump",
               "select_all", "escape", "copy", "cut", "press", "move", "release"}
=============================================================================
