--------------------------- MODULE MCFancyReadline ---------------------------
(* Keys for checking FancyReadline with TLC.                               *)
EXTENDS FancyReadline

Up == <<27, 91, 65>>
Right == <<27, 91, 67>>
Left == <<27, 91, 68>>
HomeKey == <<27, 79, 72>>
BackTab == <<27, 91, 90>>

(* a, Space, Enter, Backspace, Tab, Ctrl-C and keys that send three bytes  *)
Usual == {<<97>>, <<32>>, <<13>>, <<127>>, <<9>>, <<3>>, Up, Left, Right, HomeKey, BackTab}
Editing == {<<97>>, <<127>>, Left, Right}
=============================================================================
