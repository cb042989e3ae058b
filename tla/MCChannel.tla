----------------------------- MODULE MCChannel -----------------------------
(***************************************************************************)
(* Channel with its constants as model values, for TLC.                    *)
(***************************************************************************)
EXTENDS Channel, TLC

CONSTANTS t1, t2, t3, c0, c2, v1, v2

MCTasks    == {t1, t2, t3}
MCChannels == {c0, c2}
MCSize     == c0 :> 0 @@ c2 :> 2
MCOne      == {v1}
MCTwo      == {v1, v2}
MCBuffered == {c2}
MCSizeTwo  == c2 :> 2
============================================================================
