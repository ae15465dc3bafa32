------------------------ MODULE MCSharedOperatorHost ------------------------
(* Two loads of one shared library by TLC: a plugin with a shutdown callback *)
(* and one without.                                                          *)
EXTENDS SharedOperatorHost

CONSTANTS l1, l2, image

MCLoads == {l1, l2}
MCSilent == {l2}
MCImageOf == [l \in MCLoads |-> image]

=============================================================================
