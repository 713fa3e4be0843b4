---------------------------- MODULE MCLocalMove ----------------------------
EXTENDS LocalMove, TLC

CONSTANTS k1, k2

AllShapes == Kinds \X BOOLEAN
RenameOnly == {<<"move", FALSE>>}

=============================================================================
