------------------------------ MODULE MCShmApi -------------------------------
(* The instances of ShmApi that TLC checks.                                *)
EXTENDS ShmApi

MCIds      == {0}
TwoIds     == {0, 1}
MCLengths  == {1, 3}
LongOnly   == {3}
AllKeys    == BOOLEAN
NoKeys     == {FALSE}
MCBuffers  == {3}
AnyBuffer  == {1, 3}
MCSteps    == {1, 2}
OneStep    == {1}

ReadOps    == {"init", "read", "remove"}
PollOps    == {"init", "read", "extras"}
MoveOps    == {"init", "read", "back", "forward", "distance"}
KeyedOps   == {"init", "read", "back", "forward", "refresh"}
ShareOps   == {"init", "read", "copy", "remove", "compare"}
==============================================================================
