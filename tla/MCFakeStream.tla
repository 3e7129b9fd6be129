---------------------------- MODULE MCFakeStream ----------------------------
(* Command lines of the fake stream for TLC: no interval and one of four    *)
(* ticks, every kind of threshold, scales of 0, a half, 1 and 1.5, a cap    *)
(* below the interval and one above it.  With the times of the .cfg a frame *)
(* may be quick enough for its interval, or not.                            *)
EXTENDS FakeStream

MCSettings ==
    [interval : {0, 4}, skip : BOOLEAN, threshold : {None, -1, 0, 2},
     adaptive : BOOLEAN, scale : {0, 1, 2, 3}, cap : {None, 1, 5},
     stopOnError : BOOLEAN]
=============================================================================
