------------------------ MODULE MCShufflingChunkPool ------------------------
(***************************************************************************)
(* A small instance of ShufflingChunkPool: sources of one, two and no      *)
(* chunks for a pool of two.                                               *)
(***************************************************************************)
EXTENDS ShufflingChunkPool

MCFiles == {[key |-> 1, count |-> 1], [key |-> 2, count |-> 2],
            [key |-> 3, count |-> 1], [key |-> 4, count |-> 0]}

(* The anchor and the counter are read by control requests only, and by    *)
(* nothing that the other properties are about.                            *)
IgnoringAnchors == <<phase, scan, kept, total_chunks, incoming, row, window,
                     requests, config>>
=============================================================================
