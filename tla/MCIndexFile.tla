---------------------------- MODULE MCIndexFile ----------------------------
(***************************************************************************)
(* Indexes of up to three elements on up to three levels, with sizes       *)
(* scaled down but each greater than one, so that a file can be cut inside *)
(* everything it holds.                                                    *)
(***************************************************************************)
EXTENDS IndexFile

MCIndexes ==
    UNION {[count : {n}, max_elements : {n + 1}, level : [0 .. n - 1 -> 0 .. 2]] : n \in 0 .. 3}
MCRooms == {0, 2, 4}


=============================================================================
