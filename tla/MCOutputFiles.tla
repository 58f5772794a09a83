--------------------------- MODULE MCOutputFiles ---------------------------
EXTENDS OutputFiles, TLC
CONSTANTS w1, w2, j1, j2, v1, v2
AnyWorker == Permutations(Workers)
MCVideoOf == [j \in Jobs |-> IF j = j1 THEN v1 ELSE v2]
Kind(m, dry) == [mode |-> m, dry |-> dry]
Both(k, l) == [j \in Jobs |-> IF j = j1 THEN k ELSE l]
MCKinds == {Both(Kind("overwrite", FALSE), Kind("append_counter", FALSE)),
            Both(Kind("overwrite", TRUE), Kind("append_id", FALSE)),
            Both(Kind("skip", FALSE), Kind("append_id", FALSE)),
            Both(Kind("append_counter", FALSE), Kind("append_counter", FALSE)),
            Both(Kind("skip", FALSE), Kind("append_id", TRUE))}
=============================================================================
