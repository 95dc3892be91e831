------------------------------ MODULE MCLogSet ------------------------------
(* LogSet for TLC: three of the LogSets of MCBucketClaim, l1 and l2 on    *)
(* one MinIO bucket and l3 an S3 bucket with a nil type and the same path, *)
(* next to the two stores, two-tick timeout and one backward step of the   *)
(* wall clock of MCFailover.                                               *)
EXTENDS LogSet, Integers

MCSharedProvider ==
    [l \in LogSets |->
        IF l = "l3" THEN [type |-> NoType, endpoint |-> "", path |-> "mo-data"]
                    ELSE [type |-> "minio", endpoint |-> "http://minio", path |-> "mo-data"]]

MCClockBack == {-1}
=============================================================================
