--------------------------- MODULE MCBucketClaim ---------------------------
(* Four LogSets: l1 and l2 share one MinIO bucket, l3 uses a second       *)
(* bucket of the same MinIO server, l4 an S3 bucket with a nil type.  In   *)
(* CollidingProvider, l3's endpoint and path differ from l1's but their    *)
(* dash-joined concatenation is the same.                                  *)
EXTENDS BucketClaim

Shared == [type |-> "minio", endpoint |-> "http://minio", path |-> "mo-data"]

SharedProvider ==
    [l \in LogSets |->
        CASE l = "l3" -> [type |-> "minio", endpoint |-> "http://minio", path |-> "mo-backup"]
          [] l = "l4" -> [type |-> NoType, endpoint |-> "", path |-> "mo-data"]
          [] OTHER    -> Shared]

CollidingProvider ==
    [l \in LogSets |->
        CASE l = "l3" -> [type |-> "minio", endpoint |-> "http://minio-mo", path |-> "data"]
          [] l = "l4" -> [type |-> NoType, endpoint |-> "", path |-> "mo-data"]
          [] OTHER    -> Shared]
=============================================================================
