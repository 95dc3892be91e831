---------------------------- MODULE BucketClaim ----------------------------
(***************************************************************************)
(* Bucket claim resolution of api/core/v1alpha1/common_helpers.go          *)
(* (UniqueBucketLabel, ClaimedBucket) driven by the LogSet reconcilers of  *)
(* several clusters at once.  Each pass of a LogSet lists the BucketClaims *)
(* labelled with its provider's identity and, when there is none, creates *)
(* one in a later, separate API call; passes of different LogSets run      *)
(* concurrently and nothing makes list-then-create atomic.                 *)
(***************************************************************************)
EXTENDS Naturals, FiniteSets, Sequences

CONSTANTS
    LogSets,    \* the LogSets (clusters) that reference an S3 provider
    Provider,   \* Provider[l]: [type: STRING or NoType, endpoint, path: STRING]
    NoType      \* a nil S3Provider.Type

VARIABLES
    claims,     \* the BucketClaim objects in the store: [uid, label]
    pc,         \* pc[l]: "idle", "creating", "bound" or "conflict"
    bound       \* bound[l]: uid of the claim LogSet l uses, 0 if none

vars == <<claims, pc, bound>>

(***************************************************************************)
(* UniqueBucketLabel: "<type>-<endpoint>-<path>" (type "" when nil), then  *)
(* its SHA-1 in hex.  SHA-1 is taken as injective, so the label is the     *)
(* concatenated string itself.                                             *)
(***************************************************************************)
UniqueBucketLabel(p) ==
    LET providerType == IF p.type = NoType THEN "" ELSE p.type
    IN  providerType \o "-" \o p.endpoint \o "-" \o p.path

\* The list call of ClaimedBucket: the claims carrying the label.
ClaimsLabelled(label) == {c \in claims : c.label = label}

Init ==
    /\ claims = {}
    /\ pc = [l \in LogSets |-> "idle"]
    /\ bound = [l \in LogSets |-> 0]

\* Mutant: more than one claim resolved by picking the first one.
ClaimedBucketFirst(l) ==
    LET found == ClaimsLabelled(UniqueBucketLabel(Provider[l]))
    IN  /\ pc[l] # "creating"
        /\ IF found = {}
           THEN pc' = [pc EXCEPT ![l] = "creating"] /\ bound' = [bound EXCEPT ![l] = 0]
           ELSE /\ pc' = [pc EXCEPT ![l] = "bound"]
                /\ bound' = [bound EXCEPT ![l] = (CHOOSE c \in found : \A o \in found : c.uid <= o.uid).uid]
        /\ UNCHANGED claims

(***************************************************************************)
(* A pass of LogSet l calls ClaimedBucket: no claim means the pass goes on *)
(* to create one, exactly one is the claim to use, more than one is the    *)
(* "list more than one buckets" error.  A pass starts whenever l is not in *)
(* the middle of one.                                                      *)
(***************************************************************************)
ClaimedBucket(l) ==
    LET found == ClaimsLabelled(UniqueBucketLabel(Provider[l]))
    IN  /\ pc[l] # "creating"
        /\ CASE found = {}             -> pc' = [pc EXCEPT ![l] = "creating"]
                                          /\ bound' = [bound EXCEPT ![l] = 0]
             [] Cardinality(found) = 1 -> pc' = [pc EXCEPT ![l] = "bound"]
                                          /\ bound' = [bound EXCEPT ![l] = (CHOOSE c \in found : TRUE).uid]
             [] OTHER                  -> pc' = [pc EXCEPT ![l] = "conflict"]
                                          /\ bound' = [bound EXCEPT ![l] = 0]
        /\ UNCHANGED claims

\* Mutant: the new claim numbered from zero (off by one).
CreateClaimFromZero(l) ==
    /\ pc[l] = "creating"
    /\ claims' = claims \cup {[uid |-> Cardinality(claims), label |-> UniqueBucketLabel(Provider[l])]}
    /\ pc' = [pc EXCEPT ![l] = "bound"]
    /\ bound' = [bound EXCEPT ![l] = Cardinality(claims)]

\* The LogSet reconciler creates a claim labelled with the identity.
CreateClaim(l) ==
    LET uid == Cardinality(claims) + 1
    IN  /\ pc[l] = "creating"
        /\ claims' = claims \cup {[uid |-> uid, label |-> UniqueBucketLabel(Provider[l])]}
        /\ pc' = [pc EXCEPT ![l] = "bound"]
        /\ bound' = [bound EXCEPT ![l] = uid]

\* The pass is abandoned between the list and the create (context canceled,
\* store error); the next pass starts over.
AbandonPass(l) ==
    /\ pc[l] = "creating"
    /\ pc' = [pc EXCEPT ![l] = "idle"]
    /\ UNCHANGED <<claims, bound>>

Next == \E l \in LogSets : ClaimedBucket(l) \/ CreateClaim(l) \/ AbandonPass(l)

\* Every LogSet is reconciled again and again (watch events, periodic
\* resync), and a started create is eventually issued or abandoned.
Spec == Init /\ [][Next]_vars
        /\ \A l \in LogSets : WF_vars(ClaimedBucket(l)) /\ WF_vars(CreateClaim(l))

-----------------------------------------------------------------------------
ClaimsOf(l) == ClaimsLabelled(UniqueBucketLabel(Provider[l]))

TypeOK ==
    /\ claims \subseteq [uid : 1..Cardinality(LogSets), label : STRING]
    /\ pc \in [LogSets -> {"idle", "creating", "bound", "conflict"}]
    /\ bound \in [LogSets -> 0..Cardinality(LogSets)]

(***************************************************************************)
(* At most one BucketClaim exists per bucket identity (spec 3).            *)
(***************************************************************************)
AtMostOneClaimPerBucket ==
    \A l \in LogSets : Cardinality(ClaimsOf(l)) <= 1

(***************************************************************************)
(* LogSets that use the same claim reference the same physical bucket:     *)
(* the identity UniqueBucketLabel computes separates providers that differ *)
(* in any one field (spec 4.3).                                            *)
(***************************************************************************)
DistinctBucketsDistinctClaims ==
    \A l1, l2 \in LogSets :
        (bound[l1] # 0 /\ bound[l1] = bound[l2]) => Provider[l1] = Provider[l2]

(***************************************************************************)
(* A duplicate claim is never silently tolerated: once a bucket has more   *)
(* than one claim, every LogSet referencing it eventually reports the      *)
(* conflict (ClaimedBucket's error), instead of keeping a claim picked     *)
(* before the duplicate appeared.                                          *)
(***************************************************************************)
ConflictEventuallySurfaced ==
    \A l \in LogSets : (Cardinality(ClaimsOf(l)) > 1) ~> (pc[l] = "conflict")

=============================================================================
