------------------------------ MODULE Webhooks ------------------------------
(***************************************************************************)
(* The admission webhook configurations the operator installs (the         *)
(* MutatingWebhookConfiguration and ValidatingWebhookConfiguration         *)
(* manifests at the end of api/core/v1alpha1/common_helpers.go).  Each is  *)
(* abstracted to what the API server does with it: the resources whose     *)
(* creates and updates go to the operator's webhook server, and what       *)
(* happens when that server cannot be reached (Fail: reject the request).  *)
(* The API server calls the mutating webhooks first, then the validating   *)
(* ones on the mutated object.                                             *)
(***************************************************************************)

MutatingWebhook ==
    [resources |-> {"cnsets", "dnsets", "logsets", "matrixoneclusters"},
     operations |-> {"CREATE", "UPDATE"},
     failurePolicy |-> "Fail"]

ValidatingWebhook ==
    [resources |-> {"cnsets", "dnsets", "logsets", "matrixoneclusters"},
     operations |-> {"CREATE", "UPDATE"},
     failurePolicy |-> "Fail"]

\* The webhooks a create or update of resource r is sent to.
WebhooksFor(r) == {wh \in {MutatingWebhook, ValidatingWebhook} : r \in wh.resources}

=============================================================================
