------------------------------ MODULE Lifecycle ------------------------------
(***************************************************************************)
(* The state machines of the domain package: which status an epoch, a      *)
(* batch or a pack may move to.  The stores ask these predicates before    *)
(* they write a status (TransitionEpoch, TransitionBatch); the statuses    *)
(* are the constants of types.go.                                          *)
(***************************************************************************)

EpochStatuses ==
    {"PLANNED", "DOWNLOADING", "TRANSFERRING", "PUBLISHABLE", "PUBLISHED",
     "COMPLETE", "FAILED", "CANCELLED"}

BatchStatuses ==
    {"PLANNED", "DOWNLOADING", "VERIFYING", "READY", "TRANSFERRING",
     "IMPORTING", "IMPORTED", "FAILED"}

PackStatuses ==
    {"PLANNED", "WRITING", "READY", "UPLOADING", "UPLOADED", "IMPORTING",
     "IMPORTED", "FAILED"}

CanTransitionEpoch(from, to) ==
    \/ from = to
    \/ to \in {"FAILED", "CANCELLED"} /\ from \notin {"COMPLETE", "CANCELLED"}
    \/ <<from, to>> \in {<<"PLANNED", "DOWNLOADING">>,
                         <<"DOWNLOADING", "TRANSFERRING">>,
                         <<"TRANSFERRING", "PUBLISHABLE">>,
                         <<"PUBLISHABLE", "PUBLISHED">>,
                         <<"PUBLISHED", "COMPLETE">>}

CanTransitionBatch(from, to) ==
    \/ from = to
    \/ to = "FAILED" /\ from # "IMPORTED"
    \/ <<from, to>> \in {<<"PLANNED", "DOWNLOADING">>,
                         <<"DOWNLOADING", "VERIFYING">>,
                         <<"VERIFYING", "READY">>,
                         <<"READY", "TRANSFERRING">>,
                         <<"TRANSFERRING", "IMPORTING">>,
                         <<"IMPORTING", "IMPORTED">>}

CanTransitionPack(from, to) ==
    \/ from = to
    \/ to = "FAILED" /\ from # "IMPORTED"
    \/ <<from, to>> \in {<<"PLANNED", "WRITING">>,
                         <<"WRITING", "READY">>,
                         <<"READY", "UPLOADING">>,
                         <<"UPLOADING", "UPLOADED">>,
                         <<"UPLOADED", "IMPORTING">>,
                         <<"IMPORTING", "IMPORTED">>}
=============================================================================
