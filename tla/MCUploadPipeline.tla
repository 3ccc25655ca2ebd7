-------------------------- MODULE MCUploadPipeline --------------------------
(***************************************************************************)
(* The write path for TLC; the bounds are in the configurations, and one   *)
(* more is here: of the write calls, EarlyWrites come until a second       *)
(* multipart upload is started, and the others only if none is.            *)
(***************************************************************************)
EXTENDS UploadPipeline

CONSTANT EarlyWrites

SecondUpload == \E u \in Uploads : u > 1 /\ mpu'[u].state # "none"

MCSpec ==
    /\ Init /\ [][Next /\ (SecondUpload => stamp' <= EarlyWrites)]_vars
    /\ WF_vars(CallStep) /\ WF_vars(TaskStep)
=============================================================================
