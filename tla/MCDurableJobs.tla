---------------------------- MODULE MCDurableJobs ----------------------------
(* DurableJobs with two jobs.  OwnAssets gives each job an image of its    *)
(* own; SharedAsset is one image processed twice (two pairs over it, or    *)
(* two model versions).                                                    *)
EXTENDS DurableJobs

OwnAssets == [j \in Jobs |-> j]
SharedAsset == [j \in Jobs |-> "image"]
=============================================================================
