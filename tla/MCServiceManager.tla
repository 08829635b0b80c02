-------------------------- MODULE MCServiceManager --------------------------
(* The service pppp, then the video queue, and a few handlers.             *)
EXTENDS ServiceManager, TLC

CONSTANTS pppp, video

MCServices == {pppp, video}
MCOrder == <<pppp, video>>
MCVideo == {video}

(* Handlers are alike: no action names one. *)
MCSymmetry == Permutations(Clients)

=============================================================================
