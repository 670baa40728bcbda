---------------------------- MODULE MCCampaigns ----------------------------
(* Two campaigns and the people of one list, mailed in the list's order. The run
   checks liveness, so the model values are not declared symmetric. *)
EXTENDS Campaigns, TLC
=============================================================================
