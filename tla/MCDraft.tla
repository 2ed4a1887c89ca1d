------------------------------- MODULE MCDraft ------------------------------
(***************************************************************************)
(* The layers of the application and the operations that share them:       *)
(*   patch     apply_verge_patch        ports    save_proxy_ports          *)
(*   update    perform_config_update    fallback the startup port fallback *)
(*   persist   disable_tun_and_persist  change   change_core               *)
(*   first, second   the two overlapping transactions of the crate's test  *)
(*   add, edit       profiles_append_item_safe, profiles_patch_item_safe   *)
(*   switch          patch_profiles_config                                 *)
(***************************************************************************)
EXTENDS Draft

CONSTANTS clash, verge, runtime, profiles,
          patch, ports, update, fallback, persist, change, first, second

Stages == [w \in Writers |->
  CASE w = ports               -> <<clash, verge, runtime>>
    [] w \in {update, fallback} -> <<runtime>>
    [] w = first               -> <<verge>>
    [] w = second              -> <<clash, verge>>
    [] OTHER                   -> <<verge>>]
=============================================================================
