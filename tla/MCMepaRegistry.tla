---------------------------- MODULE MCMepaRegistry ----------------------------
(* Three families: two specific ones, one of which also accepts an id of the *)
(* other, and the default driver, which is last and accepts every id.        *)
EXTENDS MepaRegistry

MCPhyIds == {"viper", "lan8814", "unknown"}
MCMatch == <<{"viper"}, {"viper", "lan8814"}, MCPhyIds>>
=============================================================================
