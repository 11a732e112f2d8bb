------------------------------ MODULE Deployment ------------------------------
(***************************************************************************)
(* The gateway processes that share one database: more than one while a    *)
(* rolling update replaces the old one.                                    *)
(***************************************************************************)
CONSTANT Gateways

===============================================================================
