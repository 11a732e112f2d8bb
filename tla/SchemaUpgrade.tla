---------------------------- MODULE SchemaUpgrade ----------------------------
(***************************************************************************)
(* What EnsureSchema promises: the schema goes up one version at a time and *)
(* never down, and a gateway serves only on a schema that has every         *)
(* migration of its release.                                               *)
(***************************************************************************)
EXTENDS Naturals

CONSTANTS Gateways, Release

VARIABLES version, serving

vars == <<version, serving>>

UpgradeInit == version = 0 /\ serving = {}

Advance ==
  /\ \E g \in Gateways : version < Release[g]
  /\ version' = version + 1
  /\ UNCHANGED serving

Serve(g) ==
  /\ version >= Release[g]
  /\ serving' = serving \cup {g}
  /\ UNCHANGED version

Stop(g) ==
  /\ serving' = serving \ {g}
  /\ UNCHANGED version

UpgradeNext == Advance \/ \E g \in Gateways : Serve(g) \/ Stop(g)

UpgradeSpec == UpgradeInit /\ [][UpgradeNext]_vars

===============================================================================
