---------------------------- MODULE MCPanelTasks ----------------------------
(* Instances for TLC of the panel's tasks that touch no state of each       *)
(* other: certificates, rule edits, the account, updates, the resolution of *)
(* host names, the Cloudflare settings.  The run is their sum: `part` says  *)
(* which one moves, the others stand where they started.                    *)
EXTENDS ZoneCerts, RuleAdmin, Accounts, Updates, Ddns, CfSettings

VARIABLE part

(* A zone that is not delegated to the panel, whose orders fail, before one *)
(* that is.                                                                 *)
TwoZones == <<"elsewhere", "here">>

OneNode == <<"n1">>

ThreeKeys == <<"token", "ns", "ip">>

Parts == {"certs", "rules", "accounts", "updates", "ddns", "settings"}

MCInit ==
  /\ part \in Parts
  /\ CertsInit /\ cf_set /\ crt["elsewhere"] = "none" /\ (part = "certs" \/ crt["here"] = "none")
  /\ UpdatesInit /\ (part = "updates" \/ kind = "agents")
  /\ RulesInit /\ AccountsInit /\ DdnsInit /\ SettingsInit

MCNext ==
  /\ UNCHANGED part
  /\ \/ part = "certs"    /\ CertsNext    /\ UNCHANGED <<avars, uvars, bvars, dvars, svars>>
     \/ part = "rules"    /\ RulesNext    /\ UNCHANGED <<cvars, uvars, bvars, dvars, svars>>
     \/ part = "accounts" /\ AccountsNext /\ UNCHANGED <<cvars, avars, bvars, dvars, svars>>
     \/ part = "updates"  /\ UpdatesNext  /\ UNCHANGED <<cvars, avars, uvars, dvars, svars>>
     \/ part = "ddns"     /\ DdnsNext     /\ UNCHANGED <<cvars, avars, uvars, bvars, svars>>
     \/ part = "settings" /\ SettingsNext /\ UNCHANGED <<cvars, avars, uvars, bvars, dvars>>

(* In the other parts no behaviour is fair, and none matters. *)
MCSpec == MCInit /\ [][MCNext]_<<part, cvars, avars, uvars, bvars, dvars, svars>> /\ CertsFairness
=============================================================================
