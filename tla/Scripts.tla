------------------------------- MODULE Scripts -------------------------------
(***************************************************************************)
(* The 127 files of migrations/versions as data: what each upgrade() and   *)
(* downgrade() does to the catalog of a PostgreSQL database that holds no  *)
(* rows.  A catalog is a set of objects,                                   *)
(*    <<t>>                a table or an enum type                         *)
(*    <<t, c>>             a column                                        *)
(*    <<t, n, "index">>    an index                                        *)
(*    <<t, n, "constraint">>   a unique, check or primary key constraint   *)
(*    <<t, n, "fk", u>>    a foreign key of t to u,                        *)
(* and a script is two sequences of edits.  Of what a CREATE TABLE makes   *)
(* only the objects a LATER script adds, alters or drops are listed: the   *)
(* rest come and go with their table.  Types, defaults, nullability and    *)
(* the statements that touch rows are left out.                            *)
(***************************************************************************)
EXTENDS Sequences

(* Objects *)
Tables(T) == {<<t>> : t \in T}
EnumTypes(E) == {<<e>> : e \in E}
Columns(t, C) == {<<t, c>> : c \in C}
Indexes(t, I) == {<<t, n, "index">> : n \in I}
Constraints(t, K) == {<<t, n, "constraint">> : n \in K}
ForeignKey(t, n, u) == {<<t, n, "fk", u>>}

(***************************************************************************)
(* Edits.  needs must be there and bars must not, else the statement       *)
(* fails, unless it may be passed over; drops is taken out, what hangs on  *)
(* a dropped table with it, and makes is put in.                           *)
(***************************************************************************)
Edit(needs, bars, drops, makes) ==
  [needs |-> needs, bars |-> bars, drops |-> drops, makes |-> makes,
   must |-> TRUE]

(* Looked up first; or its failure is caught, after a COMMIT of the script. *)
IfFits(edit) == [edit EXCEPT !.must = FALSE]

Adds(S)           == Edit({}, S, {}, S)    \* CREATE, ADD
Removes(S)        == Edit(S, {}, S, {})    \* DROP
Uses(S)           == Edit(S, {}, {}, {})   \* ALTER, or named by a statement
AddsMissing(S)    == Edit({}, {}, {}, S)   \* IF NOT EXISTS, or inspected first
RemovesPresent(S) == Edit({}, {}, S, {})   \* IF EXISTS, or inspected first
Raises            == Uses({<<>>})          \* no catalog holds <<>>

(* Scripts: id and parents are its revision and down_revision. *)
Script(id, parents, up, back) ==
  [id |-> id, parents |-> parents, up |-> up, back |-> back,
   commits |-> "never"]

(* It works inside op.get_context().autocommit_block(), both ways; or on *)
(* the way up only.                                                      *)
InBlock(script) == [script EXCEPT !.commits = "block"]
InBlockUp(script) == [script EXCEPT !.commits = "block up"]

(* Its upgrade sends a COMMIT of its own. *)
Committing(script) == [script EXCEPT !.commits = "raw"]

(* The plain kinds.  SameShape moves rows, types or defaults only. *)
SameShape(id, P) == Script(id, P, <<>>, <<>>)
Merge(id, P) == SameShape(id, P)
Addition(id, P, S) == Script(id, P, <<Adds(S)>>, <<Removes(S)>>)
Removal(id, P, S) == Script(id, P, <<Removes(S)>>, <<Adds(S)>>)
Alteration(id, P, S) == Script(id, P, <<Uses(S)>>, <<Uses(S)>>)

Creation(id, P, T, S) ==
  Script(id, P, <<Adds(Tables(T) \cup S)>>, <<Removes(Tables(T))>>)

Replacement(id, P, old, new) ==
  Script(id, P, <<Removes(old), Adds(new)>>, <<Removes(new), Adds(old)>>)

(* The other order: the rows are copied over in between. *)
Supersession(id, P, new, old) ==
  Script(id, P, <<Adds(new), Removes(old)>>, <<Adds(old), Removes(new)>>)

-----------------------------------------------------------------------------
(* The foreign keys of workflowexecution go by several names. *)
WorkflowKeys ==
  UNION {ForeignKey("workflowexecution", n, "workflow") :
           n \in {"workflowexecution_workflow_id_fkey",
                  "fk_workflowexecution_workflow",
                  "workflowexecution_ibfk_2"}}
TenantKeys ==
  UNION {ForeignKey("workflowexecution", n, "tenant") :
           n \in {"workflowexecution_tenant_id_fkey",
                  "workflowexecution_ibfk_1"}}

r_54c1252b2c8a ==
  Creation("54c1252b2c8a", {},
    {"action", "alert", "alertdeduplicationfilter", "alertenrichment",
     "alertraw", "alerttogroup", "dashboard", "extractionrule", "group",
     "mappingrule", "preset", "provider", "rule", "tenant", "tenantapikey",
     "tenantinstallation", "user", "workflow", "workflowexecution",
     "workflowexecutionlog", "workflowtoalertexecution"},
    Columns("alert", {"event"})
      \cup Columns("workflow", {"last_updated"})
      \cup Columns("workflowexecution", {"workflow_id"})
      \cup Constraints("alertenrichment",
             {"alertenrichment_alert_fingerprint_key"})
      \cup Constraints("preset", {"preset_name_key"})
      \cup ForeignKey("workflowexecution", "workflowexecution_tenant_id_fkey",
             "tenant")
      \cup ForeignKey("workflowexecution",
             "workflowexecution_workflow_id_fkey",
             "workflow"))

r_c37ec8f6db3e ==
  Addition("c37ec8f6db3e", {"54c1252b2c8a"}, Tables({"alertaudit"}))

r_37019ca3eb2e ==
  Creation("37019ca3eb2e", {"c37ec8f6db3e"}, {"alerttoincident", "incident"},
    Columns("incident", {"description", "name"})
      \cup Constraints("alerttoincident", {"alerttoincident_pkey"}))

r_dcbd2873dcfd ==
  Addition("dcbd2873dcfd", {"37019ca3eb2e"},
    Columns("incident", {"is_confirmed", "is_predicted"}))

r_9ba0aeecd4d0 ==
  Addition("9ba0aeecd4d0", {"dcbd2873dcfd"}, Tables({"pmimatrix"}))

r_67f1efb93c99 ==
  Addition("67f1efb93c99", {"9ba0aeecd4d0"},
    Columns("incident", {"affected_services", "alerts_count", "sources"}))

r_8e5942040de6 ==
  Addition("8e5942040de6", {"67f1efb93c99"},
    Columns("incident", {"generated_summary", "user_summary"}))

(* Its downgrade drops the column of its parent 8e5942040de6, not its own. *)
r_c91b348b94f2 ==
  Script("c91b348b94f2", {"8e5942040de6"},
    <<Removes(Columns("incident", {"description"}))>>,
    <<Adds(Columns("incident", {"description"})),
      Removes(Columns("incident", {"user_summary"}))>>)

r_92f4f93f2140 ==
  Creation("92f4f93f2140", {"c91b348b94f2"},
    {"topologyservice", "topologyservicedependency"},
    Columns("topologyservice", {"application"}))

r_4147d9e706c0 ==
  Addition("4147d9e706c0", {"92f4f93f2140"},
    Columns("provider", {"last_pull_time"}))

r_9453855f3ba0 ==
  Creation("9453855f3ba0", {"4147d9e706c0"}, {"presettaglink", "tag"},
    Constraints("tag", {"tag_name_key"}))

r_0832e0d9889a ==
  Addition("0832e0d9889a", {"9453855f3ba0"},
    Columns("incident", {"last_seen_time"}))

(* Its downgrade creates two tables its upgrade left alone. *)
r_87594ea6d308 ==
  Script("87594ea6d308", {"0832e0d9889a"},
    <<Adds(Columns("alerttoincident", {"timestamp"})
             \cup Columns("incident", {"rule_fingerprint", "rule_id",
                                       "severity"})
             \cup Columns("rule", {"require_approve"})
             \cup ForeignKey("incident", "incident_rule_id_fk", "rule"))>>,
    <<Removes(Columns("alerttoincident", {"timestamp"})
                \cup Columns("incident", {"rule_fingerprint", "rule_id",
                                          "severity"})
                \cup Columns("rule", {"require_approve"})
                \cup ForeignKey("incident", "incident_rule_id_fk", "rule")),
      Adds(Tables({"alerttogroup", "group"}))>>)

r_4ef2c767664c ==
  Alteration("4ef2c767664c", {"87594ea6d308"},
    Columns("incident", {"rule_fingerprint"}))

r_1c650a429672 ==
  Alteration("1c650a429672", {"4ef2c767664c"},
    Columns("incident", {"generated_summary", "user_summary"}))

r_7ed12220a0d3 ==
  Addition("7ed12220a0d3", {"1c650a429672"},
    Columns("workflow", {"is_disabled"}))

r_94886bc59c11 ==
  Supersession("94886bc59c11", {"7ed12220a0d3"},
    Columns("incident", {"ai_generated_name", "user_generated_name"}),
    Columns("incident", {"name"}))

r_70671c95028e ==
  Addition("70671c95028e", {"94886bc59c11"}, Tables({"maintenancewindowrule"}))

r_49e7c02579db ==
  Addition("49e7c02579db", {"70671c95028e"},
    Columns("maintenancewindowrule", {"suppress"}))

r_1a5eb7069f9a ==
  Addition("1a5eb7069f9a", {"49e7c02579db"},
    Columns("topologyservice", {"category", "ip_address", "mac_address",
                                "manufacturer"}))

r_e6653be70b62 ==
  Addition("e6653be70b62", {"1a5eb7069f9a"}, Columns("mappingrule", {"type"}))

r_1aacee84447e ==
  Addition("1aacee84447e", {"e6653be70b62"}, Columns("rule", {"timeunit"}))

(* Its downgrade forgets provisioned_file. *)
r_938b1aa62d5c ==
  Script("938b1aa62d5c", {"1aacee84447e"},
    <<Adds(Columns("provider", {"provisioned"})
             \cup Columns("workflow", {"provisioned",
                                       "provisioned_file"}))>>,
    <<Removes(Columns("provider", {"provisioned"})
                \cup Columns("workflow", {"provisioned"}))>>)

r_c5443d9deb0f ==
  Addition("c5443d9deb0f", {"938b1aa62d5c"},
    Columns("incident", {"status"})
      \cup Indexes("incident", {"ix_incident_status"}))

r_772790c2e50a ==
  Addition("772790c2e50a", {"c5443d9deb0f"},
    Tables({"workflowtoincidentexecution"}))

r_5d7ae55efc6a ==
  Alteration("5d7ae55efc6a", {"772790c2e50a"},
    Columns("mappingrule", {"type"}))

r_493f217af6b6 ==
  Supersession("493f217af6b6", {"5d7ae55efc6a"},
    Tables({"alertdeduplicationevent", "alertdeduplicationrule",
            "alertfield"}),
    Tables({"alertdeduplicationfilter"}))

r_01ebe17218c0 ==
  Script("01ebe17218c0", {"493f217af6b6"},
    <<Adds(Tables({"topologyapplication", "topologyserviceapplication"})
             \cup Columns("topologyapplication", {"description"})
             \cup ForeignKey("topologyserviceapplication",
                    "topologyserviceapplication_service_id_fkey",
                    "topologyservice")),
      Removes(Columns("topologyservice", {"application"}))>>,
    <<Adds(Columns("topologyservice", {"application"})),
      Removes(Tables({"topologyapplication", "topologyserviceapplication"}))>>)

r_017d759805d9 ==
  Addition("017d759805d9", {"01ebe17218c0"}, Columns("rule", {"resolve_on"}))

r_bf756df80e9d ==
  Addition("bf756df80e9d", {"017d759805d9"},
    Columns("incident", {"same_incident_in_the_past_id"})
      \cup ForeignKey("incident", "same_incident_in_the_past_id_fk",
             "incident"))

(* Its downgrade drops a column of the primary key, then the key by name. *)
r_83c1020be97d ==
  Script("83c1020be97d", {"bf756df80e9d"},
    <<Adds(Columns("alerttoincident", {"deleted_at", "is_created_by_ai"})),
      Removes(Constraints("alerttoincident", {"alerttoincident_pkey"})),
      Adds(Constraints("alerttoincident", {"alerttoincident_pkey"}))>>,
    <<Removes(Columns("alerttoincident", {"deleted_at", "is_created_by_ai"})
                \cup Constraints("alerttoincident", {"alerttoincident_pkey"})),
      Removes(Constraints("alerttoincident", {"alerttoincident_pkey"})),
      Adds(Constraints("alerttoincident", {"alerttoincident_pkey"}))>>)

r_8438f041ee0e ==
  Addition("8438f041ee0e", {"83c1020be97d"},
    Columns("provider", {"pulling_enabled"}))

r_89b4d3905d26 ==
  Addition("89b4d3905d26", {"8438f041ee0e"},
    Columns("incident", {"merged_at", "merged_by", "merged_into_incident_id"})
      \cup ForeignKey("incident", "fk_incident_merged_into_incident_id",
             "incident"))

r_991b30bcf0b9 == SameShape("991b30bcf0b9", {"89b4d3905d26"})

(* DROP TABLE leaves the enum type of a column behind. *)
r_273b29f368b7 ==
  Script("273b29f368b7", {"991b30bcf0b9"},
    <<Adds(Tables({"aifeedback", "aisuggestion"})
             \cup EnumTypes({"aisuggestiontype"}))>>,
    <<Removes(Tables({"aifeedback", "aisuggestion"}))>>)

r_ef0b5b0df41c ==
  Addition("ef0b5b0df41c", {"273b29f368b7"},
    Indexes("alert", {"ix_alert_tenant_fingerprint_timestamp"}))

r_895fe80117aa ==
  Addition("895fe80117aa", {"ef0b5b0df41c"},
    Columns("alertraw", {"provider_type", "timestamp"}))

r_620b6c048091 ==
  Addition("620b6c048091", {"895fe80117aa"},
    Columns("incident", {"fingerprint"}))

r_192157fd5788 ==
  Addition("192157fd5788", {"620b6c048091"}, Tables({"system"}))

r_3f056d747d9e ==
  Creation("3f056d747d9e", {"192157fd5788"}, {"externalaiconfigandmetadata"},
    Columns("externalaiconfigandmetadata", {"feedback_logs", "settings",
                                            "settings_proposed_by_algorithm"}))

r_3ad5308e7200 ==
  Alteration("3ad5308e7200", {"3f056d747d9e"},
    Columns("externalaiconfigandmetadata", {"feedback_logs", "settings",
                                            "settings_proposed_by_algorithm"}))

r_bdae8684d0b4 ==
  Creation("bdae8684d0b4", {"3ad5308e7200"},
    {"lastalert", "lastalerttoincident"},
    ForeignKey("lastalerttoincident", "lastalerttoincident_incident_id_fkey",
      "incident"))

r_c6e5594c99f8 ==
  Script("c6e5594c99f8", {"bdae8684d0b4"},
    <<Uses(Columns("incident", {"fingerprint"})),
      Adds(Columns("lastalert", {"first_timestamp"})
             \cup Indexes("lastalert", {"ix_lastalert_first_timestamp"}))>>,
    <<Removes(Columns("lastalert", {"first_timestamp"})
                \cup Indexes("lastalert", {"ix_lastalert_first_timestamp"}))>>)

r_55cc64020f6d ==
  Addition("55cc64020f6d", {"c6e5594c99f8"},
    Columns("lastalert", {"alert_hash"})
      \cup Indexes("lastalert", {"ix_lastalert_alert_hash"}))

r_3d20d954e058 ==
  Addition("3d20d954e058", {"55cc64020f6d"},
    Indexes("workflowexecution",
      {"idx_workflowexecution_tenant_workflow_id_timestamp",
       "idx_workflowexecution_workflow_tenant_started_status"}))

r_0c5e002094a9 ==
  Creation("0c5e002094a9", {"3d20d954e058"}, {"providerexecutionlog"},
    Columns("providerexecutionlog", {"provider_id"})
      \cup ForeignKey("providerexecutionlog",
             "providerexecutionlog_provider_id_fkey",
             "provider"))

r_4f8c4b185d5b ==
  Addition("4f8c4b185d5b", {"0c5e002094a9"},
    Columns("alertdeduplicationrule", {"is_provisioned"}))

r_7297ae99cd21 ==
  Addition("7297ae99cd21", {"4f8c4b185d5b"}, Columns("rule", {"create_on"}))

r_dcb7f88a04da ==
  Script("dcb7f88a04da", {"7297ae99cd21"},
    <<Adds(Indexes("alert", {"idx_alert_tenant_timestamp_fingerprint",
                             "idx_fingerprint_timestamp"})),
      Uses(Columns("lastalert", {"first_timestamp"})),
      Adds(Indexes("lastalert", {"idx_lastalert_tenant_ordering",
                                 "idx_lastalert_tenant_timestamp",
                                 "idx_lastalert_tenant_timestamp_new"})
             \cup Indexes("lastalerttoincident",
                    {"idx_lastalerttoincident_tenant_fingerprint",
                     "idx_tenant_deleted_fingerprint"}))>>,
    <<Removes(Indexes("lastalert", {"idx_lastalert_tenant_ordering",
                                    "idx_lastalert_tenant_timestamp",
                                    "idx_lastalert_tenant_timestamp_new"})
                \cup Indexes("lastalerttoincident",
                       {"idx_lastalerttoincident_tenant_fingerprint",
                        "idx_tenant_deleted_fingerprint"})),
      Uses(Columns("lastalert", {"first_timestamp"})),
      Removes(Indexes("alert", {"idx_alert_tenant_timestamp_fingerprint",
                                "idx_fingerprint_timestamp"}))>>)

r_1c117f1accff ==
  Addition("1c117f1accff", {"dcb7f88a04da"},
    Columns("incident", {"incident_application", "incident_type",
                         "resolve_on"})
      \cup Columns("topologyapplication", {"repository"})
      \cup Columns("topologyservice", {"namespace"}))

(* Its downgrade drops two indexes nobody creates. *)
r_8a4ec08f2d6b ==
  Script("8a4ec08f2d6b", {"dcb7f88a04da"},
    <<Adds(Tables({"facet"})
             \cup Columns("facet", {"description", "entity_type", "id", "name",
                                    "property_path", "tenant_id", "timestamp",
                                    "type", "user_id"})
             \cup Constraints("facet", {"facet_pkey"})
             \cup ForeignKey("facet", "facet_tenant_id_fkey", "tenant"))>>,
    <<Removes(Tables({"facet"})
                \cup Indexes("facet", {"ix_entity_type",
                                       "ix_facet_tenant_id"}))>>)

r_416155f25854 ==
  Addition("416155f25854", {"1c117f1accff"},
    Indexes("workflowexecution", {"ix_workflowexecution_started"}))

r_e3f33e571c3c ==
  Addition("e3f33e571c3c", {"416155f25854"}, Columns("rule", {"is_deleted"}))

r_d359baaf0836 == Merge("d359baaf0836", {"8a4ec08f2d6b", "e3f33e571c3c"})

r_e343054ae740 == SameShape("e343054ae740", {"d359baaf0836"})

r_908d95386e29 ==
  Addition("908d95386e29", {"e343054ae740"},
    Columns("incident", {"forced_severity"}))

r_21d314490e6a ==
  Addition("21d314490e6a", {"908d95386e29"},
    Tables({"enrichmentevent", "enrichmentlog"}))

r_7fde94be79e4 ==
  Addition("7fde94be79e4", {"21d314490e6a"},
    Columns("rule", {"incident_name_template"}))

r_8176d7153747 ==
  Addition("8176d7153747", {"7fde94be79e4"},
    Columns("topologyservice", {"is_manual"}))

(* Passes over an index it cannot create, but drops it unasked. *)
r_90e2d22edc6a ==
  LET index == Indexes("workflowexecution", {"idx_status_started"})
  IN  Committing(Script("90e2d22edc6a", {"8176d7153747"},
        <<IfFits(Adds(index))>>, <<Removes(index)>>))

r_876a424d8f06 == SameShape("876a424d8f06", {"8176d7153747"})

r_35ebba262eb0 == Merge("35ebba262eb0", {"90e2d22edc6a", "876a424d8f06"})

r_ea25d9402518 ==
  Addition("ea25d9402518", {"35ebba262eb0"},
    Indexes("alert", {"idx_alert_tenant_provider"}))

r_a82154690f35 ==
  Alteration("a82154690f35", {"ea25d9402518"},
    Columns("topologyapplication", {"description", "repository"}))

r_0b80bda47ee2 ==
  Addition("0b80bda47ee2", {"a82154690f35"}, Tables({"providerimage"}))

(* Its downgrade leaves the backup table, and restores the constraint under a
   name it never had. *)
r_16309df224d1 ==
  Script("16309df224d1", {"0b80bda47ee2"},
    <<Adds(Tables({"alertenrichment_before_tenant_fingerprint_constraint"})),
      RemovesPresent(Constraints("alertenrichment", {"alert_fingerprint"})),
      Adds(Constraints("alertenrichment",
             {"uc_alertenrichment_tenant_fingerprint"}))>>,
    <<Removes(Constraints("alertenrichment",
                {"uc_alertenrichment_tenant_fingerprint"})),
      Adds(Constraints("alertenrichment", {"alert_fingerprint"}))>>)

r_ab333148350e ==
  Addition("ab333148350e", {"0b80bda47ee2"},
    Columns("incident", {"running_number"})
      \cup Columns("rule", {"incident_prefix"})
      \cup Indexes("incident", {"ix_incident_tenant_running_number"}))

r_9f11356d8ed9 == Merge("9f11356d8ed9", {"16309df224d1", "ab333148350e"})

r_ca74b4a04371 ==
  Script("ca74b4a04371", {"9f11356d8ed9"},
    <<Adds(Columns("alertraw", {"dismissed", "error", "error_message"})),
      Adds(Columns("alertraw", {"dismissed_at", "dismissed_by"})
             \cup Indexes("alertraw", {"ix_alert_raw_tenant_id_error",
                                       "ix_alert_raw_tenant_id_timestamp",
                                       "ix_alertraw_error",
                                       "ix_alertraw_tenant_id"}))>>,
    <<Removes(Columns("alertraw", {"dismissed", "dismissed_at", "dismissed_by",
                                   "error", "error_message"})
                \cup Indexes("alertraw", {"ix_alert_raw_tenant_id_error",
                                          "ix_alert_raw_tenant_id_timestamp",
                                          "ix_alertraw_error",
                                          "ix_alertraw_tenant_id"}))>>)

r_c0e70149c9ec ==
  Addition("c0e70149c9ec", {"ca74b4a04371"},
    Constraints("tenantapikey", {"unique_tenant_to_reference"}))

r_f3ecc7411f38 ==
  Supersession("f3ecc7411f38", {"c0e70149c9ec"},
    Columns("incident", {"is_candidate", "is_visible"}),
    Columns("incident", {"is_confirmed"}))

r_aff0128aa8f1 ==
  Addition("aff0128aa8f1", {"f3ecc7411f38"},
    Columns("mappingrule", {"is_multi_level", "new_property_name",
                            "prefix_to_remove"})
      \cup Columns("rule", {"multi_level", "multi_level_property_name"}))

r_c0880e315ebe ==
  Alteration("c0880e315ebe", {"aff0128aa8f1"},
    Columns("incident", {"ai_generated_name", "user_generated_name"}))

(* Looks up the foreign key and the indexes before it drops them, and      *)
(* passes over those it cannot create.                                     *)
r_971abbbf0a2c ==
  LET status  == Indexes("workflowexecution", {"idx_status_started"})
      covering ==
        Indexes("workflowexecution",
          {"idx_workflowexecution_workflow_tenant_started_status"})
      key == ForeignKey("workflowexecution", "fk_workflowexecution_workflow",
               "workflow")
      column == Columns("workflowexecution", {"workflow_id"})
  IN  Committing(Script("971abbbf0a2c", {"c0880e315ebe"},
        <<RemovesPresent(WorkflowKeys \cup status \cup covering), Uses(column),
          IfFits(Adds(covering)), IfFits(Adds(key))>>,
        <<RemovesPresent(covering), AddsMissing(status), Uses(column)>>))

r_2a6132b443ab ==
  Script("2a6132b443ab", {"971abbbf0a2c"},
    <<RemovesPresent(Constraints("alertenrichment",
                       {"alertenrichment_alert_fingerprint_key"}))>>,
    <<Adds(Constraints("alertenrichment",
             {"alertenrichment_alert_fingerprint_key"}))>>)

r_e663a98b1142 ==
  Addition("e663a98b1142", {"2a6132b443ab"},
    Columns("preset", {"counter_shows_firing_only"}))

r_bdf252fbc1be == SameShape("bdf252fbc1be", {"e663a98b1142"})

(* Its downgrade is drop_constraint(None): it raises. *)
r_0dafe96ea97f ==
  Script("0dafe96ea97f", {"e663a98b1142"},
    <<Uses(Columns("providerexecutionlog", {"provider_id"})),
      Removes(ForeignKey("providerexecutionlog",
                "providerexecutionlog_provider_id_fkey",
                "provider")),
      Adds(ForeignKey("providerexecutionlog",
             "providerexecutionlog_provider_id_fkey",
             "provider"))>>,
    <<Raises>>)

r_78777e6b12d3 == Merge("78777e6b12d3", {"bdf252fbc1be", "0dafe96ea97f"})

(* Its downgrade is empty. *)
r_59991b568c7d ==
  Script("59991b568c7d", {"78777e6b12d3"},
    <<AddsMissing(Indexes("workflowexecution", {"idx_status_started"}))>>,
    <<>>)

(* Its downgrade looks the foreign keys up, and gives them MySQL's names. *)
r_885ff6b12fed ==
  LET revision ==
        Columns("workflowexecution", {"workflow_revision"})
          \cup Indexes("workflowexecution",
            {"idx_workflowexecution_workflow_revision",
             "idx_workflowexecution_tenant_workflow_id_revision_timestamp",
             "idx_workflowexecution_workflow_revision_tenant_started_status"})
      keys ==
        ForeignKey("workflowexecution", "workflowexecution_ibfk_1", "tenant")
          \cup ForeignKey("workflowexecution", "workflowexecution_ibfk_2",
                 "workflow")
  IN  Script("885ff6b12fed", {"59991b568c7d"},
        <<Adds(Tables({"workflowversion"})),
          Uses(Columns("workflow", {"last_updated"})), Adds(revision)>>,
        <<RemovesPresent(WorkflowKeys \cup TenantKeys), Removes(revision),
          Adds(keys), Removes(Tables({"workflowversion"}))>>)

r_819927b7ccfa ==
  Addition("819927b7ccfa", {"885ff6b12fed"},
    Columns("workflow", {"is_test"})
      \cup Columns("workflowexecution", {"is_test_run"}))

r_eddcb77eb6f3 ==
  Addition("eddcb77eb6f3", {"819927b7ccfa"},
    Columns("provider", {"provider_metadata"}))

r_7b687c555318 == SameShape("7b687c555318", {"eddcb77eb6f3"})

r_c2f78c69e9cf == SameShape("c2f78c69e9cf", {"7b687c555318"})

r_fcef2c58b21c ==
  Addition("fcef2c58b21c", {"7b687c555318"},
    Columns("rule", {"threshold"})
      \cup Constraints("rule", {"rule_threshold_positive_int_constraint"}))

r_bedb5f07417b == Merge("bedb5f07417b", {"c2f78c69e9cf", "fcef2c58b21c"})

r_aa167915c4d6 ==
  Addition("aa167915c4d6", {"bedb5f07417b"},
    Columns("maintenancewindowrule", {"ignore_statuses"}))

(* Creates the table unless it is there. *)
r_combined_commentmention ==
  Script("combined_commentmention", {"aa167915c4d6"},
    <<AddsMissing(Tables({"commentmention"})
                    \cup ForeignKey("commentmention",
                           "fk_commentmention_alertaudit_cascade",
                           "alertaudit"))>>,
    <<RemovesPresent(Tables({"commentmention"}))>>)

r_90e3eababbf0 ==
  Merge("90e3eababbf0", {"combined_commentmention", "aa167915c4d6"})

r_7c14f776ef6b ==
  Addition("7c14f776ef6b", {"90e3eababbf0"}, Columns("rule", {"assignee"}))

r_9dd1be4539e0 ==
  Addition("9dd1be4539e0", {"7c14f776ef6b"}, Tables({"secret"}))

(* Looks up every column, both ways. *)
r_e4ad6ddc7e90 ==
  LET columns ==
        Columns("alert", {"application", "assignee", "custom_key", "description",
          "dismissUntil", "dismissed", "duplicateReason", "enriched_fields",
          "expiry_in_minutes", "extra_data", "firingCounter", "firingStartTime",
          "firingStartTimeSinceLastResolved", "incident", "isFullDuplicate",
          "isPartialDuplicate", "key_field", "lastReceived", "message", "name",
          "network", "node_name", "note", "object", "operator", "service",
          "severity", "source", "startedAt", "status", "time_created",
          "timezone", "unresolvedCounter"})
  IN  Script("e4ad6ddc7e90", {"9dd1be4539e0"},
        <<AddsMissing(columns)>>, <<RemovesPresent(columns)>>)

(* Adds the column unless it is there; its downgrade is empty. *)
r_5dfe012ad560 ==
  Script("5dfe012ad560", {"e4ad6ddc7e90"},
    <<AddsMissing(Columns("alert", {"extra_data"}))>>,
    <<>>)

r_2b4dd4b88121 ==
  Removal("2b4dd4b88121", {"5dfe012ad560"}, Columns("alert", {"event"}))

r_e1932c411f61 ==
  Removal("e1932c411f61", {"2b4dd4b88121"}, Columns("alert", {"extra_data"}))

(* A column changes its name if it is there and the new name is free. *)
Renames(t, old, new) ==
  IfFits(Edit(Columns(t, {old}), Columns(t, {new}),
              Columns(t, {old}), Columns(t, {new})))

SnakeCase ==
  <<<<"lastReceived", "last_received">>, <<"dismissUntil", "dismiss_until">>,
    <<"duplicateReason", "duplicate_reason">>,
    <<"firingCounter", "firing_counter">>,
    <<"firingStartTime", "firing_start_time">>,
    <<"firingStartTimeSinceLastResolved",
      "firing_start_time_since_last_resolved">>,
    <<"isFullDuplicate", "is_full_duplicate">>,
    <<"isPartialDuplicate", "is_partial_duplicate">>,
    <<"startedAt", "started_at">>,
    <<"unresolvedCounter", "unresolved_counter">>>>

(* Looks up what it renames, drops or adds. *)
r_20d5647ff365 ==
  LET enriched == Columns("alert", {"enriched_fields"})
  IN  Script("20d5647ff365", {"e1932c411f61"},
        Append([i \in DOMAIN SnakeCase |->
                  Renames("alert", SnakeCase[i][1], SnakeCase[i][2])],
               RemovesPresent(enriched)),
        <<AddsMissing(enriched)>> \o
          [i \in DOMAIN SnakeCase |->
             Renames("alert", SnakeCase[i][2], SnakeCase[i][1])])

r_a1b2c3d4e5f6 ==
  Alteration("a1b2c3d4e5f6", {"20d5647ff365"},
    Columns("alert", {"last_received"}))

r_c1d2e3f4a5b6 ==
  Addition("c1d2e3f4a5b6", {"a1b2c3d4e5f6"},
    Columns("lastalert", {"assignee", "dismiss_mode", "dismissed_until",
                          "firing_counter", "firing_start_time",
                          "firing_start_time_since_last_resolved",
                          "last_received", "note", "started_at", "status",
                          "status_disposable", "unresolved_counter"}))

r_c2d3e4f5a6b7 ==
  InBlock(Script("c2d3e4f5a6b7", {"c1d2e3f4a5b6"},
            <<AddsMissing(Indexes("lastalert",
                            {"idx_lastalert_tenant_assignee",
                             "idx_lastalert_tenant_dismissed_until",
                             "idx_lastalert_tenant_status"}))>>,
            <<RemovesPresent(Indexes("lastalert",
                               {"idx_lastalert_tenant_assignee",
                                "idx_lastalert_tenant_dismissed_until",
                                "idx_lastalert_tenant_status"}))>>))

r_c3d4e5f6a7b8 == InBlock(SameShape("c3d4e5f6a7b8", {"c2d3e4f5a6b7"}))

r_c4d5e6f7a8b9 == InBlockUp(SameShape("c4d5e6f7a8b9", {"c3d4e5f6a7b8"}))

r_d1a2b3c4e5f6 ==
  Addition("d1a2b3c4e5f6", {"c4d5e6f7a8b9"}, Columns("lastalert", {"deleted"}))

(* Mutant: its downgrade forgets a column. *)
RemovalForgetsNote ==
  LET columns == Columns("alert", {"assignee", "note"})
  IN  Script("e2b3c4d5f6a7", {"d1a2b3c4e5f6"},
        <<Removes(columns)>>, <<Adds(Columns("alert", {"assignee"}))>>)

r_e2b3c4d5f6a7 ==
  Removal("e2b3c4d5f6a7", {"d1a2b3c4e5f6"},
    Columns("alert", {"assignee", "dismiss_until", "dismissed",
                      "firing_counter", "firing_start_time",
                      "firing_start_time_since_last_resolved", "incident",
                      "last_received", "note", "started_at",
                      "unresolved_counter"}))

r_f3a4b5c6d7e8 ==
  Addition("f3a4b5c6d7e8", {"e2b3c4d5f6a7"},
    Columns("lastalert", {"ticket_provider_id", "ticket_type", "ticket_url"}))

r_alert_standardization ==
  Supersession("alert_standardization", {"a1b2c3d4e5f6"},
    Columns("alert", {"alert_rule_url", "impact", "runbook_url", "site"}),
    Columns("alert", {"message"}))

(* A new column takes over the name of the old one. *)
r_source_to_json ==
  Script("source_to_json", {"alert_standardization"},
    <<Adds(Columns("alert", {"source_new"})),
      Removes(Columns("alert", {"source", "source_new"})),
      Adds(Columns("alert", {"source"}))>>,
    <<Adds(Columns("alert", {"source_old"})),
      Removes(Columns("alert", {"source", "source_old"})),
      Adds(Columns("alert", {"source"}))>>)

r_3680b37fcc51 == Merge("3680b37fcc51", {"c4d5e6f7a8b9", "source_to_json"})

r_merge_p2_alertstd ==
  Merge("merge_p2_alertstd", {"f3a4b5c6d7e8", "3680b37fcc51"})

r_alert_received_at ==
  Addition("alert_received_at", {"merge_p2_alertstd"},
    Columns("alert", {"received_at"}))

r_create_incident_enrichment ==
  Creation("create_incident_enrichment", {"alert_received_at"},
    {"incidentenrichment"},
    ForeignKey("incidentenrichment", "incidentenrichment_incident_id_fkey",
      "incident"))

(* Its downgrade creates the table as the first script did. *)
r_drop_alertenrichment ==
  Script("drop_alertenrichment", {"create_incident_enrichment"},
    <<Removes(Tables({"alertenrichment"}))>>,
    <<Adds(Tables({"alertenrichment"})
             \cup Constraints("alertenrichment",
                    {"alertenrichment_alert_fingerprint_key"}))>>)

r_alert_audit_covering_index ==
  Addition("alert_audit_covering_index", {"drop_alertenrichment"},
    Indexes("alertaudit", {"ix_alert_audit_tenant_fingerprint_ts"}))

r_alert_environment ==
  Addition("alert_environment", {"alert_audit_covering_index"},
    Columns("alert", {"environment"}))

r_preset_filter_indexes ==
  InBlock(Script("preset_filter_indexes", {"alert_environment"},
            <<AddsMissing(Indexes("alert",
                            {"idx_alert_tenant_application",
                             "idx_alert_tenant_operator_application",
                             "idx_alert_tenant_provider_type"})
                            \cup Indexes("lastalert",
                                   {"idx_lastalert_tenant_alert_id"}))>>,
            <<RemovesPresent(Indexes("alert",
                               {"idx_alert_tenant_application",
                                "idx_alert_tenant_operator_application",
                                "idx_alert_tenant_provider_type"})
                               \cup Indexes("lastalert",
                                      {"idx_lastalert_tenant_alert_id"}))>>))

r_alertraw_partition_dlq ==
  Script("alertraw_partition_dlq", {"preset_filter_indexes"},
    <<AddsMissing(Indexes("alertraw", {"ix_alertraw_timestamp"}))>>,
    <<Removes(Indexes("alertraw", {"ix_alertraw_timestamp"}))>>)

r_dedup_event_timestamp_index ==
  Script("dedup_event_timestamp_index", {"alertraw_partition_dlq"},
    <<AddsMissing(Indexes("alertdeduplicationevent",
                    {"ix_alert_deduplication_event_timestamp"}))>>,
    <<Removes(Indexes("alertdeduplicationevent",
                {"ix_alert_deduplication_event_timestamp"}))>>)

(* Looks the foreign key up before it drops it. *)
r_drop_commentmention_audit_fk ==
  Script("drop_commentmention_audit_fk", {"dedup_event_timestamp_index"},
    <<RemovesPresent(ForeignKey("commentmention",
                       "fk_commentmention_alertaudit_cascade",
                       "alertaudit"))>>,
    <<Adds(ForeignKey("commentmention", "fk_commentmention_alertaudit_cascade",
             "alertaudit"))>>)

r_vena_5596_tenant_operator ==
  Addition("vena_5596_tenant_operator", {"preset_filter_indexes"},
    Tables({"operator", "tenantrolegrant"})
      \cup Constraints("tenant", {"uq_tenant_name"}))

(* Mutant: its downgrade drops the tables and forgets their enum types. *)
AutomationTypesLeft ==
  LET tables == Tables({"automation_revisions", "automation_runs",
                        "automations"})
  IN  Script("create_automation_tables", {"drop_commentmention_audit_fk"},
        <<Adds(tables \cup EnumTypes({"automation_run_state"}))>>,
        <<Removes(tables)>>)

r_create_automation_tables ==
  Addition("create_automation_tables", {"drop_commentmention_audit_fk"},
    Tables({"automation_revisions", "automation_runs", "automations"})
      \cup EnumTypes({"automation_build_state", "automation_failure_class",
                      "automation_matching_state",
                      "automation_revision_action", "automation_run_state",
                      "automation_suppression_reason"}))

r_d189e52482f1 ==
  Merge("d189e52482f1",
    {"drop_commentmention_audit_fk", "vena_5596_tenant_operator"})

(* Looks the old constraints up before it drops them. *)
r_preset_tag_name_per_tenant ==
  Script("preset_tag_name_per_tenant", {"d189e52482f1"},
    <<RemovesPresent(Constraints("preset", {"preset_name_key"})
                       \cup Constraints("tag", {"tag_name_key"})),
      Adds(Constraints("tag", {"uq_tag_tenant_name"}))>>,
    <<Removes(Constraints("tag", {"uq_tag_tenant_name"})),
      Adds(Constraints("preset", {"preset_name_key"})
             \cup Constraints("tag", {"tag_name_key"}))>>)

r_merge_automations_preset_tag ==
  Merge("merge_automations_preset_tag",
    {"create_automation_tables", "preset_tag_name_per_tenant"})

r_incident_dismiss_columns ==
  Script("incident_dismiss_columns", {"merge_automations_preset_tag"},
    <<Adds(Columns("incident", {"dismiss_mode", "dismissed_until"})
             \cup Indexes("incident", {"ix_incident_dismissed_until"})),
      Removes(ForeignKey("incidentenrichment",
                "incidentenrichment_incident_id_fkey",
                "incident")),
      Adds(ForeignKey("incidentenrichment",
             "incidentenrichment_incident_id_fkey",
             "incident"))>>,
    <<Removes(ForeignKey("incidentenrichment",
                "incidentenrichment_incident_id_fkey",
                "incident")),
      Adds(ForeignKey("incidentenrichment",
             "incidentenrichment_incident_id_fkey",
             "incident")),
      Removes(Columns("incident", {"dismiss_mode", "dismissed_until"})
                \cup Indexes("incident", {"ix_incident_dismissed_until"}))>>)

r_strip_incident_status_enrich ==
  SameShape("strip_incident_status_enrich", {"incident_dismiss_columns"})

r_purge_orphan_incident_audit ==
  SameShape("purge_orphan_incident_audit", {"strip_incident_status_enrich"})

r_derive_alert_suppression ==
  SameShape("derive_alert_suppression", {"purge_orphan_incident_audit"})

-----------------------------------------------------------------------------
(* Every script, parents first: the order alembic walks them in. *)
History ==
  <<r_54c1252b2c8a, r_c37ec8f6db3e, r_37019ca3eb2e, r_dcbd2873dcfd,
    r_9ba0aeecd4d0, r_67f1efb93c99, r_8e5942040de6, r_c91b348b94f2,
    r_92f4f93f2140, r_4147d9e706c0, r_9453855f3ba0, r_0832e0d9889a,
    r_87594ea6d308, r_4ef2c767664c, r_1c650a429672, r_7ed12220a0d3,
    r_94886bc59c11, r_70671c95028e, r_49e7c02579db, r_1a5eb7069f9a,
    r_e6653be70b62, r_1aacee84447e, r_938b1aa62d5c, r_c5443d9deb0f,
    r_772790c2e50a, r_5d7ae55efc6a, r_493f217af6b6, r_01ebe17218c0,
    r_017d759805d9, r_bf756df80e9d, r_83c1020be97d, r_8438f041ee0e,
    r_89b4d3905d26, r_991b30bcf0b9, r_273b29f368b7, r_ef0b5b0df41c,
    r_895fe80117aa, r_620b6c048091, r_192157fd5788, r_3f056d747d9e,
    r_3ad5308e7200, r_bdae8684d0b4, r_c6e5594c99f8, r_55cc64020f6d,
    r_3d20d954e058, r_0c5e002094a9, r_4f8c4b185d5b, r_7297ae99cd21,
    r_dcb7f88a04da, r_1c117f1accff, r_8a4ec08f2d6b, r_416155f25854,
    r_e3f33e571c3c, r_d359baaf0836, r_e343054ae740, r_908d95386e29,
    r_21d314490e6a, r_7fde94be79e4, r_8176d7153747, r_90e2d22edc6a,
    r_876a424d8f06, r_35ebba262eb0, r_ea25d9402518, r_a82154690f35,
    r_0b80bda47ee2, r_16309df224d1, r_ab333148350e, r_9f11356d8ed9,
    r_ca74b4a04371, r_c0e70149c9ec, r_f3ecc7411f38, r_aff0128aa8f1,
    r_c0880e315ebe, r_971abbbf0a2c, r_2a6132b443ab, r_e663a98b1142,
    r_bdf252fbc1be, r_0dafe96ea97f, r_78777e6b12d3, r_59991b568c7d,
    r_885ff6b12fed, r_819927b7ccfa, r_eddcb77eb6f3, r_7b687c555318,
    r_c2f78c69e9cf, r_fcef2c58b21c, r_bedb5f07417b, r_aa167915c4d6,
    r_combined_commentmention, r_90e3eababbf0, r_7c14f776ef6b, r_9dd1be4539e0,
    r_e4ad6ddc7e90, r_5dfe012ad560, r_2b4dd4b88121, r_e1932c411f61,
    r_20d5647ff365, r_a1b2c3d4e5f6, r_c1d2e3f4a5b6, r_c2d3e4f5a6b7,
    r_c3d4e5f6a7b8, r_c4d5e6f7a8b9, r_d1a2b3c4e5f6, r_e2b3c4d5f6a7,
    r_f3a4b5c6d7e8, r_alert_standardization, r_source_to_json, r_3680b37fcc51,
    r_merge_p2_alertstd, r_alert_received_at, r_create_incident_enrichment,
    r_drop_alertenrichment, r_alert_audit_covering_index, r_alert_environment,
    r_preset_filter_indexes, r_alertraw_partition_dlq,
    r_dedup_event_timestamp_index, r_drop_commentmention_audit_fk,
    r_vena_5596_tenant_operator, r_create_automation_tables, r_d189e52482f1,
    r_preset_tag_name_per_tenant, r_merge_automations_preset_tag,
    r_incident_dismiss_columns, r_strip_incident_status_enrich,
    r_purge_orphan_incident_audit, r_derive_alert_suppression>>
=============================================================================
