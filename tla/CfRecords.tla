----------------------------- MODULE CfRecords -----------------------------
(***************************************************************************)
(* The records the panel keeps at Cloudflare for its own resolver           *)
(* (crates/panel/src/cloudflare.rs; the callers in api.rs, lib.rs and       *)
(* dns_integrity.rs): the A record of its name server's host, an NS record  *)
(* for every zone it serves, and the A record of the panel itself.  The     *)
(* first two are made when they are missing and never corrected             *)
(* (ensure_missing_record); the last follows the settings (upsert_record).  *)
(*                                                                          *)
(* A handler asks, decides and acts in separate calls.  Any call may fail,  *)
(* any change may be made although its answer is lost, and the operator     *)
(* edits records at Cloudflare meanwhile.  A record's content stands for    *)
(* its `proxied` flag as well, and CNAME for AAAA.  The names do not        *)
(* change, and those of the host, the panel and the zones differ, as they   *)
(* do by default; of the settings only the panel's address changes          *)
(* (CfSettings).                                                            *)
(***************************************************************************)
EXTENDS Naturals, Sequences, FiniteSets, SequencesExt

CONSTANTS
  Ids,              \* of records: Cloudflare holds no more than these
  NoRecord,
  NsHost,           \* ns_name.domain
  PanelName,        \* panel.domain
  Children,         \* names of zones below the domain
  ManagedLists,     \* those a repair may be about, each list in its order
  Configured,       \* one of them: subdomain.domain
  Ips, NoIp,        \* panel addresses; NoIp: Cloudflare is not configured
  Jobs,             \* handlers at work
  OperatorRecords   \* what the operator may add by hand

RecordNames == {NsHost, PanelName} \cup Children

Type(name) == IF name \in Children THEN "NS" ELSE "A"
Content(name, ip) == IF name \in Children THEN NsHost ELSE ip

Record == [name : RecordNames, type : {"A", "NS", "CNAME", "TXT"},
           content : Ips \cup {NsHost, "other"}, made : {"panel", "operator"}]

ASSUME RecordsAssumption ==
  /\ Configured \in Children /\ NsHost # PanelName /\ {NsHost, PanelName} \cap Children = {}
  /\ \A managed \in ManagedLists : managed \in Seq(Children) /\ Configured \in ToSet(managed)
  /\ NoIp \notin Ips /\ NoRecord \notin Record
  /\ OperatorRecords \subseteq {r \in Record : r.made = "operator"}

VARIABLES
  record,           \* what Cloudflare holds; `made`, by whom, is history
  settings,         \* cf_config: the panel's address, or NoIp
  job,              \* what each handler is about
  clean,            \* history: repairs that nothing has disturbed or failed
  overtaken         \* history: the settings have changed under a job

rvars == <<record, settings, job, clean, overtaken>>

Kinds == {"none", "setup", "zone", "repair", "delete"}
Job == [kind : Kinds, ip : Ips \cup {NoIp}, about : SUBSET RecordNames, todo : Seq(RecordNames),
        pc : {"idle", "look", "create", "verify", "update", "delete", "done"},
        found : SUBSET Ids, attention : SUBSET RecordNames]

NoJob == [kind |-> "none", ip |-> NoIp, about |-> {}, todo |-> << >>,
          pc |-> "idle", found |-> {}, attention |-> {}]

RecordsInit ==
  /\ record \in {[i \in Ids |-> NoRecord]}
  /\ settings = NoIp
  /\ job = [j \in Jobs |-> NoJob]
  /\ clean = {} /\ overtaken = FALSE

-----------------------------------------------------------------------------
(* classify_records *)

At(name) == {i \in Ids : record[i] # NoRecord /\ record[i].name = name}
Same(name) == {i \in At(name) : record[i].type = Type(name)}

(* Types that must not stand beside the wanted one. *)
Forbidden(name) == IF name \in Children THEN {"A", "CNAME"} ELSE {"CNAME"}

(* Mutant of Classify: a record with another content is not there. *)
ClassifyByContent(name, ip) ==
  IF \E i \in At(name) : record[i].type \in Forbidden(name) THEN "conflict"
  ELSE IF \A i \in Same(name) : record[i].content # Content(name, ip) THEN "missing"
  ELSE "ok"

Classify(name, ip) ==
  IF \E i \in At(name) : record[i].type \in Forbidden(name) THEN "conflict"
  ELSE IF Same(name) = {} THEN "missing"
  ELSE IF \E i \in Ids : Same(name) = {i} /\ record[i].content = Content(name, ip) THEN "ok"
  ELSE "conflict"

-----------------------------------------------------------------------------
(* Handlers *)

(* What anybody else changes disturbs a job. *)
Disturb(j) == clean' = clean \cap {j}

Starts(j, kind, todo, ip) ==
  /\ job' = [job EXCEPT ![j] =
                [kind |-> kind, ip |-> ip, todo |-> todo, pc |-> "look",
                 about |-> IF kind = "repair" THEN ToSet(todo) ELSE {},
                 found |-> {}, attention |-> {}]]
  /\ clean' = IF kind = "repair" THEN clean \cup {j} ELSE clean

(* auto_setup_dns: at startup, in cf_sync, and after new settings.          *)
SetupList == <<NsHost, Configured, PanelName>>

SyncRecords(j) ==
  /\ job[j].pc = "idle" /\ settings # NoIp
  /\ Starts(j, "setup", SetupList, settings)
  /\ UNCHANGED <<record, settings, overtaken>>

OvertakenBy(ip) == \E j \in Jobs : job[j].pc # "idle" /\ job[j].ip \notin {ip, NoIp}

PutSettings(j) ==
  /\ job[j].pc = "idle"
  /\ \E ip \in Ips : /\ settings' = ip
                     /\ Starts(j, "setup", SetupList, ip)
                     /\ overtaken' = (overtaken \/ OvertakenBy(ip))
  /\ UNCHANGED record

(* delete_cf_settings leaves the records. *)
DeleteSettings ==
  /\ settings # NoIp /\ settings' = NoIp
  /\ UNCHANGED <<record, job, clean, overtaken>>

(* create_zone and delete_zone, of a zone below the domain. *)
CreateZoneRecord(j) ==
  /\ job[j].pc = "idle" /\ settings # NoIp
  /\ \E c \in Children : Starts(j, "zone", <<c>>, settings)
  /\ UNCHANGED <<record, settings, overtaken>>

DeleteZoneRecords(j) ==
  /\ job[j].pc = "idle" /\ settings # NoIp
  /\ \E c \in Children : Starts(j, "delete", <<c>>, settings)
  /\ UNCHANGED <<record, settings, overtaken>>

(* inspect_and_repair with repair: the host, and then every managed child,  *)
(* in their order; which zones there are is ZoneStore's.                    *)
RepairStarts(j) ==
  /\ job[j].pc = "idle" /\ settings # NoIp
  /\ \E managed \in ManagedLists : Starts(j, "repair", <<NsHost>> \o managed, settings)
  /\ UNCHANGED <<record, settings, overtaken>>

-----------------------------------------------------------------------------
(* Calls.  name is what the job is at. *)

At_(j, pc) == job[j].pc = pc
Name(j) == Head(job[j].todo)

(* Ids are never used again; here, not while a job knows them.              *)
Unused == {i \in Ids : record[i] = NoRecord /\ \A j \in Jobs : i \notin job[j].found}

Set(j, pc, todo, found, attention) ==
  job' = [job EXCEPT ![j] =
            [kind |-> job[j].kind, ip |-> job[j].ip, about |-> job[j].about,
             todo |-> todo, pc |-> pc, found |-> found, attention |-> attention]]

(* The next call about the same record.                                     *)
Turns(j, pc, found) == Set(j, pc, job[j].todo, found, job[j].attention)

Quits(j) == job' = [job EXCEPT ![j] = NoJob]

(* The next record is taken up.  Only a repair has a report to give.        *)
GoesWith(j, attention) ==
  IF Len(job[j].todo) > 1
  THEN Set(j, "look", Tail(job[j].todo), {}, attention)
  ELSE IF job[j].kind = "repair"
  THEN Set(j, "done", << >>, {}, attention)
  ELSE Quits(j)

Goes(j) == GoesWith(j, job[j].attention)

(* Mutant of Conflicts: a repair gives up like the others. *)
ConflictsAndStops(j) ==
  IF job[j].kind = "repair"
  THEN Set(j, "done", << >>, {}, job[j].attention \cup {Name(j)})
  ELSE Quits(j)

(* A repair reports a conflict and takes up the next record; the others     *)
(* give up.                                                                 *)
Conflicts(j) ==
  IF job[j].kind = "repair" THEN GoesWith(j, job[j].attention \cup {Name(j)}) ELSE Quits(j)

(* The same with a call that failed, which is reported as such. *)
Fails(j) == IF job[j].kind = "repair" THEN Goes(j) ELSE Quits(j)

(* The first call of ensure_missing_record, upsert_record and delete_zone.  *)
Look(j) ==
  LET verdict == Classify(Name(j), job[j].ip)
      found == Same(Name(j))
  IN  /\ At_(j, "look")
      /\ CASE job[j].kind = "delete" -> Turns(j, "delete", found)
           [] job[j].kind # "delete" /\ Name(j) = PanelName ->
                IF found = {} THEN Turns(j, "create", {})
                ELSE \E i \in found : Turns(j, "update", {i})
           [] OTHER ->
                CASE verdict = "ok" -> Goes(j)
                  [] verdict = "missing" -> Turns(j, "create", {})
                  [] verdict = "conflict" -> Conflicts(j)
      /\ UNCHANGED <<record, settings, clean, overtaken>>

(* Cloudflare refuses a record that it has.  A record that is made without  *)
(* the answer arriving is an error to the job.                              *)
Create(j) ==
  LET new == [name |-> Name(j), type |-> Type(Name(j)),
              content |-> Content(Name(j), job[j].ip), made |-> "panel"]
      known == \E i \in At(Name(j)) : [record[i] EXCEPT !.made = "panel"] = new
  IN  /\ At_(j, "create") /\ ~known
      /\ \E i \in Unused : record' = [record EXCEPT ![i] = new]
      /\ \/ /\ IF Name(j) = PanelName THEN Goes(j) ELSE Turns(j, "verify", {})
            /\ Disturb(j)
         \/ Fails(j) /\ clean' = {}
      /\ UNCHANGED <<settings, overtaken>>

(* The created record is read back and classified again. *)
Verify(j) ==
  /\ At_(j, "verify")
  /\ IF Classify(Name(j), job[j].ip) = "ok" THEN Goes(j) ELSE Conflicts(j)
  /\ UNCHANGED <<record, settings, clean, overtaken>>

(* upsert_record, of a record that may be gone by now. *)
Update(j) ==
  LET i == CHOOSE i \in job[j].found : TRUE
  IN  /\ At_(j, "update") /\ record[i] # NoRecord
      /\ record' = [record EXCEPT ![i].content = job[j].ip]
      /\ \/ Goes(j) /\ Disturb(j)
         \/ Fails(j) /\ clean' = {}
      /\ UNCHANGED <<settings, overtaken>>

(* delete_zone deletes every NS record it has found, whatever fails. *)
Delete(j) ==
  /\ At_(j, "delete")
  /\ \/ /\ job[j].found = {} /\ Goes(j)
        /\ UNCHANGED <<record, clean>>
     \/ \E i \in job[j].found :
          /\ Turns(j, "delete", job[j].found \ {i})
          /\ \/ record' = [record EXCEPT ![i] = NoRecord] /\ Disturb(j)
             \/ UNCHANGED record /\ clean' = clean \ {j}
  /\ UNCHANGED <<settings, overtaken>>

(* A call fails, is refused, or has no more time (with_provider_deadline).  *)
CallFails(j) ==
  /\ job[j].pc \in {"look", "create", "verify", "update"}
  /\ Fails(j) /\ clean' = clean \ {j}
  /\ UNCHANGED <<record, settings, overtaken>>

(* The endpoint's 15 seconds are over, or the panel stops. *)
Abandoned(j) ==
  /\ job[j].pc # "idle" /\ Quits(j) /\ clean' = clean \ {j}
  /\ UNCHANGED <<record, settings, overtaken>>

Answered(j) ==
  /\ At_(j, "done") /\ Quits(j)
  /\ UNCHANGED <<record, settings, clean, overtaken>>

(* The operator adds a record of his own at Cloudflare, or removes any.     *)
OperatorEdits ==
  /\ \E i \in Ids :
       \/ /\ i \in Unused
          /\ \E r \in OperatorRecords : record' = [record EXCEPT ![i] = r]
       \/ record[i] # NoRecord /\ record' = [record EXCEPT ![i] = NoRecord]
  /\ clean' = {}
  /\ UNCHANGED <<settings, job, overtaken>>

JobStep(j) ==
  \/ SyncRecords(j) \/ PutSettings(j) \/ CreateZoneRecord(j) \/ DeleteZoneRecords(j) \/ RepairStarts(j)
  \/ Look(j) \/ Create(j) \/ Verify(j) \/ Update(j) \/ Delete(j)
  \/ CallFails(j) \/ Abandoned(j) \/ Answered(j)

RecordsNext == (\E j \in Jobs : JobStep(j)) \/ DeleteSettings \/ OperatorEdits

RecordsSpec == RecordsInit /\ [][RecordsNext]_rvars

-----------------------------------------------------------------------------
RecordsTypeOK ==
  /\ record \in [Ids -> Record \cup {NoRecord}] /\ settings \in Ips \cup {NoIp}
  /\ job \in [Jobs -> Job] /\ clean \subseteq Jobs /\ overtaken \in BOOLEAN

(* dns_integrity.rs:3-5: a repair makes every record that is unambiguously  *)
(* missing and reports the rest.  When one has ended that nothing disturbed *)
(* and no call failed in, each record it is about is right, or among those  *)
(* reported; a conflict at one does not keep it from the others.            *)
RepairEndsRight ==
  \A j \in clean : job[j].kind = "repair" /\ job[j].pc = "done" =>
    \A name \in job[j].about :
      Classify(name, job[j].ip) = "ok" \/ name \in job[j].attention

(* cloudflare.rs:312-315: two handlers that look at the same time never     *)
(* leave two records of the panel's own at one name, whatever is lost or    *)
(* edited meanwhile, unless one of them still had the settings of before.   *)
OneRecordPerName ==
  overtaken \/ \A name \in RecordNames :
    Cardinality({i \in Same(name) : record[i].made = "panel"}) <= 1
=============================================================================
