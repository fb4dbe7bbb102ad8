----------------------------- MODULE CfSettings -----------------------------
(***************************************************************************)
(* The Cloudflare settings: six rows of the settings table (db.rs), written *)
(* one after the other, and the copy the handlers use (state.rs, cf).       *)
(* put_cf_settings and delete_cf_settings (api.rs) change the rows and then *)
(* the copy; the repair of dns_integrity.rs completes a missing address in  *)
(* both; a start (lib.rs) may seed the rows from the command line and loads *)
(* the copy from them.                                                      *)
(*                                                                          *)
(* Keys stand for the six: those a configuration cannot do without, those   *)
(* with a default, and the panel's address.  Encryption is left out: what   *)
(* is read is what was written.                                             *)
(***************************************************************************)
EXTENDS Sequences, SequencesExt

CONSTANTS
  Token,          \* the key of the token, which a request may leave as it is
  PanelIp,        \* the key of the address
  KeyOrder,       \* all keys, in the order of the writes
  Required,       \* the keys a configuration cannot do without
  Default,        \* what the other keys are when they have no row
  Values,         \* of every key but the address
  PanelIps, Blank,     \* addresses; Blank: to be detected
  Absent,         \* no row
  None,           \* no configuration
  Unchanged,      \* the masked token of a request
  Workers

Keys == ToSet(KeyOrder)
Config == {c \in [Keys -> Values \cup PanelIps \cup {Blank, Default}] :
             \A k \in Keys : IF k = PanelIp THEN c[k] \in PanelIps \cup {Blank}
                             ELSE c[k] \in Values \cup (IF k \in Required THEN {} ELSE {Default})}

ASSUME KeysAssumption ==
  /\ {Token} \subseteq Required /\ Required \subseteq Keys \ {PanelIp} /\ PanelIp \in Keys
  /\ {Absent, None, Blank, Default, Unchanged} \cap (Values \cup PanelIps) = {}
  /\ Absent \notin {Blank, Default} /\ None \notin Config /\ KeyOrder \in Seq(Keys)

VARIABLES
  saved,          \* the rows: key -> value, or Absent
  running,        \* AppState.cf: a configuration, or None
  worker,         \* [pc, config, left]: what each handler is writing
  disturbed       \* history: why the two may differ, until they agree again

svars == <<saved, running, worker, disturbed>>

NotWriting == [pc |-> "idle", config |-> None, left |-> << >>]

Busy == {w \in Workers : worker[w].pc # "idle"}

Writes(w, pc, config, left) ==
  worker' = [worker EXCEPT ![w] = [pc |-> pc, config |-> config, left |-> left]]

(* A second handler at work at the same time. *)
Meets(w) == disturbed' = IF Busy \ {w} # {} THEN "overlap" ELSE disturbed

-----------------------------------------------------------------------------
(* get_cf_config, and what lib.rs makes of it *)
Loaded(rows) ==
  IF \E k \in Required : rows[k] = Absent THEN None
  ELSE [k \in Keys |-> IF rows[k] # Absent THEN rows[k]
                       ELSE IF k = PanelIp THEN Blank ELSE Default]

(* A handler is through, or is dropped; `why` is what stands between rows   *)
(* and copy when they then differ, or when others are still at work.        *)
Finishes(w, why) ==
  /\ worker' = [worker EXCEPT ![w] = NotWriting]
  /\ disturbed' = IF Busy = {w} /\ Loaded(saved) = running' THEN "none" ELSE why

SettingsInit ==
  /\ saved = [k \in Keys |-> Absent] /\ running = None
  /\ worker = [w \in Workers |-> NotWriting] /\ disturbed = "none"

(* put_cf_settings completes the request before it writes anything: the     *)
(* token by the saved one, the address by what it detects, or ends.         *)
PutStarts(w) ==
  /\ worker[w].pc = "idle"
  /\ \E config \in Config, token \in Values \cup {Unchanged}, ip \in PanelIps :
       /\ token = Unchanged => saved[Token] # Absent
       /\ config[Token] = IF token = Unchanged THEN saved[Token] ELSE token
       /\ config[PanelIp] = ip
       /\ Writes(w, "put", config, KeyOrder)
  /\ Meets(w) /\ UNCHANGED <<saved, running>>

(* Mutant of PutRow: the address is saved as it was sent. *)
PutRowAsSent(w) ==
  LET key == Head(worker[w].left)
  IN  /\ worker[w].pc = "put" /\ worker[w].left # << >>
      /\ \E sent \in IF key = PanelIp THEN {Blank, worker[w].config[key]} ELSE {worker[w].config[key]} :
           saved' = [saved EXCEPT ![key] = sent]
      /\ Writes(w, "put", worker[w].config, Tail(worker[w].left))
      /\ UNCHANGED <<running, disturbed>>

(* One row after the other. *)
PutRow(w) ==
  LET key == Head(worker[w].left)
  IN  /\ worker[w].pc = "put" /\ worker[w].left # << >>
      /\ saved' = [saved EXCEPT ![key] = worker[w].config[key]]
      /\ Writes(w, "put", worker[w].config, Tail(worker[w].left))
      /\ UNCHANGED <<running, disturbed>>

(* The copy is replaced when all rows are written. *)
PutEnds(w) ==
  /\ worker[w].pc = "put" /\ worker[w].left = << >>
  /\ running' = worker[w].config /\ Finishes(w, disturbed)
  /\ UNCHANGED saved

DeleteStarts(w) ==
  /\ worker[w].pc = "idle" /\ Writes(w, "delete", None, KeyOrder)
  /\ Meets(w) /\ UNCHANGED <<saved, running>>

(* delete_cf_config *)
DeleteRow(w) ==
  /\ worker[w].pc = "delete" /\ worker[w].left # << >>
  /\ saved' = [saved EXCEPT ![Head(worker[w].left)] = Absent]
  /\ Writes(w, "delete", None, Tail(worker[w].left))
  /\ UNCHANGED <<running, disturbed>>

DeleteEnds(w) ==
  /\ worker[w].pc = "delete" /\ worker[w].left = << >>
  /\ running' = None /\ Finishes(w, disturbed)
  /\ UNCHANGED saved

(* A repair that finds no address in its copy of the settings detects one,  *)
(* saves it, and installs its copy with it.                                 *)
DetectStarts(w) ==
  /\ worker[w].pc = "idle" /\ running # None /\ running[PanelIp] = Blank
  /\ \E ip \in PanelIps : Writes(w, "detected", [running EXCEPT ![PanelIp] = ip], << >>)
  /\ Meets(w) /\ UNCHANGED <<saved, running>>

DetectSaves(w) ==
  /\ worker[w].pc = "detected"
  /\ saved' = [saved EXCEPT ![PanelIp] = worker[w].config[PanelIp]]
  /\ Writes(w, "saved", worker[w].config, << >>)
  /\ UNCHANGED <<running, disturbed>>

DetectEnds(w) ==
  /\ worker[w].pc = "saved" /\ running' = worker[w].config
  /\ Finishes(w, disturbed) /\ UNCHANGED saved

(* A write fails: the handler answers with an error, the rest is left.      *)
RowWriteFails(w) ==
  /\ worker[w].pc = "detected" \/ worker[w].left # << >>
  /\ UNCHANGED <<saved, running>> /\ Finishes(w, "failed")

(* The client hangs up, or the 15 seconds of a check (dns_integrity_check)  *)
(* pass: the handler is dropped where it is, perhaps with all its rows      *)
(* written and the copy not yet replaced.                                   *)
HandlerEnds(w) ==
  /\ worker[w].pc # "idle"
  /\ UNCHANGED <<saved, running>> /\ Finishes(w, "ended")

(* build: with a configuration on the command line, all rows are written.   *)
PanelStarts ==
  /\ \E seed \in Config \cup {None} :
       saved' = IF seed = None THEN saved ELSE seed
  /\ running' = Loaded(saved')
  /\ worker' = [w \in Workers |-> NotWriting] /\ disturbed' = "none"

SettingsNext ==
  \/ \E w \in Workers :
       \/ PutStarts(w) \/ PutRow(w) \/ PutEnds(w)
       \/ DeleteStarts(w) \/ DeleteRow(w) \/ DeleteEnds(w)
       \/ DetectStarts(w) \/ DetectSaves(w) \/ DetectEnds(w)
       \/ RowWriteFails(w) \/ HandlerEnds(w)
  \/ PanelStarts

SettingsSpec == SettingsInit /\ [][SettingsNext]_svars

-----------------------------------------------------------------------------
SettingsTypeOK ==
  /\ saved \in [Keys -> Values \cup PanelIps \cup {Blank, Default, Absent}]
  /\ running \in Config \cup {None}
  /\ disturbed \in {"none", "overlap", "failed", "ended"}
  /\ worker \in [Workers -> [pc : {"idle", "put", "delete", "detected", "saved"},
                             config : Config \cup {None}, left : Seq(Keys)]]

(* api.rs, put_cf_settings ("so a restart retains the repair target"): a    *)
(* restart brings back what is running, address included, with no handler   *)
(* at work, unless, since they last agreed, two wrote at the same time, or  *)
(* one could not write all its rows, or one was dropped before its end.     *)
RestartKeepsSettings ==
  Busy = {} /\ disturbed = "none" => Loaded(saved) = running
=============================================================================
