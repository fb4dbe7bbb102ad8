------------------------------ MODULE GeoTable ------------------------------
(***************************************************************************)
(* The lookup table that tells a client's region and carrier, on disk and   *)
(* in memory: the online update (crates/panel/src/api.rs, geocn_update),    *)
(* `panel fetch-geocn` (main.rs), which writes the same file beside a       *)
(* running panel, and the load at startup (lib.rs).  Each writer overwrites *)
(* the file first and looks at what it wrote afterwards.                    *)
(***************************************************************************)
CONSTANTS
  Updates,        \* online updates that may be under way at once
  Fetches         \* and runs of `panel fetch-geocn`

VARIABLES
  table_file,     \* "none", "good", "empty", or "bad": not a table, or cut short
  provider,       \* what lookups use: "good", or "stub" that knows nothing
  writer,         \* writer -> where it is, and with "write" what it downloaded
  last_result     \* how the last writer to end has ended, since the start

gvars == <<table_file, provider, writer, last_result>>

Writers == Updates \cup Fetches

Resting == [pc |-> "idle", body |-> "none"]

Step(w, pc, body) == writer' = [writer EXCEPT ![w] = [pc |-> pc, body |-> body]]

Ends(w, result) == Step(w, "idle", "none") /\ last_result' = result

TableInit ==
  /\ table_file = "none" /\ provider = "stub" /\ last_result = "none"
  /\ writer = [w \in Writers |-> Resting]

(* A download that fails, or is too large, ends without a trace. *)
Download(w) ==
  /\ writer[w].pc = "idle"
  /\ \E body \in {"good", "bad"} : Step(w, "write", body)
  /\ UNCHANGED <<table_file, provider, last_result>>

(* tokio::fs::write opens the file, which makes it an empty one ...         *)
WriteTable(w) ==
  /\ writer[w].pc = "write"
  /\ table_file' = "empty"
  /\ Step(w, "writing", writer[w].body)
  /\ UNCHANGED <<provider, last_result>>

(* What the open file of w holds once w has written it: what w downloaded,  *)
(* or, when others wrote it as well, any mixture; the name is gone when     *)
(* another has removed it since.                                            *)
Written(w) ==
  IF table_file = "none" THEN {"none"}
  ELSE IF table_file = "empty" /\ \A v \in Writers \ {w} : writer[v].pc # "writing"
       THEN {writer[w].body}
       ELSE {writer[w].body, "bad", table_file}

(* ... and writes it.  The write may end half way, and an update's client   *)
(* may hang up, which does not stop the write; then nobody looks at it.     *)
WritesTable(w) ==
  /\ writer[w].pc = "writing"
  /\ \/ /\ table_file' \in Written(w)
        /\ Step(w, "validate", "none") /\ UNCHANGED last_result
     \/ /\ table_file' \in Written(w) \cup (IF table_file = "none" THEN {} ELSE {"bad"})
        /\ Ends(w, "failed")
  /\ UNCHANGED provider

(* What was written is loaded once to see if it can be ...                  *)
Validate(w) ==
  /\ writer[w].pc = "validate"
  /\ IF table_file # "good" THEN Step(w, "remove", "none") /\ UNCHANGED last_result
     ELSE IF w \in Fetches THEN Ends(w, "ok")
     ELSE Step(w, "switch", "none") /\ UNCHANGED last_result
  /\ UNCHANGED <<table_file, provider>>

(* ... and removed if not, whatever it is by then, unless that fails.       *)
RemoveTable(w) ==
  /\ writer[w].pc = "remove"
  /\ table_file' \in {"none", table_file} /\ Ends(w, "failed")
  /\ UNCHANGED provider

(* Mutant of Switch: it installs what was loaded before. *)
SwitchValidated(w) ==
  /\ w \in Updates /\ writer[w].pc = "switch"
  /\ provider' = "good" /\ Ends(w, "ok")
  /\ UNCHANGED table_file

(* ProviderHandle::switch loads it again, and keeps the table it had when   *)
(* that fails.                                                              *)
Switch(w) ==
  /\ w \in Updates /\ writer[w].pc = "switch"
  /\ IF table_file = "good" THEN provider' = "good" /\ Ends(w, "ok")
     ELSE UNCHANGED provider /\ Ends(w, "failed")
  /\ UNCHANGED table_file

(* The panel starts with what is on disk; its updates are gone, and one of  *)
(* them may have been writing.                                              *)
TablePanelRestarts ==
  /\ table_file' \in {table_file} \cup
       (IF table_file # "none" /\ \E w \in Updates : writer[w].pc = "writing"
        THEN {"bad"} ELSE {})
  /\ provider' = IF table_file' = "good" THEN "good" ELSE "stub"
  /\ writer' = [w \in Writers |-> IF w \in Updates THEN Resting ELSE writer[w]]
  /\ last_result' = "none"

TableNext ==
  \/ \E w \in Writers :
       \/ Download(w) \/ WriteTable(w) \/ WritesTable(w)
       \/ Validate(w) \/ RemoveTable(w) \/ Switch(w)
  \/ TablePanelRestarts

TableSpec == TableInit /\ [][TableNext]_gvars

-----------------------------------------------------------------------------
(* lib.rs:137-139: a downloaded table survives a restart.  When the last    *)
(* writer to end has ended well and nobody writes since, the file is a      *)
(* table, whatever other writers did before.                                *)
OkMeansKept ==
  (last_result = "ok" /\ \A w \in Writers : writer[w].pc \in {"idle", "write"})
    => table_file = "good"
=============================================================================
