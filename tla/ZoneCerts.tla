----------------------------- MODULE ZoneCerts -----------------------------
(***************************************************************************)
(* The certificates of the zones (crates/panel/src/certs.rs, acme.rs): each *)
(* is ordered for a zone's name, proved by a TXT value that the panel's own *)
(* resolver answers (state.rs, acme_challenges; dns/handler.rs), saved as a *)
(* certificate and a key in a file each, kept in memory, and pushed to the  *)
(* nodes of the zone.  A loop renews what is due; zone_cert_issue and       *)
(* create_zone (api.rs) order at any time, side by side with it.            *)
(*                                                                          *)
(* A certificate is told apart by who ordered it last.  Left out: the ACME  *)
(* account, the panel's own certificate, which takes the same steps with    *)
(* its TXT value at Cloudflare (CfRecords), and the nodes (ConfigSync).     *)
(***************************************************************************)
EXTENDS Sequences, SequencesExt

CONSTANTS
  ZoneOrder,        \* the names of the zones, in the order of their rows
  Delegated,        \* those whose queries reach the panel's resolver
  Requests,         \* orders by request that may be under way at once
  Loop,             \* the renewal loop
  Nobody

Domains == ToSet(ZoneOrder)
Issuers == Requests \cup {Loop}

ASSUME IssuersAssumption == Loop \notin Requests /\ Nobody \notin Issuers
ASSUME DelegatedAssumption == Delegated \subseteq Domains

VARIABLES
  txt,              \* whose TXT value the resolver answers for a zone
  crt,              \* the certificate file: "none", "due" or "valid",
  half,             \* who wrote it last, with the key still to come,
  matched,          \* and whether the key file belongs to it
  mem,              \* the pair in memory: the same, or "mismatched"
  sent,             \* whether the zone's nodes have been sent what memory has
  listed,           \* which zones are in the resolver's list (ZoneStore)
  cf_set,           \* whether there are Cloudflare settings (CfSettings)
  issuer,           \* [pc, domain, left]: where each order is
  torn,             \* history: zones whose pair on disk may not match
  quiet             \* from here on nothing fails, is set or asked for

cvars == <<txt, crt, half, matched, mem, sent, listed, cf_set, issuer, torn, quiet>>

NoOrder == [pc |-> "idle", domain |-> Nobody, left |-> << >>]

(* load_existing_zone_certs: the pairs that can be read, matching or not;   *)
(* nothing without settings, or when the zones cannot be listed.            *)
Loads(file, pairs, listing) ==
  [d \in Domains |-> IF ~listing THEN "none"
                     ELSE IF file[d] # "none" /\ ~pairs[d] THEN "mismatched" ELSE file[d]]

CertsInit ==
  /\ txt = [d \in Domains |-> Nobody]
  /\ crt \in [Domains -> {"none", "due"}]
  /\ half = [d \in Domains |-> Nobody]
  /\ matched = [d \in Domains |-> crt[d] # "none"]
  /\ cf_set \in BOOLEAN
  /\ mem = Loads(crt, matched, cf_set)
  /\ sent = [d \in Domains |-> TRUE]
  /\ listed = Delegated
  /\ issuer = [i \in Issuers |-> NoOrder]
  /\ torn = {}
  /\ quiet = FALSE

files == <<crt, half, matched, torn>>
memory == <<mem, sent>>
settled == <<listed, cf_set>>

OrderMoves(i, pc) == issuer' = [issuer EXCEPT ![i].pc = pc]

(* Mutant of Ends: one failure ends the round. *)
EndsRound(i) == issuer' = [issuer EXCEPT ![i] = NoOrder]

(* The end of an order.  The loop takes up the next zone, whatever it was.  *)
Ends(i) == issuer' = [issuer EXCEPT ![i] =
             IF i = Loop THEN [pc |-> "next", domain |-> Nobody, left |-> Tail(@.left)]
             ELSE NoOrder]

At(i, pc) == issuer[i].pc = pc

-----------------------------------------------------------------------------
(* renew_due_zone_certs, at startup and every 12 hours.  Without settings,  *)
(* or when the zones cannot be listed, the round does nothing.              *)

LoopStarts ==
  /\ At(Loop, "idle") /\ cf_set
  /\ issuer' = [issuer EXCEPT ![Loop] = [pc |-> "next", domain |-> Nobody, left |-> ZoneOrder]]
  /\ UNCHANGED <<txt, files, memory, settled, quiet>>

(* needs_renewal looks at the certificate file alone; an order without      *)
(* settings fails at once.                                                  *)
LoopTakesNext ==
  /\ At(Loop, "next")
  /\ LET left == issuer[Loop].left
     IN  issuer' = [issuer EXCEPT ![Loop] =
           IF left = << >> THEN NoOrder
           ELSE IF crt[Head(left)] = "valid" \/ ~cf_set THEN [@ EXCEPT !.left = Tail(left)]
           ELSE [pc |-> "order", domain |-> Head(left), left |-> left]]
  /\ UNCHANGED <<txt, files, memory, settled, quiet>>

(* zone_cert_issue, or the task create_zone spawns; due or not.             *)
RequestStarts(i) ==
  /\ i \in Requests /\ At(i, "idle") /\ ~quiet /\ cf_set
  /\ \E d \in Domains :
       issuer' = [issuer EXCEPT ![i] = [pc |-> "order", domain |-> d, left |-> << >>]]
  /\ UNCHANGED <<txt, files, memory, settled, quiet>>

-----------------------------------------------------------------------------
(* issue_zone_cert and issue_cert_inner, of the zone d.  An error ends the  *)
(* order where it is, and its TXT value stays.                              *)

Fails(i) ==
  /\ issuer[i].pc \in {"order", "wait", "final"} /\ ~quiet
  /\ Ends(i)
  /\ UNCHANGED <<txt, files, memory, settled, quiet>>

(* The client of zone_cert_issue hangs up, with the pair written and not    *)
(* yet installed, or not sent: the loop finds the file renewed.             *)
HangsUp(i) ==
  /\ i \in Requests /\ issuer[i].pc \in {"mem", "push"} /\ ~quiet
  /\ Ends(i)
  /\ UNCHANGED <<txt, files, memory, settled, quiet>>

(* One value per name: the last one to be published is answered.            *)
Publish(i) ==
  /\ At(i, "order") /\ OrderMoves(i, "wait")
  /\ txt' = [txt EXCEPT ![issuer[i].domain] = i]
  /\ UNCHANGED <<files, memory, settled, quiet>>

(* The CA asks, and finds the value of this order or not. *)
Validate(i) ==
  LET d == issuer[i].domain
  IN  /\ At(i, "wait")
      /\ IF d \in Delegated /\ txt[d] = i THEN OrderMoves(i, "final") ELSE Ends(i)
      /\ UNCHANGED <<txt, files, memory, settled, quiet>>

(* The certificate is downloaded, and the name's TXT value removed, whoever *)
(* it is of.                                                                *)
DownloadCert(i) ==
  /\ At(i, "final") /\ OrderMoves(i, "crt")
  /\ txt' = [txt EXCEPT ![issuer[i].domain] = Nobody]
  /\ UNCHANGED <<files, memory, settled, quiet>>

Tear(d) == torn' = torn \cup {d}

(* Mutant of WriteCrt: the key is only written if there is none. *)
WriteCrtAlone(i) ==
  LET d == issuer[i].domain
  IN  /\ At(i, "crt")
      /\ crt' = [crt EXCEPT ![d] = "valid"] /\ half' = [half EXCEPT ![d] = i]
      /\ matched' = [matched EXCEPT ![d] = (crt[d] = "none")]
      /\ OrderMoves(i, "mem")
      /\ UNCHANGED <<txt, memory, torn, settled, quiet>>

WriteCrt(i) ==
  LET d == issuer[i].domain
  IN  /\ At(i, "crt")
      /\ crt' = [crt EXCEPT ![d] = "valid"] /\ half' = [half EXCEPT ![d] = i]
      /\ matched' = [matched EXCEPT ![d] = FALSE]
      /\ OrderMoves(i, "key")
      /\ IF \E k \in Issuers \ {i} : issuer[k].domain = d /\ issuer[k].pc \in {"crt", "key"}
         THEN Tear(d) ELSE UNCHANGED torn
      /\ UNCHANGED <<txt, memory, settled, quiet>>

WriteKey(i) ==
  LET d == issuer[i].domain
  IN  /\ At(i, "key")
      /\ matched' = [matched EXCEPT ![d] = (half[d] = i)]
      /\ half' = [half EXCEPT ![d] = IF @ = i THEN Nobody ELSE @]
      /\ OrderMoves(i, "mem")
      /\ UNCHANGED <<txt, crt, torn, memory, settled, quiet>>

(* A write fails: the order is lost to memory and nodes, and what is        *)
(* written of it stays.  The file is as it was, or it is cut short: then    *)
(* the certificate cannot be read, or the key is none.                      *)
PairWriteFails(i) ==
  LET d == issuer[i].domain
  IN  /\ issuer[i].pc \in {"crt", "key"} /\ ~quiet
      /\ \/ UNCHANGED <<crt, matched>>
         \/ /\ matched' = [matched EXCEPT ![d] = FALSE]
            /\ crt' = [crt EXCEPT ![d] = IF At(i, "crt") THEN "none" ELSE @]
      /\ Tear(d) /\ Ends(i)
      /\ UNCHANGED <<txt, half, memory, settled, quiet>>

(* set_zone_cert: the pair as it was issued, whatever the files are.        *)
SetZoneCert(i) ==
  LET d == issuer[i].domain
  IN  /\ At(i, "mem") /\ OrderMoves(i, "push")
      /\ mem' = [mem EXCEPT ![d] = "valid"]
      /\ sent' = [sent EXCEPT ![d] = FALSE]
      /\ UNCHANGED <<txt, files, settled, quiet>>

(* repush_zone_nodes: of a zone the resolver's list does not have, no node  *)
(* is known.  A push whose reads fail is not made.                          *)
RepushNodes(i) ==
  LET d == issuer[i].domain
  IN  /\ At(i, "push") /\ Ends(i)
      /\ \/ sent' = [sent EXCEPT ![d] = @ \/ d \in listed]
         \/ ~quiet /\ UNCHANGED sent
      /\ UNCHANGED <<txt, files, mem, settled, quiet>>

-----------------------------------------------------------------------------
(* Time passes; the zones and the settings change; another push to the      *)
(* nodes of a zone; the panel restarts and loads what is on disk.           *)

(* The 60 days of a certificate are longer than any order.                  *)
Expires(d) ==
  /\ crt[d] = "valid" /\ \A i \in Issuers : issuer[i].domain # d
  /\ crt' = [crt EXCEPT ![d] = "due"]
  /\ mem' = [mem EXCEPT ![d] = IF @ = "valid" THEN "due" ELSE @]
  /\ UNCHANGED <<txt, half, matched, torn, sent, settled, issuer, quiet>>

Changes ==
  /\ ~quiet
  /\ \/ \E d \in Delegated : listed' \in {listed \cup {d}, listed \ {d}} /\ UNCHANGED cf_set
     \/ cf_set' = ~cf_set /\ UNCHANGED listed
  /\ UNCHANGED <<txt, files, memory, issuer, quiet>>

OtherPush(d) ==
  /\ d \in listed /\ ~sent[d] /\ sent' = [sent EXCEPT ![d] = TRUE]
  /\ UNCHANGED <<txt, files, mem, settled, issuer, quiet>>

(* Mid-write is where a stop shows later: in the certificate, which is then *)
(* unreadable, or between the two files.                                    *)
CertsRestart ==
  /\ ~quiet
  /\ txt' = [d \in Domains |-> Nobody]
  /\ \E cut \in SUBSET {issuer[i].domain : i \in {k \in Issuers : At(k, "crt")}} :
       crt' = [d \in Domains |-> IF d \in cut THEN "none" ELSE crt[d]]
  /\ cf_set' \in {cf_set, TRUE} /\ listed' = Delegated
  /\ \E listing \in BOOLEAN : mem' = Loads(crt', matched, cf_set' /\ listing)
  /\ sent' = [d \in Domains |-> TRUE]
  /\ torn' = torn \cup {issuer[i].domain : i \in {k \in Issuers : At(k, "key")}}
  /\ half' = [d \in Domains |-> Nobody]
  /\ issuer' = [i \in Issuers |-> NoOrder]
  /\ UNCHANGED <<matched, quiet>>

Quiets == ~quiet /\ cf_set /\ quiet' = TRUE /\ UNCHANGED <<txt, files, memory, settled, issuer>>

OrderStep(i) ==
  \/ Publish(i) \/ Validate(i) \/ DownloadCert(i) \/ WriteCrt(i) \/ WriteKey(i)
  \/ SetZoneCert(i) \/ RepushNodes(i)

CertsNext ==
  \/ LoopStarts \/ LoopTakesNext
  \/ \E i \in Issuers : RequestStarts(i) \/ OrderStep(i)
                        \/ Fails(i) \/ HangsUp(i) \/ PairWriteFails(i)
  \/ \E d \in Domains : Expires(d) \/ OtherPush(d)
  \/ Changes \/ CertsRestart \/ Quiets

(* Tasks run, and the loop's timer ticks. *)
CertsFairness ==
  /\ WF_cvars(LoopStarts) /\ WF_cvars(LoopTakesNext)
  /\ \A i \in Issuers : WF_cvars(OrderStep(i))

CertsSpec == CertsInit /\ [][CertsNext]_cvars /\ CertsFairness

-----------------------------------------------------------------------------
CertsTypeOK ==
  /\ txt \in [Domains -> Issuers \cup {Nobody}] /\ half \in [Domains -> Issuers \cup {Nobody}]
  /\ crt \in [Domains -> {"none", "due", "valid"}] /\ matched \in [Domains -> BOOLEAN]
  /\ mem \in [Domains -> {"none", "due", "valid", "mismatched"}] /\ sent \in [Domains -> BOOLEAN]
  /\ listed \subseteq Delegated /\ torn \subseteq Domains
  /\ cf_set \in BOOLEAN /\ quiet \in BOOLEAN
  /\ issuer \in [Issuers -> [pc : {"idle", "next", "order", "wait", "final", "crt", "key", "mem", "push"},
                             domain : Domains \cup {Nobody}, left : Seq(Domains)]]

(* certs.rs:17-19, and load_existing_zone_certs: the pair in memory is one  *)
(* a relay can serve with, after a restart as well, unless two orders wrote *)
(* the same files at once, or one stopped or failed between the two.        *)
PairsMatch == \A d \in Domains : mem[d] = "mismatched" => d \in torn

(* certs.rs:58-60: each zone is independent.  With settings, and with       *)
(* nothing else in the way, a due certificate is replaced, and the new one  *)
(* installed and sent to the zone's nodes, although the zone before it in   *)
(* the round fails every time.                                              *)
DueIsRenewed ==
  \A d \in Delegated :
    (quiet /\ crt[d] # "valid")
      ~> (crt[d] = "valid" /\ mem[d] = "valid" /\ (sent[d] \/ d \notin listed))
=============================================================================
