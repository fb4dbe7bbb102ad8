----------------------------- MODULE PanelProofs -----------------------------
(***************************************************************************)
(* Proofs about the panel's tasks that touch no state of each other: the    *)
(* certificates, the rows of the rules, the operator's account, the new     *)
(* binaries, the resolution of host names, the Cloudflare settings.  Each   *)
(* part is proved for itself, for any number of requests, zones, nodes,     *)
(* sockets, sessions, agents and names.                                     *)
(***************************************************************************)
EXTENDS ZoneCerts, RuleAdmin, Accounts, Updates, Ddns, CfSettings, SequenceTheorems, TLAPS

-----------------------------------------------------------------------------
(* Certificates *)

CertsTyped ==
  /\ DOMAIN issuer = Issuers
  /\ \A i \in Issuers :
       issuer[i] = [pc |-> issuer[i].pc, domain |-> issuer[i].domain, left |-> issuer[i].left]
  /\ DOMAIN crt = Domains /\ DOMAIN half = Domains /\ DOMAIN matched = Domains
  /\ DOMAIN mem = Domains /\ \A d \in Domains : crt[d] \in {"none", "due", "valid"}

(* The order that is between its two files. *)
Between(i, d) == issuer[i].pc = "key" /\ issuer[i].domain = d

(* Of a zone whose files have not been torn, one order at most is between   *)
(* the two, and it is the one that wrote the certificate ...                *)
OneBetween ==
  \A d \in Domains \ torn, i \in Issuers : Between(i, d) => half[d] = i

(* ... and a key that is not the certificate's has that order to replace it.*)
KeyComes ==
  \A d \in Domains \ torn :
    matched[d] \/ crt[d] = "none" \/ \E i \in Issuers : Between(i, d)

CertsInv == CertsTyped /\ OneBetween /\ KeyComes /\ PairsMatch

-----------------------------------------------------------------------------
LEMMA CertsInitInv == CertsInit => CertsInv
<1> SUFFICES ASSUME CertsInit PROVE CertsInv
  OBVIOUS
<1>1. DOMAIN crt = Domains
  BY DEF CertsInit
<1>2. \A i \in Issuers : issuer[i].pc = "idle"
  BY DEF CertsInit, NoOrder
<1>3. \A d \in Domains : mem[d] # "mismatched" /\ (matched[d] \/ crt[d] = "none")
  BY DEF CertsInit, Loads
<1>4. CertsTyped
  BY <1>1 DEF CertsInit, CertsTyped, NoOrder, Loads
<1> QED
  BY <1>2, <1>3, <1>4 DEF CertsInv, OneBetween, KeyComes, PairsMatch, Between

(* A step that leaves the files alone, and takes no order to or from the    *)
(* place between them.                                                      *)
LEMMA FilesAlone ==
  ASSUME CertsInv, UNCHANGED files, CertsTyped', PairsMatch',
         \A i \in Issuers, d \in Domains : Between(i, d)' <=> Between(i, d)
  PROVE  CertsInv'
  BY DEF CertsInv, files, OneBetween, KeyComes

(* One order moves on, or ends: the others stay where they are. *)
LEMMA OrderGoes ==
  ASSUME CertsTyped, NEW i \in Issuers, NEW pc, OrderMoves(i, pc)
  PROVE  /\ DOMAIN issuer' = Issuers
         /\ \A k \in Issuers : issuer'[k] = [pc |-> issuer'[k].pc, domain |-> issuer'[k].domain,
                                             left |-> issuer'[k].left]
         /\ issuer'[i].pc = pc /\ issuer'[i].domain = issuer[i].domain
         /\ \A k \in Issuers \ {i} : issuer'[k] = issuer[k]
  BY DEF CertsTyped, OrderMoves

LEMMA OrderEnds ==
  ASSUME CertsTyped, NEW i \in Issuers, Ends(i)
  PROVE  /\ DOMAIN issuer' = Issuers
         /\ \A k \in Issuers : issuer'[k] = [pc |-> issuer'[k].pc, domain |-> issuer'[k].domain,
                                             left |-> issuer'[k].left]
         /\ issuer'[i].pc \in {"next", "idle"}
         /\ \A k \in Issuers \ {i} : issuer'[k] = issuer[k]
  BY DEF CertsTyped, Ends, NoOrder

(* The steps of an order before and after its two files. *)
LEMMA OtherSteps ==
  ASSUME CertsInv, NEW i \in Issuers,
         \/ RequestStarts(i) \/ Publish(i) \/ Validate(i) \/ DownloadCert(i)
         \/ SetZoneCert(i) \/ RepushNodes(i) \/ Fails(i) \/ HangsUp(i)
  PROVE  CertsInv'
<1>1. UNCHANGED files /\ issuer[i].pc # "key"
  BY DEF RequestStarts, Publish, Validate, DownloadCert, SetZoneCert, RepushNodes, Fails, HangsUp,
         files, At
<1>2. /\ DOMAIN issuer' = Issuers
      /\ \A k \in Issuers : issuer'[k] = [pc |-> issuer'[k].pc, domain |-> issuer'[k].domain,
                                          left |-> issuer'[k].left]
      /\ issuer'[i].pc # "key"
      /\ \A k \in Issuers \ {i} : issuer'[k] = issuer[k]
  <2>1. CASE RequestStarts(i)
    BY <2>1 DEF CertsInv, CertsTyped, RequestStarts
  <2>2. CASE Publish(i)
    BY <2>2, OrderGoes DEF CertsInv, Publish
  <2>3. CASE Validate(i)
    BY <2>3, OrderGoes, OrderEnds DEF CertsInv, Validate
  <2>4. CASE DownloadCert(i)
    BY <2>4, OrderGoes DEF CertsInv, DownloadCert
  <2>5. CASE SetZoneCert(i)
    BY <2>5, OrderGoes DEF CertsInv, SetZoneCert
  <2>6. CASE RepushNodes(i) \/ Fails(i) \/ HangsUp(i)
    BY <2>6, OrderEnds DEF CertsInv, RepushNodes, Fails, HangsUp
  <2> QED
    BY <2>1, <2>2, <2>3, <2>4, <2>5, <2>6
<1>3. DOMAIN mem' = Domains /\ \A d \in Domains : mem'[d] \in {mem[d], "valid"}
  BY DEF CertsInv, CertsTyped, RequestStarts, Publish, Validate, DownloadCert, SetZoneCert, RepushNodes,
         Fails, HangsUp, memory
<1>4. CertsTyped' /\ PairsMatch'
  BY <1>1, <1>2, <1>3 DEF CertsInv, CertsTyped, PairsMatch, files
<1>5. \A k \in Issuers, d \in Domains : Between(k, d)' <=> Between(k, d)
  BY <1>1, <1>2 DEF Between
<1> QED
  BY <1>1, <1>4, <1>5, FilesAlone

(* The certificate is written: who writes it while another order is about   *)
(* to, or has just, tears the pair.                                         *)
LEMMA WriteCrtInv == ASSUME CertsInv, NEW i \in Issuers, WriteCrt(i) PROVE CertsInv'
<1>1. PICK d : d = issuer[i].domain
  OBVIOUS
<1>2. /\ issuer[i].pc = "crt" /\ OrderMoves(i, "key")
      /\ crt' = [crt EXCEPT ![d] = "valid"] /\ half' = [half EXCEPT ![d] = i]
      /\ matched' = [matched EXCEPT ![d] = FALSE]
      /\ IF \E k \in Issuers \ {i} : issuer[k].domain = d /\ issuer[k].pc \in {"crt", "key"}
         THEN torn' = torn \cup {d} ELSE torn' = torn
      /\ mem' = mem
  BY <1>1 DEF WriteCrt, At, Tear, memory
<1>3. /\ DOMAIN issuer' = Issuers
      /\ \A k \in Issuers : issuer'[k] = [pc |-> issuer'[k].pc, domain |-> issuer'[k].domain,
                                          left |-> issuer'[k].left]
      /\ issuer'[i].pc = "key" /\ issuer'[i].domain = d
      /\ \A k \in Issuers \ {i} : issuer'[k] = issuer[k]
  BY <1>1, <1>2, OrderGoes DEF CertsInv
<1>4. CertsTyped' /\ PairsMatch'
  BY <1>2, <1>3 DEF CertsInv, CertsTyped, PairsMatch
<1>5. OneBetween'
  BY <1>2, <1>3 DEF CertsInv, CertsTyped, OneBetween, Between
<1>6. KeyComes'
  <2> SUFFICES ASSUME NEW e \in Domains \ torn'
               PROVE  matched'[e] \/ crt'[e] = "none" \/ \E k \in Issuers : Between(k, e)'
    BY DEF KeyComes
  <2>1. CASE e = d
    BY <1>3, <2>1 DEF Between
  <2>2. CASE e # d
    BY <1>2, <1>3, <2>2 DEF CertsInv, CertsTyped, KeyComes, Between
  <2> QED
    BY <2>1, <2>2
<1> QED
  BY <1>4, <1>5, <1>6 DEF CertsInv

(* The key is written: of a pair that is not torn, by the order that wrote  *)
(* the certificate.                                                         *)
LEMMA WriteKeyInv == ASSUME CertsInv, NEW i \in Issuers, WriteKey(i) PROVE CertsInv'
<1>1. PICK d : d = issuer[i].domain
  OBVIOUS
<1>2. /\ issuer[i].pc = "key" /\ OrderMoves(i, "mem")
      /\ matched' = [matched EXCEPT ![d] = (half[d] = i)]
      /\ half' = [half EXCEPT ![d] = IF @ = i THEN Nobody ELSE @]
      /\ UNCHANGED <<crt, torn, mem>>
  BY <1>1 DEF WriteKey, At, memory
<1>3. /\ DOMAIN issuer' = Issuers
      /\ \A k \in Issuers : issuer'[k] = [pc |-> issuer'[k].pc, domain |-> issuer'[k].domain,
                                          left |-> issuer'[k].left]
      /\ issuer'[i].pc = "mem"
      /\ \A k \in Issuers \ {i} : issuer'[k] = issuer[k]
  BY <1>2, OrderGoes DEF CertsInv
<1>4. CertsTyped' /\ PairsMatch'
  BY <1>2, <1>3 DEF CertsInv, CertsTyped, PairsMatch
<1>5. d \in Domains \ torn => half[d] = i /\ \A k \in Issuers \ {i} : ~Between(k, d)
  BY <1>1, <1>2 DEF CertsInv, OneBetween, Between
<1>6. OneBetween'
  <2> SUFFICES ASSUME NEW e \in Domains \ torn', NEW k \in Issuers, Between(k, e)'
               PROVE  half'[e] = k
    BY DEF OneBetween
  <2>1. k # i /\ Between(k, e)
    BY <1>3 DEF Between
  <2>2. e # d /\ half[e] = k
    BY <1>2, <1>5, <2>1 DEF CertsInv, OneBetween
  <2> QED
    BY <1>2, <2>2 DEF CertsInv, CertsTyped
<1>7. KeyComes'
  <2> SUFFICES ASSUME NEW e \in Domains \ torn'
               PROVE  matched'[e] \/ crt'[e] = "none" \/ \E k \in Issuers : Between(k, e)'
    BY DEF KeyComes
  <2>1. CASE e = d
    BY <1>2, <1>5, <2>1 DEF CertsInv, CertsTyped
  <2>2. CASE e # d
    BY <1>1, <1>2, <1>3, <2>2 DEF CertsInv, CertsTyped, KeyComes, Between
  <2> QED
    BY <2>1, <2>2
<1> QED
  BY <1>4, <1>6, <1>7 DEF CertsInv

LEMMA WriteFailsInv == ASSUME CertsInv, NEW i \in Issuers, PairWriteFails(i) PROVE CertsInv'
<1>1. PICK d : d = issuer[i].domain
  OBVIOUS
<1>2. /\ Ends(i) /\ torn' = torn \cup {d} /\ UNCHANGED <<half, mem>>
      /\ DOMAIN crt' = Domains /\ DOMAIN matched' = Domains
      /\ \A e \in Domains \ {d} : crt'[e] = crt[e] /\ matched'[e] = matched[e]
      /\ \A e \in Domains : crt'[e] \in {crt[e], "none"}
  BY <1>1 DEF PairWriteFails, Tear, memory, CertsInv, CertsTyped
<1>3. /\ DOMAIN issuer' = Issuers
      /\ \A k \in Issuers : issuer'[k] = [pc |-> issuer'[k].pc, domain |-> issuer'[k].domain,
                                          left |-> issuer'[k].left]
      /\ issuer'[i].pc # "key"
      /\ \A k \in Issuers \ {i} : issuer'[k] = issuer[k]
  BY <1>2, OrderEnds DEF CertsInv
<1>4. CertsTyped' /\ PairsMatch'
  BY <1>2, <1>3 DEF CertsInv, CertsTyped, PairsMatch
<1>5. OneBetween'
  BY <1>2, <1>3 DEF CertsInv, OneBetween, Between
<1>6. KeyComes'
  BY <1>1, <1>2, <1>3 DEF CertsInv, KeyComes, Between
<1> QED
  BY <1>4, <1>5, <1>6 DEF CertsInv

-----------------------------------------------------------------------------
(* A restart loads what is on disk: a key that was still to come never      *)
(* comes, and that pair is torn.                                            *)
LEMMA RestartInv == ASSUME CertsInv, CertsRestart PROVE CertsInv'
<1>1. /\ issuer' = [i \in Issuers |-> NoOrder] /\ half' = [d \in Domains |-> Nobody]
      /\ DOMAIN crt' = Domains /\ \A d \in Domains : crt'[d] \in {crt[d], "none"}
      /\ UNCHANGED matched
      /\ torn' = torn \cup {issuer[i].domain : i \in {k \in Issuers : At(k, "key")}}
  BY DEF CertsRestart
<1>7. /\ DOMAIN mem' = Domains
      /\ \A d \in Domains : mem'[d] = "mismatched" => ~matched[d] \/ crt'[d] = "mismatched"
  <2>1. PICK listing : mem' = Loads(crt', matched, listing)
    BY DEF CertsRestart
  <2> QED
    BY <2>1 DEF Loads
<1>2. \A d \in Domains \ torn' : ~\E i \in Issuers : Between(i, d)
  BY <1>1 DEF Between, At
<1>3. \A d \in Domains \ torn' : matched[d] \/ crt'[d] = "none"
  BY <1>1, <1>2 DEF CertsInv, KeyComes
<1>4. CertsTyped'
  BY <1>1, <1>7 DEF CertsInv, CertsTyped, NoOrder
<1>5. PairsMatch'
  <2>1. \A d \in Domains : crt'[d] # "mismatched"
    BY <1>1 DEF CertsInv, CertsTyped
  <2>2. \A d \in Domains \ torn' : mem'[d] = "mismatched" => crt'[d] = "none"
    BY <1>3, <1>7, <2>1
  <2>3. \A d \in Domains : mem'[d] = "mismatched" => crt'[d] # "none"
    BY DEF CertsRestart, Loads
  <2> QED
    BY <2>2, <2>3 DEF PairsMatch
<1>6. OneBetween' /\ KeyComes'
  BY <1>1, <1>3 DEF OneBetween, KeyComes, Between, NoOrder
<1> QED
  BY <1>4, <1>5, <1>6 DEF CertsInv

(* The loop, time, and the rest. *)
LEMMA RestInv ==
  ASSUME CertsInv,
         \/ LoopStarts \/ LoopTakesNext \/ Changes \/ Quiets \/ UNCHANGED cvars
         \/ \E d \in Domains : Expires(d) \/ OtherPush(d)
  PROVE  CertsInv'
<1>1. CASE LoopStarts
  <2>1. /\ \A k \in Issuers \ {Loop} : issuer'[k] = issuer[k]
        /\ issuer'[Loop] = [pc |-> "next", domain |-> Nobody, left |-> ZoneOrder]
        /\ issuer[Loop].pc = "idle" /\ DOMAIN issuer' = Issuers /\ UNCHANGED <<files, mem>>
    BY <1>1 DEF LoopStarts, At, memory, CertsInv, CertsTyped, Issuers
  <2>2. CertsTyped' /\ PairsMatch'
    BY <2>1 DEF CertsInv, CertsTyped, PairsMatch, files
  <2>3. \A k \in Issuers, d \in Domains : Between(k, d)' <=> Between(k, d)
    BY <2>1 DEF Between
  <2> QED
    BY <2>1, <2>2, <2>3, FilesAlone
<1>2. CASE LoopTakesNext
  <2>1. /\ \A k \in Issuers \ {Loop} : issuer'[k] = issuer[k]
        /\ issuer'[Loop].pc # "key" /\ issuer[Loop].pc = "next"
        /\ issuer'[Loop] = [pc |-> issuer'[Loop].pc, domain |-> issuer'[Loop].domain,
                            left |-> issuer'[Loop].left]
        /\ DOMAIN issuer' = Issuers /\ UNCHANGED <<files, mem>>
    <3>1. \E r \in {NoOrder, [issuer[Loop] EXCEPT !.left = Tail(issuer[Loop].left)],
                    [pc |-> "order", domain |-> Head(issuer[Loop].left),
                     left |-> issuer[Loop].left]} :
            issuer' = [issuer EXCEPT ![Loop] = r]
      BY <1>2 DEF LoopTakesNext, CertsInv, CertsTyped, Issuers
    <3>2. Loop \in Issuers /\ issuer[Loop].pc = "next" /\ UNCHANGED <<files, mem>>
      BY <1>2 DEF LoopTakesNext, At, memory, Issuers
    <3> QED
      BY <3>1, <3>2 DEF CertsInv, CertsTyped, NoOrder
  <2>2. CertsTyped' /\ PairsMatch'
    BY <2>1 DEF CertsInv, CertsTyped, PairsMatch, files
  <2>3. \A k \in Issuers, d \in Domains : Between(k, d)' <=> Between(k, d)
    BY <2>1 DEF Between
  <2> QED
    BY <2>1, <2>2, <2>3, FilesAlone
<1>3. CASE \E d \in Domains : Expires(d)
  <2>1. PICK d \in Domains : Expires(d)
    BY <1>3
  <2>2. /\ crt[d] = "valid" /\ crt' = [crt EXCEPT ![d] = "due"]
        /\ DOMAIN mem' = Domains /\ \A e \in Domains : mem'[e] \in {mem[e], "due"}
        /\ UNCHANGED <<half, matched, torn, issuer>>
    BY <2>1 DEF Expires, CertsInv, CertsTyped
  <2> QED
    BY <2>2 DEF CertsInv, CertsTyped, OneBetween, KeyComes, PairsMatch, Between
<1>4. CASE Changes \/ Quiets \/ UNCHANGED cvars \/ \E d \in Domains : OtherPush(d)
  <2>1. UNCHANGED <<crt, half, matched, torn, mem, issuer>>
    BY <1>4 DEF Changes, Quiets, OtherPush, cvars, files, memory
  <2> QED
    BY <2>1 DEF CertsInv, CertsTyped, OneBetween, KeyComes, PairsMatch, Between
<1> QED
  BY <1>1, <1>2, <1>3, <1>4

-----------------------------------------------------------------------------
(* Unless a pair was torn, what the panel has in memory of it matches,      *)
(* after restarts as well: for any zones and any number of orders.          *)
THEOREM PairsAlwaysMatch == CertsSpec => []PairsMatch
<1>1. CertsInv /\ [CertsNext]_cvars => CertsInv'
  <2> SUFFICES ASSUME CertsInv, CertsNext PROVE CertsInv'
    BY RestInv
  <2>1. ASSUME NEW i \in Issuers, RequestStarts(i) \/ OrderStep(i) \/ Fails(i) \/ HangsUp(i) \/ PairWriteFails(i)
        PROVE  CertsInv'
    BY <2>1, OtherSteps, WriteCrtInv, WriteKeyInv, WriteFailsInv DEF OrderStep
  <2> QED
    BY <2>1, RestInv, RestartInv DEF CertsNext
<1>2. CertsInv => PairsMatch
  BY DEF CertsInv
<1> QED
  BY CertsInitInv, <1>1, <1>2, PTL DEF CertsSpec

-----------------------------------------------------------------------------
(* Rule rows *)

(* What a request found when it checked still holds when it saves, unless   *)
(* another request has saved a rule for that socket in between: then it was *)
(* seen there, and the socket counts as contested.                          *)
CheckedStaysFree ==
  \A e \in Editors, to \in (FrontNodes \X Sockets) \ contested :
    editor[e].pc # "idle" /\ editor[e].to = to => Holders(to) \subseteq {editor[e].id}

RulesInv == RulesTypeOK /\ CheckedStaysFree /\ UniqueListenSockets

-----------------------------------------------------------------------------
LEMMA RulesInitInv == RulesInit => RulesInv
  BY CopiesAssumption, NoRuleAssumption
     DEF RulesInit, RulesInv, RulesTypeOK, CheckedStaysFree, UniqueListenSockets, Holders, NoRequest

(* The steps that change no row and contest no socket: a request that has   *)
(* just checked its socket, or one that goes on or gives up.                *)
LEMMA EditorMoves ==
  ASSUME RulesInv, NEW e \in Editors, NEW request \in {NoRequest} \cup Request,
         Proceed(e, request), UNCHANGED <<rule, contested>>, used' \subseteq Rules,
         request.pc # "idle" /\ request.to \notin contested
           => Holders(request.to) \subseteq {request.id}
  PROVE  RulesInv'
<1>1. editor' \in [Editors -> {NoRequest} \cup Request]
  BY DEF RulesInv, RulesTypeOK, Proceed
<1>2. \A k \in Editors : editor'[k] = IF k = e THEN request ELSE editor[k]
  BY DEF RulesInv, RulesTypeOK, Proceed
<1>3. \A to : Holders(to)' = Holders(to)
  BY DEF Holders
<1>4. CheckedStaysFree'
  BY <1>2, <1>3 DEF RulesInv, CheckedStaysFree
<1>5. UniqueListenSockets'
  BY <1>3 DEF RulesInv, UniqueListenSockets
<1> QED
  BY <1>1, <1>4, <1>5 DEF RulesInv, RulesTypeOK

LEMMA CreateInv == ASSUME RulesInv, NEW e \in Editors, CreateStarts(e) PROVE RulesInv'
<1>1. PICK id \in Rules \ used, to \in FrontNodes \X Sockets, copies \in Copies :
        /\ Free(id, to) /\ used' = used \cup {id}
        /\ Proceed(e, [pc |-> "save", id |-> id, to |-> to, copies |-> copies])
  BY DEF CreateStarts
<1> DEFINE request == [pc |-> "save", id |-> id, to |-> to, copies |-> copies]
<1>2. request \in Request /\ Holders(request.to) \subseteq {request.id}
  BY <1>1 DEF Request, Free
<1>3. used' \subseteq Rules
  BY <1>1 DEF RulesInv, RulesTypeOK
<1> QED
  BY <1>1, <1>2, <1>3, EditorMoves DEF CreateStarts

LEMMA UpdateInv == ASSUME RulesInv, NEW e \in Editors, UpdateStarts(e) PROVE RulesInv'
<1>1. PICK id \in used, to \in FrontNodes \X Sockets, copies \in Copies \cup {Omitted} :
        /\ Free(id, to)
        /\ Proceed(e, [pc |-> IF copies = Omitted THEN "checked" ELSE "save",
                       id |-> id, to |-> to, copies |-> copies])
  BY DEF UpdateStarts
<1> DEFINE request == [pc |-> IF copies = Omitted THEN "checked" ELSE "save",
                       id |-> id, to |-> to, copies |-> copies]
<1>2. request \in Request /\ Holders(request.to) \subseteq {request.id}
  BY <1>1 DEF Request, Free, RulesInv, RulesTypeOK
<1> QED
  BY <1>1, <1>2, EditorMoves DEF UpdateStarts, RulesInv, RulesTypeOK

LEMMA ReadInv == ASSUME RulesInv, NEW e \in Editors, ReadCopies(e) PROVE RulesInv'
<1> DEFINE request == [editor[e] EXCEPT !.pc = "save", !.copies = CopiesOf(editor[e].id)]
<1>1. editor[e] \in Request
  BY DEF ReadCopies, RulesInv, RulesTypeOK, NoRequest
<1>2. CopiesOf(editor[e].id) \in Copies
  BY <1>1, CopiesAssumption, NoRuleAssumption DEF CopiesOf, Request, Rule, RulesInv, RulesTypeOK
<1>3. /\ request \in Request /\ request.to = editor[e].to /\ request.id = editor[e].id
      /\ editor[e].pc # "idle" /\ editor[e].to \in FrontNodes \X Sockets
  BY <1>1, <1>2 DEF Request
<1>4. request.to \notin contested => Holders(request.to) \subseteq {request.id}
  BY <1>3 DEF RulesInv, CheckedStaysFree
<1> QED
  BY <1>3, <1>4, EditorMoves DEF ReadCopies, RulesInv, RulesTypeOK

LEMMA GivesInv == ASSUME RulesInv, NEW e \in Editors, Gives(e) PROVE RulesInv'
  BY EditorMoves DEF Gives, NoRequest, RulesInv, RulesTypeOK

(* The step that matters: a row is written, and its socket has no other     *)
(* holder, or the request that wrote that one is still to be seen.          *)
LEMMA SaveInv == ASSUME RulesInv, NEW e \in Editors, Save(e) PROVE RulesInv'
<1>1. editor[e] \in Request /\ editor[e].pc = "save"
  BY DEF Save, RulesInv, RulesTypeOK, NoRequest
<1>2. PICK id \in Rules, to \in FrontNodes \X Sockets, copies \in Copies :
        editor[e] = [pc |-> "save", id |-> id, to |-> to, copies |-> copies]
  BY <1>1 DEF Request
<1> DEFINE row == [node |-> to[1], socket |-> to[2], copies |-> copies]
<1>3. row \in Rule
  BY DEF Rule
<1>4. /\ rule' = [rule EXCEPT ![id] = row]
      /\ editor' = [editor EXCEPT ![e] = NoRequest] /\ used' = used
      /\ \A o \in Editors \ {e} :
           editor[o].pc # "idle" /\ editor[o].to = to /\ editor[o].id # id => to \in contested'
      /\ contested \subseteq contested' /\ contested' \subseteq contested \cup {to}
  BY <1>2 DEF Save
<1>5. RulesTypeOK'
  BY <1>2, <1>3, <1>4 DEF RulesInv, RulesTypeOK
<1>6. /\ Holders(to)' \subseteq Holders(to) \cup {id}
      /\ \A other : other # to => Holders(other)' \subseteq Holders(other)
  <2>1. \A i \in Rules : rule'[i] = IF i = id THEN row ELSE rule[i]
    BY <1>4 DEF RulesInv, RulesTypeOK
  <2>2. row # NoRule /\ <<row.node, row.socket>> = to
    BY <1>3, NoRuleAssumption
  <2> QED
    BY <2>1, <2>2 DEF Holders
<1>7. to \notin contested' => Holders(to)' \subseteq {id}
  BY <1>2, <1>4, <1>6 DEF RulesInv, CheckedStaysFree
<1>8. UniqueListenSockets'
  <2> SUFFICES ASSUME NEW other \in (FrontNodes \X Sockets) \ contested',
                      NEW i \in Holders(other)', NEW k \in Holders(other)'
               PROVE  i = k
    BY DEF UniqueListenSockets
  <2>1. CASE other = to
    BY <1>7, <2>1
  <2>2. CASE other # to
    BY <1>4, <1>6, <2>2 DEF RulesInv, UniqueListenSockets
  <2> QED
    BY <2>1, <2>2
<1>9. CheckedStaysFree'
  <2> SUFFICES ASSUME NEW o \in Editors, NEW other \in (FrontNodes \X Sockets) \ contested',
                      editor'[o].pc # "idle", editor'[o].to = other
               PROVE  Holders(other)' \subseteq {editor'[o].id}
    BY DEF CheckedStaysFree
  <2>1. o # e /\ editor'[o] = editor[o]
    BY <1>4 DEF NoRequest, RulesInv, RulesTypeOK
  <2>2. CASE other = to
    BY <1>4, <1>7, <2>1, <2>2
  <2>3. CASE other # to
    <3>1. Holders(other) \subseteq {editor[o].id}
      BY <1>4, <2>1 DEF RulesInv, CheckedStaysFree
    <3> QED
      BY <1>6, <2>1, <2>3, <3>1
  <2> QED
    BY <2>2, <2>3
<1> QED
  BY <1>5, <1>8, <1>9 DEF RulesInv

LEMMA DeleteInv == ASSUME RulesInv, DeleteRule PROVE RulesInv'
<1>1. PICK id \in used : rule' = [rule EXCEPT ![id] = NoRule]
  BY DEF DeleteRule
<1>2. UNCHANGED <<used, editor, contested>>
  BY DEF DeleteRule
<1>3. \A to : Holders(to)' \subseteq Holders(to)
  BY <1>1 DEF Holders, RulesInv, RulesTypeOK
<1>4. RulesTypeOK'
  BY <1>1, <1>2 DEF RulesInv, RulesTypeOK
<1>5. CheckedStaysFree'
  BY <1>2, <1>3 DEF RulesInv, CheckedStaysFree
<1>6. UniqueListenSockets'
  BY <1>2, <1>3 DEF RulesInv, UniqueListenSockets
<1> QED
  BY <1>4, <1>5, <1>6 DEF RulesInv

(* No two rules of a node share a listening socket, unless two requests     *)
(* were after it at once: for any number of rules, requests and sockets.    *)
THEOREM SocketsStayUnique == RulesSpec => []UniqueListenSockets
<1>1. RulesInv /\ [RulesNext]_avars => RulesInv'
  <2>1. RulesInv /\ UNCHANGED avars => RulesInv'
    BY DEF avars, RulesInv, RulesTypeOK, CheckedStaysFree, UniqueListenSockets, Holders
  <2> QED
    BY <2>1, CreateInv, UpdateInv, ReadInv, SaveInv, GivesInv, DeleteInv DEF RulesNext
<1>2. RulesInv => UniqueListenSockets
  BY DEF RulesInv
<1> QED
  BY RulesInitInv, <1>1, <1>2, PTL DEF RulesSpec

-----------------------------------------------------------------------------
(* The account *)

(* A request that is about to enable a secret has been given a right code   *)
(* for it: confirmed outlives whatever replaces the account meanwhile.      *)
EnablesConfirmed ==
  \A h \in Handlers : handler[h].pc = "enable" => handler[h].secret \in confirmed

AccountInv ==
  AccountsTypeOK /\ EnablesConfirmed /\ EnabledMeansConfirmed /\ SessionsFollowPassword

-----------------------------------------------------------------------------
(* A request moves, the others stay where they are.                         *)
LEMMA RequestMoves ==
  ASSUME AccountsTypeOK, NEW h \in Handlers, NEW pc, NEW seen, NEW secret,
         Step(h, pc, seen, secret)
  PROVE  /\ handler'[h].pc = pc /\ handler'[h].secret = secret
         /\ \A k \in Handlers \ {h} : handler'[k] = handler[k]
         /\ DOMAIN handler' = Handlers
  BY DEF Step, AccountsTypeOK

LEMMA OthersLeft ==
  ASSUME AccountsTypeOK, NEW h \in Handlers, Leaves(h)
  PROVE  /\ handler'[h].pc = "idle"
         /\ \A k \in Handlers \ {h} : handler'[k] = handler[k]
         /\ DOMAIN handler' = Handlers
  BY DEF Leaves, AccountsTypeOK, Waiting

LEMMA AccountTypeInv == ASSUME AccountsTypeOK, [AccountsNext]_uvars PROVE AccountsTypeOK'
<1> USE DEF AccountsTypeOK
<1>1. NewAccount \in Account
  BY SecretsAssumption DEF NewAccount, Account, Passwords
<1>2. \A h \in Handlers : Leaves(h) => handler' \in [Handlers ->
        [pc : {"idle", "login", "read", "purge", "enable"},
         seen : Account, secret : Secrets \cup {NoSecret}]]
  BY <1>1 DEF Leaves, Waiting
<1>3. \A secret \in Secrets \cup {NoSecret}, enabled \in BOOLEAN :
        SetTotp(secret, enabled) => account' \in Account
  BY DEF SetTotp, Account
<1>4. ASSUME NEW h \in Handlers,
             LoginReads(h) \/ LoginEnds(h) \/ ReadsAccount(h) \/ StorePassword(h) \/ Purge(h)
      PROVE  AccountsTypeOK'
  <2>1. CASE LoginReads(h) \/ ReadsAccount(h)
    BY <2>1 DEF LoginReads, ReadsAccount, Step, history
  <2>2. CASE LoginEnds(h)
    BY <2>2, <1>2 DEF LoginEnds, Open, Account
  <2>3. CASE StorePassword(h)
    BY <2>3, SecretsAssumption DEF StorePassword, Step, history, Account, Passwords
  <2>4. CASE Purge(h)
    BY <2>4, <1>2 DEF Purge, Open
  <2> QED
    BY <1>4, <2>1, <2>2, <2>3, <2>4
<1>5. ASSUME NEW h \in Handlers, CodeIsRight(h) \/ TotpEnable(h) \/ TotpDisable(h) \/ GivesUp(h)
      PROVE  AccountsTypeOK'
  <2>1. CASE CodeIsRight(h)
    BY <2>1 DEF CodeIsRight, Step, Account
  <2>2. CASE TotpEnable(h)
    BY <2>2, <1>2, <1>3 DEF TotpEnable, history
  <2>3. CASE TotpDisable(h)
    BY <2>3, <1>2, <1>3 DEF TotpDisable, history
  <2>4. CASE GivesUp(h)
    BY <2>4, <1>2 DEF GivesUp, Open
  <2> QED
    BY <1>5, <2>1, <2>2, <2>3, <2>4
<1>6. ASSUME NEW t \in Tokens, Closes(t) PROVE AccountsTypeOK'
  BY <1>6 DEF Closes, history
<1>7. CASE TotpSetup
  BY <1>7, <1>3 DEF TotpSetup
<1>8. CASE ResetTotp
  BY <1>8, <1>3 DEF ResetTotp, history
<1>9. CASE AccountsRestart
  BY <1>9, <1>1 DEF AccountsRestart, Waiting, Open
<1>10. CASE UNCHANGED uvars
  BY <1>10 DEF uvars
<1> QED
  BY <1>4, <1>5, <1>6, <1>7, <1>8, <1>9, <1>10 DEF AccountsNext

(* Two-factor login: a secret is enabled together with the flag, by one who *)
(* has confirmed that secret; every other write clears the flag.            *)
LEMMA TotpInv ==
  ASSUME AccountInv, [AccountsNext]_uvars PROVE EnablesConfirmed' /\ EnabledMeansConfirmed'
<1> USE DEF AccountInv, EnablesConfirmed, EnabledMeansConfirmed
<1>1. ASSUME NEW h \in Handlers,
             LoginReads(h) \/ LoginEnds(h) \/ ReadsAccount(h) \/ Purge(h) \/ GivesUp(h)
      PROVE  EnablesConfirmed' /\ EnabledMeansConfirmed'
  <2>1. handler'[h].pc # "enable" /\ \A k \in Handlers \ {h} : handler'[k] = handler[k]
    BY <1>1, RequestMoves, OthersLeft DEF LoginReads, LoginEnds, ReadsAccount, Purge, GivesUp, Waiting
  <2> QED
    BY <1>1, <2>1 DEF LoginReads, LoginEnds, ReadsAccount, Purge, GivesUp, history
<1>2. ASSUME NEW h \in Handlers, StorePassword(h)
      PROVE  EnablesConfirmed' /\ EnabledMeansConfirmed'
  <2>1. handler'[h].pc = "purge" /\ \A k \in Handlers \ {h} : handler'[k] = handler[k]
    BY <1>2, RequestMoves DEF StorePassword
  <2>2. account'.secret = account.secret /\ account'.enabled = account.enabled
    BY <1>2 DEF StorePassword, AccountsTypeOK, Account
  <2> QED
    BY <1>2, <2>1, <2>2 DEF StorePassword, history
<1>3. ASSUME NEW h \in Handlers, CodeIsRight(h)
      PROVE  EnablesConfirmed' /\ EnabledMeansConfirmed'
  <2>1. handler'[h].secret \in confirmed' /\ \A k \in Handlers \ {h} : handler'[k] = handler[k]
    BY <1>3, RequestMoves DEF CodeIsRight
  <2> QED
    BY <1>3, <2>1 DEF CodeIsRight
<1>4. ASSUME NEW h \in Handlers, TotpEnable(h) \/ TotpDisable(h)
      PROVE  EnablesConfirmed' /\ EnabledMeansConfirmed'
  <2>1. handler'[h].pc # "enable" /\ \A k \in Handlers \ {h} : handler'[k] = handler[k]
    BY <1>4, OthersLeft DEF TotpEnable, TotpDisable, Waiting
  <2>2. account'.enabled => account'.secret \in confirmed
    BY <1>4 DEF TotpEnable, TotpDisable, SetTotp, AccountsTypeOK, Account
  <2> QED
    BY <1>4, <2>1, <2>2 DEF TotpEnable, TotpDisable, history
<1>5. CASE TotpSetup \/ ResetTotp
  BY <1>5 DEF TotpSetup, ResetTotp, SetTotp, history, AccountsTypeOK, Account
<1>6. CASE AccountsRestart
  BY <1>6 DEF AccountsRestart, Waiting
<1>7. CASE UNCHANGED uvars \/ \E t \in Tokens : Closes(t)
  BY <1>7 DEF uvars, Closes, history
<1> QED
  BY <1>1, <1>2, <1>3, <1>4, <1>5, <1>6, <1>7 DEF AccountsNext

-----------------------------------------------------------------------------
(* Sessions: the change of a password is under way, or every session that   *)
(* was not spared is of the present one.                                    *)
LEMMA SessionsInv ==
  ASSUME AccountInv, [AccountsNext]_uvars PROVE SessionsFollowPassword'
<1> USE DEF AccountInv
<1>1. ASSUME NEW h \in Handlers,
             LoginReads(h) \/ ReadsAccount(h) \/ CodeIsRight(h) \/ TotpEnable(h) \/ TotpDisable(h)
      PROVE  SessionsFollowPassword'
  <2>1. handler[h].pc # "purge" /\ \A k \in Handlers \ {h} : handler'[k] = handler[k]
    BY <1>1, RequestMoves, OthersLeft DEF LoginReads, ReadsAccount, CodeIsRight, TotpEnable, TotpDisable
  <2>2. account'.password = account.password
    BY <1>1 DEF LoginReads, ReadsAccount, CodeIsRight, TotpEnable, TotpDisable, SetTotp,
                AccountsTypeOK, Account
  <2> QED
    BY <1>1, <2>1, <2>2 DEF LoginReads, ReadsAccount, CodeIsRight, TotpEnable, TotpDisable,
                            history, SessionsFollowPassword, Open
<1>2. ASSUME NEW h \in Handlers, LoginEnds(h) PROVE SessionsFollowPassword'
  <2>1. handler[h].pc # "purge" /\ \A k \in Handlers \ {h} : handler'[k] = handler[k]
    BY <1>2, OthersLeft DEF LoginEnds
  <2>2. PICK t \in Tokens \ Open :
          /\ session' = [session EXCEPT ![t] = handler[h].seen.password]
          /\ spared' = IF handler[h].seen.password # account.password
                       THEN spared \cup {t} ELSE spared \ {t}
    BY <1>2 DEF LoginEnds
  <2>3. \A u \in Tokens \ {t} : session'[u] = session[u] /\ (u \in spared' <=> u \in spared)
    BY <2>2 DEF AccountsTypeOK
  <2>4. t \in spared' \/ session'[t] = account.password
    BY <2>2 DEF AccountsTypeOK
  <2> QED
    BY <1>2, <2>1, <2>3, <2>4 DEF LoginEnds, SessionsFollowPassword, Open
<1>3. ASSUME NEW h \in Handlers, StorePassword(h) PROVE SessionsFollowPassword'
  <2>1. handler'[h].pc = "purge"
    BY <1>3, RequestMoves DEF StorePassword
  <2> QED
    BY <2>1 DEF SessionsFollowPassword
<1>4. ASSUME NEW h \in Handlers, Purge(h) PROVE SessionsFollowPassword'
  BY <1>4 DEF Purge, SessionsFollowPassword, Open
<1>5. ASSUME NEW h \in Handlers, GivesUp(h) PROVE SessionsFollowPassword'
  <2>1. CASE handler[h].pc = "purge"
    BY <1>5, <2>1 DEF GivesUp, SessionsFollowPassword, Open
  <2>2. CASE handler[h].pc # "purge"
    <3>1. \A k \in Handlers \ {h} : handler'[k] = handler[k]
      BY <1>5, OthersLeft DEF GivesUp
    <3> QED
      BY <1>5, <2>2, <3>1 DEF GivesUp, SessionsFollowPassword, Open
  <2> QED
    BY <2>1, <2>2
<1>6. ASSUME NEW t \in Tokens, Closes(t) PROVE SessionsFollowPassword'
  BY <1>6 DEF Closes, history, SessionsFollowPassword, Open, AccountsTypeOK
<1>7. CASE TotpSetup \/ ResetTotp
  BY <1>7 DEF TotpSetup, ResetTotp, SetTotp, history, SessionsFollowPassword, Open,
              AccountsTypeOK, Account
<1>8. CASE AccountsRestart
  BY <1>8 DEF AccountsRestart, SessionsFollowPassword, Open
<1>9. CASE UNCHANGED uvars
  BY <1>9 DEF uvars, SessionsFollowPassword, Open
<1> QED
  BY <1>1, <1>2, <1>3, <1>4, <1>5, <1>6, <1>7, <1>8, <1>9 DEF AccountsNext

-----------------------------------------------------------------------------
LEMMA AccountAlways == AccountsSpec => []AccountInv
<1>1. AccountsInit => AccountInv
  <2> SUFFICES ASSUME AccountsInit PROVE AccountInv
    OBVIOUS
  <2>1. NewAccount \in Account /\ NewAccount.enabled = FALSE
    BY SecretsAssumption DEF NewAccount, Account, Passwords
  <2>2. AccountsTypeOK
    BY <2>1 DEF AccountsInit, AccountsTypeOK, Waiting
  <2> QED
    BY <2>1, <2>2 DEF AccountsInit, AccountInv, EnablesConfirmed, EnabledMeansConfirmed,
                      SessionsFollowPassword, Open, Waiting
<1>2. AccountInv /\ [AccountsNext]_uvars => AccountInv'
  <2> SUFFICES ASSUME AccountInv, [AccountsNext]_uvars PROVE AccountInv'
    OBVIOUS
  <2>1. AccountsTypeOK'
    BY AccountTypeInv DEF AccountInv
  <2>2. EnablesConfirmed' /\ EnabledMeansConfirmed'
    BY TotpInv
  <2>3. SessionsFollowPassword'
    BY SessionsInv
  <2> QED
    BY <2>1, <2>2, <2>3 DEF AccountInv
<1> QED
  BY <1>1, <1>2, PTL DEF AccountsSpec

(* Two-factor login is never on for a secret that nobody has given a right  *)
(* code for, whatever replaces the secret while a code is verified.         *)
THEOREM OnlyConfirmedEnabled == AccountsSpec => []EnabledMeansConfirmed
<1>1. AccountInv => EnabledMeansConfirmed
  BY DEF AccountInv
<1> QED
  BY <1>1, AccountAlways, PTL

(* Sessions of an old password are gone once its change has ended, but for  *)
(* those that were spared for a reason.                                     *)
THEOREM OldSessionsGo == AccountsSpec => []SessionsFollowPassword
<1>1. AccountInv => SessionsFollowPassword
  BY DEF AccountInv
<1> QED
  BY <1>1, AccountAlways, PTL

-----------------------------------------------------------------------------
(* New binaries *)

(* While no two requests wrote at once: one at most is between the opening  *)
(* of its file and the rename that ends its work; it writes to the file     *)
(* that it opened, and what it is about to put in place is whole.           *)
OneWriter ==
  /\ \A j, k \in AtWork : j = k
  /\ \A j \in Jobs :
       /\ job[j].at = IF job[j].pc = "write" THEN Tmp ELSE "none"
       /\ job[j].pc = "rename" => file[Tmp] \in Builds
       /\ job[j].pc = "replace" => file[".panel.update"] \in Builds

WholeFiles ==
  /\ file["panel"] \in Builds /\ file["dl"] \in Builds
  /\ \A a \in Agents : agent[a].exe \in Builds /\ (agent[a].pc # "idle" => agent[a].bytes \in Builds)

(* An agent that has worked off its notices has, or is about to run, what   *)
(* the panel serves, unless a request is about to tell it.                  *)
Telling == \E j \in Jobs : job[j].pc \in {"second", "broadcast"}

ToldHaveIt ==
  Telling \/ \A a \in Agents \ behind : ~agent[a].told =>
               file["dl"] = IF agent[a].pc = "idle" THEN agent[a].exe ELSE agent[a].bytes

UpdatesInv == UpdatesTypeOK /\ (overlapped \/ (OneWriter /\ WholeFiles /\ ToldHaveIt))

LEMMA UpdatesInitInv == UpdatesInit => UpdatesInv
<1> SUFFICES ASSUME UpdatesInit PROVE UpdatesInv
  OBVIOUS
<1>1. 0 \in Builds
  BY BuildsAssumption DEF Builds
<1>2. UpdatesTypeOK
  BY <1>1 DEF UpdatesInit, UpdatesTypeOK, Files, Job, Agent, NoJob
<1>3. OneWriter /\ WholeFiles /\ ToldHaveIt
  BY <1>1 DEF UpdatesInit, OneWriter, WholeFiles, ToldHaveIt, AtWork, Files, NoJob
<1> QED
  BY <1>2, <1>3 DEF UpdatesInv

(* A request that moves, and one that ends, leaves the others as they are.  *)
LEMMA JobGoes ==
  ASSUME UpdatesTypeOK, NEW j \in Jobs, NEW pc,
         pc \in {"idle", "open", "write", "rename", "second", "broadcast", "replace"}, JobMoves(j, pc)
  PROVE  /\ job' \in [Jobs -> Job]
         /\ job'[j].pc = pc /\ job'[j].at = job[j].at /\ job'[j].build = job[j].build
         /\ \A k \in Jobs \ {j} : job'[k] = job[k]
<1> DEFINE new == [job[j] EXCEPT !.pc = pc]
<1>1. new \in Job /\ new.pc = pc /\ new.at = job[j].at /\ new.build = job[j].build
  BY DEF UpdatesTypeOK, Job
<1>2. job' = [job EXCEPT ![j] = new]
  BY DEF UpdatesTypeOK, JobMoves
<1> HIDE DEF new
<1> QED
  BY <1>1, <1>2 DEF UpdatesTypeOK

LEMMA JobGone ==
  ASSUME UpdatesTypeOK, NEW j \in Jobs, JobEnds(j)
  PROVE  /\ job' \in [Jobs -> Job] /\ job'[j] = NoJob
         /\ \A k \in Jobs \ {j} : job'[k] = job[k]
<1>1. NoJob \in Job
  BY BuildsAssumption DEF NoJob, Job, Builds
<1> QED
  BY <1>1 DEF UpdatesTypeOK, JobEnds

(* A request that is at work no more, or moves on at it, leaves no second.  *)
LEMMA WriterStays ==
  ASSUME UpdatesTypeOK, OneWriter, NEW j \in Jobs, \A k \in Jobs \ {j} : job'[k] = job[k],
         UNCHANGED <<file, kind>>,
         job'[j].pc \in {"idle", "open", "second", "broadcast"}, job'[j].at = "none"
  PROVE  OneWriter'
<1>1. AtWork' \subseteq AtWork
  BY DEF AtWork
<1>2. Tmp' = Tmp
  BY DEF Tmp
<1> QED
  BY <1>1, <1>2 DEF OneWriter

LEMMA FilesKept ==
  ASSUME WholeFiles, UNCHANGED <<agent>>, file'["panel"] = file["panel"], file'["dl"] = file["dl"]
  PROVE  WholeFiles'
  BY DEF WholeFiles

LEMMA PanelJobInv ==
  ASSUME UpdatesInv, UNCHANGED kind, NEW j \in Jobs,
         \/ DownloadRelease(j) \/ OpenFile(j) \/ EndWrite(j) \/ SecondAsset(j) \/ JobFails(j)
  PROVE  UpdatesInv'
<1>0. UpdatesTypeOK
  BY DEF UpdatesInv
<1>1. Tmp' = Tmp /\ Tmp \in Files \ {"dl", "panel", ".panel.update"} /\ DOMAIN file = Files
  BY <1>0 DEF Tmp, Files, UpdatesTypeOK
<1>2. CASE DownloadRelease(j)
  <2>1. [pc |-> "open", build |-> latest, at |-> "none"] \in Job
    BY <1>0 DEF UpdatesTypeOK, Job
  <2>2. /\ job' \in [Jobs -> Job]
        /\ job'[j].pc = "open" /\ job'[j].at = "none" /\ job[j].pc = "idle"
        /\ \A k \in Jobs \ {j} : job'[k] = job[k]
        /\ UNCHANGED <<latest, file, agent, overlapped, behind>>
    BY <1>0, <1>2, <2>1 DEF UpdatesTypeOK, DownloadRelease
  <2>3. UpdatesTypeOK'
    BY <1>0, <2>2 DEF UpdatesTypeOK
  <2>4. OneWriter => OneWriter'
    BY <1>0, <2>2, WriterStays
  <2>5. ToldHaveIt => ToldHaveIt'
    BY <2>2 DEF ToldHaveIt, Telling
  <2>6. WholeFiles => WholeFiles'
    BY <2>2, FilesKept
  <2> QED
    BY <2>2, <2>3, <2>4, <2>5, <2>6 DEF UpdatesInv
<1>3. CASE OpenFile(j)
  <2> DEFINE new == [job[j] EXCEPT !.pc = "write", !.at = Tmp]
  <2>1. new \in Job /\ new.pc = "write" /\ new.at = Tmp
    BY <1>0, <1>1 DEF UpdatesTypeOK, Job
  <2>2. job' = [job EXCEPT ![j] = new]
    BY <1>0, <1>3 DEF UpdatesTypeOK, OpenFile
  <2> HIDE DEF new
  <2>3. /\ job' \in [Jobs -> Job]
        /\ job'[j].pc = "write" /\ job'[j].at = Tmp /\ job[j].pc = "open"
        /\ \A k \in Jobs \ {j} : job'[k] = job[k]
    BY <1>0, <1>3, <2>1, <2>2 DEF UpdatesTypeOK, OpenFile
  <2>4. /\ file' = [file EXCEPT ![Tmp] = Part] /\ overlapped' = (overlapped \/ AtWork # {})
        /\ UNCHANGED <<latest, agent, behind>>
    BY <1>3 DEF OpenFile
  <2>5. UpdatesTypeOK'
    BY <1>0, <1>1, <2>3, <2>4 DEF UpdatesTypeOK
  <2>6. AtWork = {} /\ OneWriter => OneWriter'
    BY <1>1, <2>3 DEF OneWriter, AtWork
  <2>7. ToldHaveIt => ToldHaveIt'
    BY <1>1, <2>3, <2>4 DEF ToldHaveIt, Telling
  <2>8. WholeFiles => WholeFiles'
    BY <1>1, <2>4, FilesKept
  <2> QED
    BY <1>0, <2>4, <2>5, <2>6, <2>7, <2>8 DEF UpdatesInv, UpdatesTypeOK
<1>4. CASE EndWrite(j)
  <2> DEFINE new == [job[j] EXCEPT !.pc = "rename", !.at = "none"]
  <2>1. new \in Job /\ new.pc = "rename" /\ new.at = "none"
    BY <1>0 DEF UpdatesTypeOK, Job
  <2>2. job' = [job EXCEPT ![j] = new]
    BY <1>0, <1>4 DEF UpdatesTypeOK, EndWrite
  <2> HIDE DEF new
  <2>3. /\ job' \in [Jobs -> Job]
        /\ job'[j].pc = "rename" /\ job'[j].at = "none" /\ job[j].pc = "write"
        /\ \A k \in Jobs \ {j} : job'[k] = job[k]
    BY <1>0, <1>4, <2>1, <2>2 DEF UpdatesTypeOK, EndWrite
  <2>4. PICK content \in {job[j].build} \cup (IF overlapped THEN {Part} ELSE {}) :
          file' = [f \in Files |-> IF f = job[j].at THEN content ELSE file[f]]
    BY <1>4 DEF EndWrite
  <2>5. job[j].build \in Builds /\ UNCHANGED <<latest, agent, overlapped, behind>>
    BY <1>0, <1>4 DEF UpdatesTypeOK, Job, EndWrite
  <2>6. UpdatesTypeOK'
    BY <1>0, <2>3, <2>4, <2>5 DEF UpdatesTypeOK
  <2>7. CASE ~overlapped
    <3>1. OneWriter /\ WholeFiles /\ ToldHaveIt
      BY <2>7 DEF UpdatesInv
    <3>2. job[j].at = Tmp
      BY <2>3, <3>1 DEF OneWriter
    <3>3. file'[Tmp] \in Builds /\ \A f \in Files \ {Tmp} : file'[f] = file[f]
      BY <1>1, <2>4, <2>5, <2>7, <3>2
    <3>4. file'["dl"] = file["dl"] /\ file'["panel"] = file["panel"]
      BY <1>1, <3>3 DEF Files
    <3>5. OneWriter'
      <4>1. AtWork' = AtWork /\ \A k \in AtWork : k = j
        BY <2>3, <3>1 DEF AtWork, OneWriter
      <4> QED
        BY <1>1, <2>3, <3>1, <3>3, <4>1 DEF OneWriter, AtWork
    <3>6. ToldHaveIt'
      BY <2>3, <2>5, <3>1, <3>4 DEF ToldHaveIt, Telling
    <3> QED
      BY <2>5, <2>6, <3>1, <3>4, <3>5, <3>6, FilesKept DEF UpdatesInv
  <2> QED
    BY <1>0, <2>5, <2>6, <2>7 DEF UpdatesInv, UpdatesTypeOK
<1>5. CASE SecondAsset(j)
  <2>1. /\ job' \in [Jobs -> Job]
        /\ job'[j].pc = "broadcast" /\ job'[j].at = job[j].at /\ job[j].pc = "second"
        /\ \A k \in Jobs \ {j} : job'[k] = job[k]
        /\ UNCHANGED <<latest, file, agent, overlapped, behind>>
    BY <1>0, <1>5, JobGoes DEF SecondAsset
  <2>2. UpdatesTypeOK'
    BY <1>0, <2>1 DEF UpdatesTypeOK
  <2>3. OneWriter => OneWriter'
    <3>1. OneWriter => job[j].at = "none"
      BY <2>1 DEF OneWriter
    <3> QED
      BY <1>0, <2>1, <3>1, WriterStays
  <2>4. ToldHaveIt => ToldHaveIt'
    BY <2>1 DEF ToldHaveIt, Telling
  <2>5. WholeFiles => WholeFiles'
    BY <2>1, FilesKept
  <2> QED
    BY <2>1, <2>2, <2>3, <2>4, <2>5 DEF UpdatesInv
<1>6. CASE JobFails(j)
  <2>1. /\ job' \in [Jobs -> Job]
        /\ job'[j].pc = "idle" /\ job'[j].at = "none"
        /\ job[j].pc \notin {"second", "broadcast"}
        /\ \A k \in Jobs \ {j} : job'[k] = job[k]
        /\ UNCHANGED <<latest, file, agent, overlapped, behind>>
    BY <1>0, <1>6, JobGone DEF JobFails, NoJob
  <2>2. UpdatesTypeOK'
    BY <1>0, <2>1 DEF UpdatesTypeOK
  <2>3. OneWriter => OneWriter'
    BY <1>0, <2>1, WriterStays
  <2>4. ToldHaveIt => ToldHaveIt'
    BY <2>1 DEF ToldHaveIt, Telling
  <2>5. WholeFiles => WholeFiles'
    BY <2>1, FilesKept
  <2> QED
    BY <2>1, <2>2, <2>3, <2>4, <2>5 DEF UpdatesInv
<1> QED
  BY <1>2, <1>3, <1>4, <1>5, <1>6

(* The new file takes the place of the old one.                             *)
LEMMA RenameInv == ASSUME UpdatesInv, UNCHANGED kind, NEW j \in Jobs, Rename(j) PROVE UpdatesInv'
<1>0. UpdatesTypeOK
  BY DEF UpdatesInv
<1>1. /\ Tmp' = Tmp /\ Tmp \in Files \ {"dl", "panel", ".panel.update"}
      /\ Dest \in Files \ {Tmp, "panel"} /\ DOMAIN file = Files
      /\ kind = "agents" => Dest = "dl"
      /\ kind = "panel" => Dest = ".panel.update"
      /\ kind \in {"agents", "panel"}
  BY <1>0 DEF Tmp, Dest, Files, UpdatesTypeOK
<1> DEFINE pc == IF kind = "agents" THEN "second" ELSE "replace"
           moved == Follow(Tmp, Dest)
<1>2. moved \in [Jobs -> Job] /\ \A k \in Jobs : moved[k].pc = job[k].pc
  <2> DEFINE Holding(k, f) == [job[k] EXCEPT !.at = f]
  <2>1. \A k \in Jobs : \A f \in Files \cup {"none"} :
          Holding(k, f) \in Job /\ Holding(k, f).pc = job[k].pc
    BY <1>0 DEF UpdatesTypeOK, Job
  <2>2. \A k \in Jobs : moved[k] \in {job[k], Holding(k, "none"), Holding(k, Dest)}
    BY DEF Follow
  <2>3. moved = [k \in Jobs |-> moved[k]]
    BY DEF Follow
  <2> HIDE DEF moved, Holding
  <2>4. \A k \in Jobs : moved[k] \in Job /\ moved[k].pc = job[k].pc
    BY <1>0, <1>1, <2>1, <2>2 DEF UpdatesTypeOK
  <2> QED
    BY <2>3, <2>4
<1> HIDE DEF moved
<1>3. /\ job' \in [Jobs -> Job] /\ job'[j].pc = pc /\ job'[j].at = moved[j].at
      /\ \A k \in Jobs \ {j} : job'[k] = moved[k]
  <2> DEFINE new == [moved[j] EXCEPT !.pc = pc]
  <2>1. new \in Job /\ new.pc = pc /\ new.at = moved[j].at
    BY <1>2 DEF Job
  <2>2. job' = [moved EXCEPT ![j] = new]
    BY <1>2 DEF Rename, moved
  <2> HIDE DEF new
  <2> QED
    BY <1>2, <2>1, <2>2
<1>4. /\ file' \in [Files -> Builds \cup {Part, NoFile}]
      /\ file'[Dest] = file[Tmp] /\ \A f \in Files \ {Tmp, Dest} : file'[f] = file[f]
  BY <1>0, <1>1 DEF Rename, FilesMoved, UpdatesTypeOK
<1>5. UNCHANGED <<latest, agent, overlapped, behind>> /\ job[j].pc = "rename"
  BY DEF Rename
<1>6. UpdatesTypeOK'
  BY <1>0, <1>3, <1>4, <1>5 DEF UpdatesTypeOK
<1>7. CASE ~overlapped
  <2>1. OneWriter /\ WholeFiles /\ ToldHaveIt
    BY <1>7 DEF UpdatesInv
  <2>2. /\ \A k \in AtWork : k = j
        /\ \A k \in Jobs : job[k].at = "none" /\ moved[k] = job[k]
        /\ file[Tmp] \in Builds
    <3>1. j \in AtWork
      BY <1>5 DEF AtWork
    <3>2. \A k \in AtWork : k = j
      BY <2>1, <3>1 DEF OneWriter
    <3>3. \A k \in Jobs : job[k].pc # "write"
      BY <1>5, <3>2 DEF AtWork
    <3>4. \A k \in Jobs : job[k].at = "none"
      BY <2>1, <3>3 DEF OneWriter
    <3>5. "none" \notin {Tmp, Dest}
      BY DEF Tmp, Dest
    <3>6. \A k \in Jobs : moved[k] = job[k]
      BY <3>4, <3>5 DEF moved, Follow
    <3> QED
      BY <1>5, <2>1, <3>2, <3>4, <3>6 DEF OneWriter
  <2>3. OneWriter'
    <3>1. AtWork' \subseteq AtWork
      BY <1>3, <1>5, <2>2 DEF AtWork
    <3>2. pc = "replace" => file'[".panel.update"] \in Builds
      BY <1>1, <1>4, <2>2
    <3>3. \A k \in Jobs \ {j} : job[k].pc \notin {"write", "rename", "replace"}
      BY <2>2 DEF AtWork
    <3> QED
      BY <1>1, <1>3, <2>1, <2>2, <3>1, <3>2, <3>3 DEF OneWriter
  <2>4. WholeFiles'
    <3>1. file'["panel"] = file["panel"]
      BY <1>1, <1>4 DEF Files
    <3>2. file'["dl"] \in Builds
      BY <1>1, <1>4, <2>1, <2>2 DEF Files, WholeFiles
    <3> QED
      BY <1>5, <2>1, <3>1, <3>2 DEF WholeFiles
  <2>5. ToldHaveIt'
    <3>1. CASE kind = "agents"
      BY <1>3, <3>1 DEF ToldHaveIt, Telling
    <3>2. CASE kind = "panel"
      <4>1. file'["dl"] = file["dl"]
        BY <1>1, <1>4, <3>2 DEF Files
      <4>2. Telling => Telling'
        BY <1>3, <1>5, <2>2 DEF Telling
      <4> QED
        BY <1>5, <2>1, <4>1, <4>2 DEF ToldHaveIt
    <3> QED
      BY <1>1, <3>1, <3>2
  <2> QED
    BY <1>6, <2>3, <2>4, <2>5 DEF UpdatesInv
<1> QED
  BY <1>0, <1>5, <1>6, <1>7 DEF UpdatesInv, UpdatesTypeOK

(* The requests that end with something to tell, and those that are stopped. *)
LEMMA TellInv ==
  ASSUME UpdatesInv, UNCHANGED kind,
         \/ UpdatesRestart
         \/ \E j \in Jobs : SecondAssetFails(j) \/ Broadcast(j) \/ ReplacePanel(j)
  PROVE  UpdatesInv'
<1>0. UpdatesTypeOK
  BY DEF UpdatesInv
<1>1. ASSUME NEW j \in Jobs, SecondAssetFails(j) PROVE UpdatesInv'
  <2>1. /\ job' \in [Jobs -> Job] /\ job'[j].pc = "idle" /\ job'[j].at = "none"
        /\ \A k \in Jobs \ {j} : job'[k] = job[k]
        /\ UNCHANGED <<latest, file, agent, overlapped>> /\ behind' = Agents
    BY <1>0, <1>1, JobGone DEF SecondAssetFails, NoJob
  <2>2. UpdatesTypeOK'
    BY <1>0, <2>1 DEF UpdatesTypeOK
  <2>3. OneWriter => OneWriter'
    BY <1>0, <2>1, WriterStays
  <2>4. ToldHaveIt'
    BY <2>1 DEF ToldHaveIt
  <2>5. WholeFiles => WholeFiles'
    BY <2>1, FilesKept
  <2> QED
    BY <2>1, <2>2, <2>3, <2>4, <2>5 DEF UpdatesInv
<1>2. ASSUME NEW j \in Jobs, Broadcast(j) PROVE UpdatesInv'
  <2>1. /\ job' \in [Jobs -> Job] /\ job'[j].pc = "idle" /\ job'[j].at = "none"
        /\ \A k \in Jobs \ {j} : job'[k] = job[k]
        /\ UNCHANGED <<latest, file, overlapped>>
        /\ behind' = behind \cup {a \in Agents : ~agent[a].online}
    BY <1>0, <1>2, JobGone DEF Broadcast, NoJob
  <2>2. /\ agent' \in [Agents -> Agent]
        /\ \A a \in Agents : /\ agent'[a].exe = agent[a].exe /\ agent'[a].pc = agent[a].pc
                             /\ agent'[a].bytes = agent[a].bytes
                             /\ agent[a].online => agent'[a].told
    <3> DEFINE Told(a) == [agent[a] EXCEPT !.told = TRUE]
    <3>1. \A a \in Agents :
            /\ Told(a) \in Agent /\ Told(a).exe = agent[a].exe /\ Told(a).pc = agent[a].pc
            /\ Told(a).bytes = agent[a].bytes /\ Told(a).told
      BY <1>0 DEF UpdatesTypeOK, Agent
    <3>2. agent' = [a \in Agents |-> IF a \in Reached THEN Told(a) ELSE agent[a]]
      BY <1>2 DEF Broadcast
    <3> HIDE DEF Told
    <3> QED
      BY <1>0, <3>1, <3>2 DEF UpdatesTypeOK, Reached
  <2>3. UpdatesTypeOK'
    BY <1>0, <2>1, <2>2 DEF UpdatesTypeOK
  <2>4. OneWriter => OneWriter'
    BY <1>0, <2>1, WriterStays
  <2>5. WholeFiles => WholeFiles'
    BY <2>1, <2>2 DEF WholeFiles
  <2>6. ToldHaveIt'
    BY <2>1, <2>2 DEF ToldHaveIt
  <2> QED
    BY <2>1, <2>3, <2>4, <2>5, <2>6 DEF UpdatesInv
<1>3. ASSUME job' = Stop, behind' = behind \cup MissedByStop, UNCHANGED <<latest, agent, overlapped>>,
             file' \in [Files -> Builds \cup {Part, NoFile}], file'["dl"] = file["dl"],
             OneWriter /\ WholeFiles => file'["panel"] \in Builds
      PROVE  UpdatesInv'
  <2>1. NoJob \in Job
    BY BuildsAssumption DEF NoJob, Job, Builds
  <2>2. job' \in [Jobs -> Job] /\ \A k \in Jobs : job'[k].pc = "idle" /\ job'[k].at = "none"
    BY <1>3, <2>1 DEF Stop, NoJob
  <2>3. UpdatesTypeOK'
    BY <1>0, <1>3, <2>2 DEF UpdatesTypeOK, MissedByStop
  <2>4. OneWriter'
    BY <2>2 DEF OneWriter, AtWork
  <2>5. OneWriter /\ WholeFiles => WholeFiles'
    BY <1>3 DEF WholeFiles
  <2>6. ToldHaveIt => ToldHaveIt'
    <3>1. CASE Telling
      BY <1>3, <3>1 DEF ToldHaveIt, MissedByStop, Telling
    <3>2. CASE ~Telling
      BY <1>3, <3>2 DEF ToldHaveIt
    <3> QED
      BY <3>1, <3>2
  <2> QED
    BY <1>3, <2>3, <2>4, <2>5, <2>6 DEF UpdatesInv
<1>4. ASSUME NEW j \in Jobs, ReplacePanel(j) PROVE UpdatesInv'
  <2>1. /\ job[j].pc = "replace" /\ FilesMoved(".panel.update", "panel")
        /\ job' = Stop /\ behind' = behind \cup MissedByStop /\ UNCHANGED <<latest, agent, overlapped>>
    BY <1>4 DEF ReplacePanel
  <2>2. /\ file' \in [Files -> Builds \cup {Part, NoFile}] /\ file'["dl"] = file["dl"]
        /\ file'["panel"] = file[".panel.update"]
    BY <1>0, <2>1 DEF FilesMoved, UpdatesTypeOK, Files
  <2>3. OneWriter => file'["panel"] \in Builds
    BY <2>1, <2>2 DEF OneWriter
  <2> QED
    BY <1>3, <2>1, <2>2, <2>3
<1>5. CASE UpdatesRestart
  BY <1>0, <1>3, <1>5 DEF UpdatesRestart, UpdatesTypeOK, WholeFiles
<1> QED
  BY <1>1, <1>2, <1>4, <1>5

(* An agent: what it fetches is what the panel serves. *)
LEMMA AgentInv ==
  ASSUME UpdatesInv, UNCHANGED kind, NEW a \in Agents,
         \/ Fetch(a) \/ WriteOwn(a) \/ Execs(a) \/ UpdateFails(a)
         \/ SessionEnds(a) \/ Connects(a) \/ AgentRestarts(a)
  PROVE  UpdatesInv'
<1>0. UpdatesTypeOK
  BY DEF UpdatesInv
<1>1. UNCHANGED <<latest, file, job, overlapped>>
  BY DEF Fetch, WriteOwn, Execs, UpdateFails, SessionEnds, Connects, AgentRestarts
<1>2. behind \subseteq behind' /\ behind' \subseteq Agents
  BY <1>0 DEF UpdatesTypeOK, Fetch, WriteOwn, Execs, UpdateFails, SessionEnds, Connects,
              AgentRestarts, Lost
<1>3. ASSUME NEW new \in Agent, Now(a, new),
             ~overlapped /\ WholeFiles =>
               /\ new.exe \in Builds /\ (new.pc # "idle" => new.bytes \in Builds)
               /\ (ToldHaveIt /\ ~Telling /\ a \notin behind' /\ ~new.told =>
                     file["dl"] = IF new.pc = "idle" THEN new.exe ELSE new.bytes)
      PROVE  UpdatesInv'
  <2>1. agent' \in [Agents -> Agent] /\ agent'[a] = new /\ \A b \in Agents \ {a} : agent'[b] = agent[b]
    BY <1>0, <1>3 DEF UpdatesTypeOK, Now
  <2>2. UpdatesTypeOK'
    BY <1>0, <1>1, <1>2, <2>1 DEF UpdatesTypeOK
  <2>3. OneWriter => OneWriter'
    BY <1>1 DEF OneWriter, AtWork, Tmp
  <2>4. ~overlapped /\ WholeFiles => WholeFiles'
    BY <1>1, <1>3, <2>1 DEF WholeFiles
  <2>5. ~overlapped /\ WholeFiles /\ ToldHaveIt => ToldHaveIt'
    BY <1>1, <1>2, <1>3, <2>1 DEF ToldHaveIt, Telling
  <2> QED
    BY <1>1, <2>2, <2>3, <2>4, <2>5 DEF UpdatesInv
<1>4. agent[a] \in Agent
  BY <1>0 DEF UpdatesTypeOK
<1>5. /\ WholeFiles => /\ file["dl"] \in Builds /\ agent[a].exe \in Builds
                       /\ agent[a].pc # "idle" => agent[a].bytes \in Builds
      /\ ToldHaveIt /\ ~Telling /\ a \notin behind /\ ~agent[a].told =>
           file["dl"] = IF agent[a].pc = "idle" THEN agent[a].exe ELSE agent[a].bytes
  BY DEF WholeFiles, ToldHaveIt
<1>6. CASE Fetch(a)
  <2>0. file["dl"] \in Builds \cup {Part, NoFile} /\ file["dl"] # NoFile /\ agent[a].pc = "idle"
    BY <1>0, <1>6 DEF UpdatesTypeOK, Files, Fetch
  <2>1. CASE Now(a, [agent[a] EXCEPT !.pc = "fetched", !.bytes = file["dl"], !.told = FALSE])
    <3> DEFINE new == [agent[a] EXCEPT !.pc = "fetched", !.bytes = file["dl"], !.told = FALSE]
    <3>1. /\ new \in Agent /\ new.exe = agent[a].exe /\ new.pc = "fetched"
          /\ new.bytes = file["dl"]
      BY <1>4, <2>0 DEF Agent
    <3> HIDE DEF new
    <3> QED
      BY <1>3, <1>5, <2>1, <3>1 DEF new
  <2>2. CASE /\ file["dl"] \in {agent[a].exe, Part}
             /\ Now(a, [agent[a] EXCEPT !.told = FALSE])
    <3> DEFINE new == [agent[a] EXCEPT !.told = FALSE]
    <3>1. /\ new \in Agent /\ new.exe = agent[a].exe /\ new.pc = "idle"
      BY <1>4, <2>0 DEF Agent
    <3>2. ~overlapped /\ WholeFiles => file["dl"] = agent[a].exe
      BY <1>5, <2>2, BuildsAssumption DEF Builds
    <3>3. Now(a, new)
      BY <2>2
    <3> HIDE DEF new
    <3> QED
      BY <1>3, <1>5, <3>1, <3>2, <3>3
  <2> QED
    BY <1>6, <2>1, <2>2 DEF Fetch
<1>7. CASE WriteOwn(a)
  <2> DEFINE new == [agent[a] EXCEPT !.pc = "wrote"]
  <2>1. /\ new \in Agent /\ new.exe = agent[a].exe /\ new.pc = "wrote"
        /\ new.bytes = agent[a].bytes /\ new.told = agent[a].told /\ agent[a].pc # "idle"
    BY <1>4, <1>7 DEF Agent, WriteOwn
  <2>2. Now(a, new)
    BY <1>7 DEF WriteOwn
  <2> HIDE DEF new
  <2> QED
    BY <1>2, <1>3, <1>5, <2>1, <2>2
<1>8. CASE Execs(a)
  <2> DEFINE new == [agent[a] EXCEPT !.exe = agent[a].bytes, !.pc = "idle",
                                     !.online = FALSE, !.told = FALSE]
  <2>1. /\ new \in Agent /\ new.exe = agent[a].bytes /\ new.pc = "idle" /\ agent[a].pc # "idle"
    BY <1>4, <1>8 DEF Agent, Execs
  <2>2. Now(a, new) /\ (agent[a].told => a \in behind')
    BY <1>8 DEF Execs, Lost
  <2> HIDE DEF new
  <2> QED
    BY <1>2, <1>3, <1>5, <2>1, <2>2
<1>9. CASE UpdateFails(a)
  <2> DEFINE told == agent[a].pc # "idle" /\ agent[a].told
             new == [agent[a] EXCEPT !.pc = "idle", !.told = told]
  <2>0. told \in BOOLEAN
    OBVIOUS
  <2> HIDE DEF told
  <2>1. /\ new \in Agent /\ new.exe = agent[a].exe /\ new.pc = "idle"
    BY <1>4, <2>0 DEF Agent
  <2>2. Now(a, new) /\ a \in behind'
    BY <1>9 DEF UpdateFails, Lost, told
  <2> HIDE DEF new
  <2> QED
    BY <1>3, <1>5, <2>1, <2>2
<1>10. CASE SessionEnds(a)
  <2> DEFINE new == [agent[a] EXCEPT !.online = FALSE, !.told = FALSE]
  <2>1. /\ new \in Agent /\ new.exe = agent[a].exe /\ new.pc = agent[a].pc
        /\ new.bytes = agent[a].bytes
    BY <1>4 DEF Agent
  <2>2. Now(a, new) /\ (agent[a].told => a \in behind')
    BY <1>10 DEF SessionEnds, Lost
  <2> HIDE DEF new
  <2> QED
    BY <1>2, <1>3, <1>5, <2>1, <2>2
<1>11. CASE Connects(a)
  <2> DEFINE new == [agent[a] EXCEPT !.online = TRUE]
  <2>1. /\ new \in Agent /\ new.exe = agent[a].exe /\ new.pc = agent[a].pc
        /\ new.bytes = agent[a].bytes /\ new.told = agent[a].told
    BY <1>4 DEF Agent
  <2>2. Now(a, new)
    BY <1>11 DEF Connects
  <2> HIDE DEF new
  <2> QED
    BY <1>2, <1>3, <1>5, <2>1, <2>2
<1>12. CASE AgentRestarts(a)
  <2> DEFINE new == [agent[a] EXCEPT !.pc = "idle", !.online = FALSE, !.told = FALSE]
  <2>1. /\ new \in Agent /\ new.exe = agent[a].exe /\ new.pc = "idle"
    BY <1>4 DEF Agent
  <2>2. Now(a, new) /\ (agent[a].told \/ agent[a].pc # "idle" => a \in behind')
    BY <1>12 DEF AgentRestarts, Lost
  <2> HIDE DEF new
  <2> QED
    BY <1>2, <1>3, <1>5, <2>1, <2>2
<1> QED
  BY <1>6, <1>7, <1>8, <1>9, <1>10, <1>11, <1>12

LEMMA ReleaseInv == ASSUME UpdatesInv, UNCHANGED kind, Release PROVE UpdatesInv'
<1>1. latest' \in Builds /\ UNCHANGED <<file, job, agent, overlapped, behind>>
  BY BuildsAssumption DEF UpdatesInv, UpdatesTypeOK, Release, Builds
<1>2. UpdatesTypeOK'
  BY <1>1 DEF UpdatesInv, UpdatesTypeOK
<1> QED
  BY <1>1, <1>2 DEF UpdatesInv, OneWriter, AtWork, Tmp, WholeFiles, ToldHaveIt, Telling

LEMMA UpdatesAlways == UpdatesSpec => []UpdatesInv
<1>1. UpdatesInv /\ [UpdatesNext]_bvars => UpdatesInv'
  <2>1. CASE UpdatesInv /\ UpdatesNext
    BY <2>1, PanelJobInv, RenameInv, TellInv, AgentInv, ReleaseInv DEF UpdatesNext
  <2>2. CASE UpdatesInv /\ UNCHANGED bvars
    BY <2>2 DEF bvars, UpdatesInv, UpdatesTypeOK, OneWriter, AtWork, Tmp, WholeFiles,
                ToldHaveIt, Telling
  <2> QED
    BY <2>1, <2>2
<1> QED
  BY <1>1, UpdatesInitInv, PTL DEF UpdatesSpec

(* Wherever the panel or an agent is stopped, the panel's executable, what  *)
(* it serves and what the agents run are whole, unless two requests wrote   *)
(* at once (both updater.rs).                                               *)
THEOREM ExecutablesWhole == UpdatesSpec => []WholeExecutables
<1>1. UpdatesInv => WholeExecutables
  BY DEF UpdatesInv, WholeFiles, WholeExecutables
<1> QED
  BY <1>1, UpdatesAlways, PTL

(* An agent that was reached by every broadcast and whose update did not    *)
(* fail runs what the panel serves, once it has worked off its notices.     *)
THEOREM ToldAgentsRunIt == UpdatesSpec => []ToldRunIt
<1>1. UpdatesInv => ToldRunIt
  BY DEF UpdatesInv, ToldHaveIt, Telling, ToldRunIt
<1> QED
  BY <1>1, UpdatesAlways, PTL

-----------------------------------------------------------------------------
(* Host names *)

(* What is kept, and what is about to be, the resolver has answered for the *)
(* name that it is kept under.                                              *)
AnswersKept ==
  /\ \A n \in Nodes : resolved[n].ip # NoAddress =>
       <<resolved[n].host, resolved[n].ip>> \in answered
  /\ refresh.pc = "keep" => <<refresh.rows[Head(refresh.left)], refresh.ip>> \in answered

DdnsShape ==
  /\ DOMAIN resolved = Nodes /\ DOMAIN served = Nodes /\ DOMAIN building = Builders
  /\ DOMAIN refresh = {"pc", "rows", "left", "ip", "changed"}

DdnsInv == DdnsShape /\ AnswersKept /\ ServedIsItsName

(* What a snapshot serves follows from the rows and runtimes it is built on. *)
LEMMA SnapshotServesNames ==
  ASSUME AnswersKept, NEW rows
  PROVE  \A n \in Nodes :
           /\ Snapshot(rows)[n].row = rows[n]
           /\ Snapshot(rows)[n].ip # NoAddress =>
                \/ rows[n] = Snapshot(rows)[n].ip
                \/ <<rows[n], Snapshot(rows)[n].ip>> \in answered
<1>1. \A n \in Nodes : AddressOf(rows[n], resolved[n]) # NoAddress =>
        \/ rows[n] = AddressOf(rows[n], resolved[n])
        \/ <<rows[n], AddressOf(rows[n], resolved[n])>> \in answered
  BY DEF AnswersKept, AddressOf
<1> QED
  BY <1>1 DEF Snapshot

LEMMA DdnsInitInv == DdnsInit => DdnsInv
<1> SUFFICES ASSUME DdnsInit PROVE DdnsInv
  OBVIOUS
<1>1. DdnsShape /\ AnswersKept
  BY DEF DdnsInit, DdnsShape, AnswersKept, Snapshot, Sleeping, Unresolved
<1>2. ServedIsItsName
  BY <1>1, SnapshotServesNames DEF DdnsInit, ServedIsItsName
<1> QED
  BY <1>1, <1>2 DEF DdnsInv

(* The loop, in the middle of its lookups, changes nothing that is served.  *)
LEMMA RefreshInv ==
  ASSUME DdnsInv, RefreshStarts \/ Skips \/ Resolves \/ Keeps \/ RefreshEnds
  PROVE  DdnsInv'
<1>0. DdnsShape /\ AnswersKept /\ ServedIsItsName
  BY DEF DdnsInv
<1>1. UNCHANGED <<public_ip, served, building>> /\ answered \subseteq answered'
  BY DEF RefreshStarts, Skips, Resolves, Keeps, RefreshEnds
<1>2. ServedIsItsName'
  BY <1>0, <1>1 DEF ServedIsItsName
<1>3. CASE RefreshStarts \/ RefreshEnds
  <2>1. /\ UNCHANGED <<resolved, answered>> /\ refresh'.pc # "keep"
        /\ DOMAIN refresh' = {"pc", "rows", "left", "ip", "changed"}
    <3>1. DOMAIN Sleeping = {"pc", "rows", "left", "ip", "changed"} /\ Sleeping.pc = "idle"
      BY DEF Sleeping
    <3>2. CASE RefreshStarts
      BY <3>1, <3>2 DEF RefreshStarts
    <3>3. CASE RefreshEnds
      BY <3>1, <3>3 DEF RefreshEnds
    <3> QED
      BY <1>3, <3>2, <3>3
  <2> QED
    BY <1>0, <1>1, <1>2, <2>1 DEF DdnsInv, DdnsShape, AnswersKept
<1>4. CASE Skips
  <2>1. /\ UNCHANGED <<resolved, answered>> /\ refresh'.pc = "next"
        /\ DOMAIN refresh' = {"pc", "rows", "left", "ip", "changed"}
    BY <1>0, <1>4 DEF Skips, DdnsShape
  <2> QED
    BY <1>0, <1>1, <1>2, <2>1 DEF DdnsInv, DdnsShape, AnswersKept
<1>5. CASE Resolves
  <2> DEFINE host == refresh.rows[Head(refresh.left)]
  <2>1. PICK ip \in Ips : /\ refresh' = [refresh EXCEPT !.pc = "keep", !.ip = ip]
                          /\ answered' = answered \cup {<<host, ip>>}
    BY <1>5 DEF Resolves
  <2>2. /\ refresh'.rows = refresh.rows /\ refresh'.left = refresh.left /\ refresh'.ip = ip
        /\ DOMAIN refresh' = {"pc", "rows", "left", "ip", "changed"}
    BY <1>0, <2>1 DEF DdnsShape
  <2>3. UNCHANGED resolved
    BY <1>5 DEF Resolves
  <2>4. AnswersKept'
    BY <1>0, <2>1, <2>2, <2>3 DEF AnswersKept
  <2> QED
    BY <1>0, <1>1, <1>2, <2>2, <2>3, <2>4 DEF DdnsInv, DdnsShape
<1>6. CASE Keeps
  <2> DEFINE n == Head(refresh.left)
             new == [host |-> refresh.rows[n], ip |-> refresh.ip]
  <2>1. /\ resolved' = [resolved EXCEPT ![n] = new] /\ refresh.pc = "keep"
        /\ UNCHANGED answered
    BY <1>6 DEF Keeps
  <2>2. <<new.host, new.ip>> \in answered
    BY <1>0, <2>1 DEF AnswersKept
  <2>3. /\ refresh'.pc = "next"
        /\ DOMAIN refresh' = {"pc", "rows", "left", "ip", "changed"}
    BY <1>0, <1>6 DEF DdnsShape, Keeps
  <2> HIDE DEF n, new
  <2>4. \A m \in Nodes : resolved'[m] \in {new, resolved[m]}
    BY <1>0, <2>1 DEF DdnsShape
  <2>5. AnswersKept'
    BY <1>0, <2>1, <2>2, <2>3, <2>4 DEF AnswersKept
  <2>6. DOMAIN resolved' = Nodes
    BY <1>0, <2>1 DEF DdnsShape
  <2> QED
    BY <1>0, <1>1, <1>2, <2>3, <2>5, <2>6 DEF DdnsInv, DdnsShape
<1> QED
  BY <1>3, <1>4, <1>5, <1>6

(* Rows, snapshots and restarts. *)
LEMMA SnapshotsInv ==
  ASSUME DdnsInv, EditNode \/ DdnsRestarts \/ \E b \in Builders : BuildStarts(b) \/ BuildEnds(b)
  PROVE  DdnsInv'
<1>0. DdnsShape /\ AnswersKept /\ ServedIsItsName
  BY DEF DdnsInv
<1>1. CASE EditNode
  BY <1>1 DEF EditNode, DdnsInv, DdnsShape, AnswersKept, ServedIsItsName
<1>2. ASSUME NEW b \in Builders, BuildStarts(b) PROVE DdnsInv'
  <2>1. /\ UNCHANGED <<resolved, served, answered>> /\ DOMAIN building' = Builders
        /\ refresh' = refresh \/ refresh' = Sleeping
    BY <1>0, <1>2 DEF BuildStarts, DdnsShape
  <2>2. DdnsShape' /\ AnswersKept'
    BY <1>0, <2>1 DEF DdnsShape, AnswersKept, Sleeping
  <2> QED
    BY <1>0, <2>1, <2>2 DEF DdnsInv, ServedIsItsName
<1>3. ASSUME NEW b \in Builders, BuildEnds(b) PROVE DdnsInv'
  <2>1. /\ UNCHANGED <<resolved, refresh, answered>> /\ served' = Snapshot(building[b])
        /\ building' = [building EXCEPT ![b] = NoRows]
    BY <1>3 DEF BuildEnds
  <2>2. DdnsShape' /\ AnswersKept'
    BY <1>0, <2>1 DEF DdnsShape, AnswersKept, Snapshot
  <2>3. ServedIsItsName'
    BY <1>0, <2>1, SnapshotServesNames DEF ServedIsItsName
  <2> QED
    BY <2>2, <2>3 DEF DdnsInv
<1>4. CASE DdnsRestarts
  <2>1. DdnsShape' /\ AnswersKept'
    BY <1>4 DEF DdnsRestarts, DdnsShape, AnswersKept, Sleeping, Unresolved
  <2>2. ServedIsItsName'
    BY <1>4 DEF DdnsRestarts, ServedIsItsName, AddressOf, Unresolved
  <2> QED
    BY <2>1, <2>2 DEF DdnsInv
<1> QED
  BY <1>1, <1>2, <1>3, <1>4

(* An address that is served for a node is in its row or was answered for   *)
(* the name in its row (ddns.rs, refresh_all; scheduler.rs, build_snapshot),*)
(* however edits, lookups and rebuilds overlap.                             *)
THEOREM NamesAreServedTheirOwn == DdnsSpec => []ServedIsItsName
<1>1. DdnsInv /\ [DdnsNext]_dvars => DdnsInv'
  <2>1. CASE DdnsInv /\ DdnsNext
    BY <2>1, RefreshInv, SnapshotsInv DEF DdnsNext
  <2>2. CASE DdnsInv /\ UNCHANGED dvars
    BY <2>2 DEF dvars, DdnsInv, DdnsShape, AnswersKept, ServedIsItsName
  <2> QED
    BY <2>1, <2>2
<1>2. DdnsInv => ServedIsItsName
  BY DEF DdnsInv
<1> QED
  BY <1>1, <1>2, DdnsInitInv, PTL DEF DdnsSpec

-----------------------------------------------------------------------------
(* The Cloudflare settings *)

Allowed(k) ==
  IF k = PanelIp THEN PanelIps \cup {Blank}
  ELSE Values \cup (IF k \in Required THEN {} ELSE {Default})

SettingsShape ==
  /\ DOMAIN saved = Keys /\ \A k \in Keys : saved[k] \in Allowed(k) \cup {Absent}
  /\ running \in Config \cup {None}
  /\ worker \in [Workers -> [pc : {"idle", "put", "delete", "detected", "saved"},
                             config : Config \cup {None}, left : Seq(Keys)]]
  /\ \A w \in Workers : worker[w].pc \in {"put", "detected", "saved"} => worker[w].config \in Config

(* What a handler that is alone has done so far.                            *)
HalfWritten(w) ==
  LET doing == worker[w]
  IN  /\ doing.pc = "put" =>
           \A k \in Keys : k \in ToSet(doing.left) \/ saved[k] = doing.config[k]
      /\ doing.pc = "delete" => \A k \in Keys : k \in ToSet(doing.left) \/ saved[k] = Absent
      /\ doing.pc = "detected" =>
           /\ Loaded(saved) = running /\ running \in Config
           /\ \E ip \in PanelIps : doing.config = [running EXCEPT ![PanelIp] = ip]
      /\ doing.pc = "saved" => Loaded(saved) = doing.config

SettingsInv ==
  /\ SettingsShape
  /\ disturbed = "none" => /\ \A v, w \in Busy : v = w
                           /\ \A w \in Busy : HalfWritten(w)
                           /\ Busy = {} => Loaded(saved) = running
LEMMA SettingsInitInv == SettingsInit => SettingsInv
<1> SUFFICES ASSUME SettingsInit PROVE SettingsInv
  OBVIOUS
<1>1. KeyOrder \in Seq(Keys) /\ << >> \in Seq(Keys)
  BY KeysAssumption, EmptySeq
<1>2. SettingsShape /\ Busy = {}
  BY <1>1 DEF SettingsInit, SettingsShape, Busy, NotWriting
<1>3. Loaded(saved) = running
  BY KeysAssumption DEF SettingsInit, Loaded
<1> QED
  BY <1>2, <1>3 DEF SettingsInv

(* A handler goes on, or stops; the others stay. *)
LEMMA WorkerGoes ==
  ASSUME SettingsShape, NEW w \in Workers,
         NEW pc \in {"idle", "put", "delete", "detected", "saved"}, NEW config \in Config \cup {None},
         NEW left \in Seq(Keys), Writes(w, pc, config, left),
         pc \in {"put", "detected", "saved"} => config \in Config
  PROVE  /\ worker' \in [Workers -> [pc : {"idle", "put", "delete", "detected", "saved"},
                                     config : Config \cup {None}, left : Seq(Keys)]]
         /\ \A v \in Workers : worker'[v].pc \in {"put", "detected", "saved"} =>
                                 worker'[v].config \in Config
         /\ worker'[w] = [pc |-> pc, config |-> config, left |-> left]
         /\ Busy' \ {w} = Busy \ {w}
         /\ UNCHANGED running /\ DOMAIN saved' = Keys
            /\ (\A k \in Keys : saved'[k] \in Allowed(k) \cup {Absent}) => SettingsShape'
<1> DEFINE new == [pc |-> pc, config |-> config, left |-> left]
<1>1. /\ new \in [pc : {"idle", "put", "delete", "detected", "saved"},
                  config : Config \cup {None}, left : Seq(Keys)]
      /\ new.pc \in {"put", "detected", "saved"} => new.config \in Config
  OBVIOUS
<1>2. worker' = [worker EXCEPT ![w] = new]
  BY DEF Writes
<1>3. worker'[w] = new
  BY <1>2 DEF SettingsShape
<1> HIDE DEF new
<1>4. /\ worker' \in [Workers -> [pc : {"idle", "put", "delete", "detected", "saved"},
                                  config : Config \cup {None}, left : Seq(Keys)]]
      /\ \A v \in Workers : worker'[v].pc \in {"put", "detected", "saved"} =>
                              worker'[v].config \in Config
  BY <1>1, <1>2 DEF SettingsShape
<1>5. Busy' \ {w} = Busy \ {w}
  BY <1>2 DEF SettingsShape, Busy
<1> QED
  BY <1>3, <1>4, <1>5 DEF SettingsShape, new

LEMMA WorkerStops ==
  ASSUME SettingsShape, NEW w \in Workers, worker' = [worker EXCEPT ![w] = NotWriting]
  PROVE  /\ worker' \in [Workers -> [pc : {"idle", "put", "delete", "detected", "saved"},
                                     config : Config \cup {None}, left : Seq(Keys)]]
         /\ \A v \in Workers : worker'[v].pc \in {"put", "detected", "saved"} =>
                                 worker'[v].config \in Config
         /\ Busy' = Busy \ {w}
<1>1. << >> \in Seq(Keys)
  BY EmptySeq
<1> QED
  BY <1>1 DEF SettingsShape, Busy, NotWriting

(* What a row is given is a value of its key. *)
LEMMA ConfigsAllow ==
  /\ Config = {c \in [Keys -> Values \cup PanelIps \cup {Blank, Default}] :
                \A k \in Keys : c[k] \in Allowed(k)}
  /\ \A k \in Keys : Allowed(k) \subseteq Values \cup PanelIps \cup {Blank, Default}
  BY DEF Config, Allowed

LEMMA RowGiven ==
  ASSUME SettingsShape, NEW k \in Keys, NEW v \in Allowed(k) \cup {Absent},
         saved' = [saved EXCEPT ![k] = v]
  PROVE  DOMAIN saved' = Keys /\ \A q \in Keys : saved'[q] \in Allowed(q) \cup {Absent}
  BY DEF SettingsShape, Allowed

LEMMA LoadedAllowed ==
  ASSUME NEW rows, \A k \in Keys : rows[k] \in Allowed(k) \cup {Absent}
  PROVE  Loaded(rows) \in Config \cup {None}
<1>1. CASE \E k \in Required : rows[k] = Absent
  BY <1>1 DEF Loaded
<1>2. CASE ~\E k \in Required : rows[k] = Absent
  <2> DEFINE config == [k \in Keys |-> IF rows[k] # Absent THEN rows[k]
                                        ELSE IF k = PanelIp THEN Blank ELSE Default]
  <2>1. \A k \in Keys : config[k] \in Allowed(k)
    BY <1>2 DEF Allowed
  <2>2. config \in [Keys -> Values \cup PanelIps \cup {Blank, Default}]
    BY <2>1, ConfigsAllow
  <2>3. Loaded(rows) = config
    BY <1>2 DEF Loaded
  <2> HIDE DEF config
  <2> QED
    BY <2>1, <2>2, <2>3, ConfigsAllow
<1> QED
  BY <1>1, <1>2

(* The keys still to come, after one is done.                               *)
LEMMA KeysLeft ==
  ASSUME NEW left \in Seq(Keys), left # << >>
  PROVE  /\ Head(left) \in Keys /\ Tail(left) \in Seq(Keys)
         /\ \A k \in ToSet(left) : k = Head(left) \/ k \in ToSet(Tail(left))
<1>1. /\ Head(left) \in Keys /\ Tail(left) \in Seq(Keys)
      /\ Len(Tail(left)) = Len(left) - 1 /\ Len(left) \in Nat
      /\ \A i \in 1..Len(Tail(left)) : Tail(left)[i] = left[i + 1]
      /\ Head(left) = left[1]
  BY HeadTailProperties, LenProperties
<1>2. DOMAIN left = 1..Len(left) /\ DOMAIN Tail(left) = 1..Len(Tail(left))
  BY <1>1, LenProperties
<1>3. ASSUME NEW i \in 1..Len(left), i # 1
      PROVE  left[i] \in ToSet(Tail(left))
  <2> DEFINE j == i - 1
  <2>1. j \in 1..Len(Tail(left)) /\ j + 1 = i
    BY <1>1, <1>3
  <2> HIDE DEF j
  <2>2. Tail(left)[j] = left[i]
    BY <1>1, <2>1
  <2> QED
    BY <1>2, <2>1, <2>2 DEF ToSet
<1>4. \A i \in 1..Len(left) : left[i] = Head(left) \/ left[i] \in ToSet(Tail(left))
  BY <1>1, <1>3
<1> QED
  BY <1>1, <1>2, <1>4 DEF ToSet

(* A row for every key is the configuration; none is none.                  *)
LEMMA LoadedWhole ==
  ASSUME NEW config \in Config, \A k \in Keys : saved[k] = config[k]
  PROVE  Loaded(saved) = config
<1>1. \A k \in Keys : config[k] # Absent
  BY KeysAssumption DEF Config
<1>2. Required \subseteq Keys
  BY KeysAssumption
<1>3. config = [k \in Keys |-> config[k]]
  BY DEF Config
<1>4. Loaded(saved) = [k \in Keys |-> config[k]]
  BY <1>1, <1>2 DEF Loaded
<1> QED
  BY <1>3, <1>4

LEMMA LoadedEmpty ==
  ASSUME \A k \in Keys : saved[k] = Absent
  PROVE  Loaded(saved) = None
  BY KeysAssumption DEF Loaded

(* The address alone is replaced. *)
LEMMA LoadedWithIp ==
  ASSUME DOMAIN saved = Keys, Loaded(saved) \in Config, NEW ip \in PanelIps
  PROVE  Loaded([saved EXCEPT ![PanelIp] = ip]) = [Loaded(saved) EXCEPT ![PanelIp] = ip]
<1> DEFINE new == [saved EXCEPT ![PanelIp] = ip]
<1>1. /\ PanelIp \in Keys /\ PanelIp \notin Required /\ Required \subseteq Keys
      /\ ip # Absent /\ None \notin Config
  BY KeysAssumption
<1>2. \A k \in Keys : new[k] = IF k = PanelIp THEN ip ELSE saved[k]
  BY <1>1
<1> HIDE DEF new
<1>3. ~\E k \in Required : saved[k] = Absent
  BY <1>1 DEF Loaded
<1>4. ~\E k \in Required : new[k] = Absent
  BY <1>1, <1>2, <1>3
<1>5. Loaded(saved) = [k \in Keys |-> IF saved[k] # Absent THEN saved[k]
                                       ELSE IF k = PanelIp THEN Blank ELSE Default]
  BY <1>3 DEF Loaded
<1>6. Loaded(new) = [k \in Keys |-> IF new[k] # Absent THEN new[k]
                                     ELSE IF k = PanelIp THEN Blank ELSE Default]
  BY <1>4 DEF Loaded
<1>7. \A k \in Keys : Loaded(new)[k] = IF k = PanelIp THEN ip ELSE Loaded(saved)[k]
  BY <1>1, <1>2, <1>5, <1>6
<1>8. Loaded(new) = [Loaded(saved) EXCEPT ![PanelIp] = ip]
  <2>1. /\ Loaded(new) = [k \in Keys |-> Loaded(new)[k]]
        /\ Loaded(saved) = [k \in Keys |-> Loaded(saved)[k]]
    BY <1>5, <1>6
  <2> QED
    BY <1>1, <1>7, <2>1
<1> QED
  BY <1>8 DEF new

LEMMA PutInv ==
  ASSUME SettingsInv, NEW w \in Workers, PutStarts(w) \/ PutRow(w) \/ PutEnds(w)
  PROVE  SettingsInv'
<1>0. SettingsShape
  BY DEF SettingsInv
<1>1. CASE PutStarts(w)
  <2>1. PICK config \in Config : Writes(w, "put", config, KeyOrder)
    BY <1>1 DEF PutStarts
  <2>2. worker[w].pc = "idle" /\ Meets(w) /\ UNCHANGED <<saved, running>>
    BY <1>1 DEF PutStarts
  <2>3. /\ SettingsShape' /\ worker'[w] = [pc |-> "put", config |-> config, left |-> KeyOrder]
        /\ Busy' \ {w} = Busy \ {w}
    BY <1>0, <2>1, <2>2, WorkerGoes, KeysAssumption DEF SettingsShape
  <2>4. ASSUME disturbed' = "none" PROVE Busy' = {w} /\ HalfWritten(w)'
    <3>1. Busy' = {w}
      BY <2>2, <2>3, <2>4 DEF Meets, Busy
    <3>2. \A k \in Keys : k \in ToSet(KeyOrder)
      BY DEF Keys
    <3> QED
      BY <2>3, <3>1, <3>2 DEF HalfWritten
  <2> QED
    BY <2>3, <2>4 DEF SettingsInv
<1>2. CASE PutRow(w)
  <2> DEFINE old == worker[w]
             key == Head(old.left)
  <2>1. /\ old.pc = "put" /\ old.left # << >> /\ old.left \in Seq(Keys) /\ old.config \in Config
        /\ saved' = [saved EXCEPT ![key] = old.config[key]]
        /\ Writes(w, "put", old.config, Tail(old.left))
        /\ UNCHANGED <<running, disturbed>>
    BY <1>0, <1>2 DEF PutRow, SettingsShape
  <2>2. /\ key \in Keys /\ Tail(old.left) \in Seq(Keys)
        /\ \A k \in ToSet(old.left) : k = key \/ k \in ToSet(Tail(old.left))
    BY <2>1, KeysLeft
  <2>3. /\ SettingsShape' /\ worker'[w] = [pc |-> "put", config |-> old.config, left |-> Tail(old.left)]
        /\ Busy' \ {w} = Busy \ {w}
    <3>1. old.config[key] \in Allowed(key)
      BY <2>1, <2>2, ConfigsAllow
    <3> DEFINE rest == Tail(old.left)
               config == old.config
    <3>2. /\ saved' = [saved EXCEPT ![key] = config[key]] /\ config[key] \in Allowed(key) \cup {Absent}
          /\ key \in Keys /\ UNCHANGED running
      BY <2>1, <2>2, <3>1
    <3>3. rest \in Seq(Keys) /\ config \in Config /\ Writes(w, "put", config, rest)
      BY <2>1, <2>2
    <3> HIDE DEF old, key, rest, config
    <3>4. DOMAIN saved' = Keys /\ \A q \in Keys : saved'[q] \in Allowed(q) \cup {Absent}
      BY <1>0, <3>2, RowGiven
    <3>5. /\ SettingsShape' /\ worker'[w] = [pc |-> "put", config |-> config, left |-> rest]
          /\ Busy' \ {w} = Busy \ {w}
      BY <1>0, <3>2, <3>3, <3>4, WorkerGoes
    <3> QED
      BY <3>5 DEF rest, config
  <2>4. ASSUME disturbed' = "none" PROVE Busy' = {w} /\ HalfWritten(w)'
    <3>1. Busy = {w} /\ HalfWritten(w)
      BY <2>1, <2>4 DEF SettingsInv, Busy
    <3>2. Busy' = {w}
      BY <2>3, <3>1 DEF Busy
    <3>3. \A k \in Keys : k \in ToSet(old.left) \/ saved[k] = old.config[k]
      BY <2>1, <3>1 DEF HalfWritten
    <3>4. \A k \in Keys : k \in ToSet(Tail(old.left)) \/ saved'[k] = old.config[k]
      BY <1>0, <2>1, <2>2, <3>3 DEF SettingsShape
    <3> HIDE DEF old
    <3> QED
      BY <2>3, <3>2, <3>4 DEF HalfWritten
  <2> QED
    BY <2>3, <2>4 DEF SettingsInv
<1>3. CASE PutEnds(w)
  <2>1. /\ worker[w].pc = "put" /\ worker[w].left = << >> /\ worker[w].config \in Config
        /\ running' = worker[w].config /\ worker' = [worker EXCEPT ![w] = NotWriting]
        /\ UNCHANGED saved
    BY <1>0, <1>3 DEF PutEnds, Finishes, SettingsShape
  <2>2. SettingsShape' /\ Busy' = Busy \ {w}
    BY <1>0, <2>1, WorkerStops DEF SettingsShape
  <2>3. ASSUME disturbed' = "none" PROVE Busy' = {} /\ Loaded(saved) = running'
    <3> SUFFICES ASSUME disturbed = "none" PROVE Busy' = {} /\ Loaded(saved) = running'
      BY <1>3, <2>2, <2>3 DEF PutEnds, Finishes
    <3>1. Busy = {w} /\ HalfWritten(w)
      BY <2>1 DEF SettingsInv, Busy
    <3>2. \A k \in Keys : saved[k] = worker[w].config[k]
      BY <2>1, <3>1 DEF HalfWritten, ToSet
    <3> QED
      BY <2>1, <2>2, <3>1, <3>2, LoadedWhole
  <2>4. Loaded(saved)' = Loaded(saved)
    BY <2>1 DEF Loaded
  <2> QED
    BY <2>2, <2>3, <2>4 DEF SettingsInv
<1> QED
  BY <1>1, <1>2, <1>3

LEMMA RowsDeletedInv ==
  ASSUME SettingsInv, NEW w \in Workers, DeleteStarts(w) \/ DeleteRow(w) \/ DeleteEnds(w)
  PROVE  SettingsInv'
<1>0. SettingsShape
  BY DEF SettingsInv
<1>1. CASE DeleteStarts(w)
  <2>1. /\ worker[w].pc = "idle" /\ Meets(w) /\ UNCHANGED <<saved, running>>
        /\ Writes(w, "delete", None, KeyOrder)
    BY <1>1 DEF DeleteStarts
  <2>2. /\ SettingsShape' /\ worker'[w] = [pc |-> "delete", config |-> None, left |-> KeyOrder]
        /\ Busy' \ {w} = Busy \ {w}
    BY <1>0, <2>1, WorkerGoes, KeysAssumption DEF SettingsShape
  <2>3. ASSUME disturbed' = "none" PROVE Busy' = {w} /\ HalfWritten(w)'
    <3>1. Busy' = {w}
      BY <2>1, <2>2, <2>3 DEF Meets, Busy
    <3>2. \A k \in Keys : k \in ToSet(KeyOrder)
      BY DEF Keys
    <3> QED
      BY <2>2, <3>1, <3>2 DEF HalfWritten
  <2> QED
    BY <2>2, <2>3 DEF SettingsInv
<1>2. CASE DeleteRow(w)
  <2> DEFINE left == worker[w].left
  <2>1. /\ worker[w].pc = "delete" /\ left # << >> /\ left \in Seq(Keys)
        /\ saved' = [saved EXCEPT ![Head(left)] = Absent]
        /\ Writes(w, "delete", None, Tail(left))
        /\ UNCHANGED <<running, disturbed>>
    BY <1>0, <1>2 DEF DeleteRow, SettingsShape
  <2>2. /\ Head(left) \in Keys /\ Tail(left) \in Seq(Keys)
        /\ \A k \in ToSet(left) : k = Head(left) \/ k \in ToSet(Tail(left))
    BY <2>1, KeysLeft
  <2>3. /\ SettingsShape' /\ worker'[w] = [pc |-> "delete", config |-> None, left |-> Tail(left)]
        /\ Busy' \ {w} = Busy \ {w}
    <3> DEFINE rest == Tail(left)
               key == Head(left)
    <3>1. rest \in Seq(Keys) /\ Writes(w, "delete", None, rest)
      BY <2>1, <2>2
    <3>2. saved' = [saved EXCEPT ![key] = Absent] /\ key \in Keys /\ UNCHANGED running
      BY <2>1, <2>2
    <3> HIDE DEF left, rest, key
    <3>3. DOMAIN saved' = Keys /\ \A q \in Keys : saved'[q] \in Allowed(q) \cup {Absent}
      BY <1>0, <3>2, RowGiven
    <3>4. /\ SettingsShape' /\ worker'[w] = [pc |-> "delete", config |-> None, left |-> rest]
          /\ Busy' \ {w} = Busy \ {w}
      BY <1>0, <3>1, <3>2, <3>3, WorkerGoes
    <3> QED
      BY <3>4 DEF rest
  <2>4. ASSUME disturbed' = "none" PROVE Busy' = {w} /\ HalfWritten(w)'
    <3>1. Busy = {w} /\ HalfWritten(w)
      BY <2>1, <2>4 DEF SettingsInv, Busy
    <3>2. Busy' = {w}
      BY <2>3, <3>1 DEF Busy
    <3>3. \A k \in Keys : k \in ToSet(left) \/ saved[k] = Absent
      BY <2>1, <3>1 DEF HalfWritten
    <3>4. \A k \in Keys : k \in ToSet(Tail(left)) \/ saved'[k] = Absent
      BY <1>0, <2>1, <2>2, <3>3 DEF SettingsShape
    <3> HIDE DEF left
    <3> QED
      BY <2>3, <3>2, <3>4 DEF HalfWritten
  <2> QED
    BY <2>3, <2>4 DEF SettingsInv
<1>3. CASE DeleteEnds(w)
  <2>1. /\ worker[w].pc = "delete" /\ worker[w].left = << >>
        /\ running' = None /\ worker' = [worker EXCEPT ![w] = NotWriting]
        /\ UNCHANGED saved
    BY <1>3 DEF DeleteEnds, Finishes
  <2>2. SettingsShape' /\ Busy' = Busy \ {w}
    BY <1>0, <2>1, WorkerStops DEF SettingsShape
  <2>3. ASSUME disturbed' = "none" PROVE Busy' = {} /\ Loaded(saved) = running'
    <3> SUFFICES ASSUME disturbed = "none" PROVE Busy' = {} /\ Loaded(saved) = running'
      BY <1>3, <2>2, <2>3 DEF DeleteEnds, Finishes
    <3>1. Busy = {w} /\ HalfWritten(w)
      BY <2>1 DEF SettingsInv, Busy
    <3>2. \A k \in Keys : saved[k] = Absent
      BY <2>1, <3>1 DEF HalfWritten, ToSet
    <3> QED
      BY <2>1, <2>2, <3>1, <3>2, LoadedEmpty
  <2>4. Loaded(saved)' = Loaded(saved)
    BY <2>1 DEF Loaded
  <2> QED
    BY <2>2, <2>3, <2>4 DEF SettingsInv
<1> QED
  BY <1>1, <1>2, <1>3

LEMMA DetectInv ==
  ASSUME SettingsInv, NEW w \in Workers, DetectStarts(w) \/ DetectSaves(w) \/ DetectEnds(w)
  PROVE  SettingsInv'
<1>0. SettingsShape /\ << >> \in Seq(Keys)
  BY EmptySeq DEF SettingsInv
<1>1. CASE DetectStarts(w)
  <2>1. PICK ip \in PanelIps : Writes(w, "detected", [running EXCEPT ![PanelIp] = ip], << >>)
    BY <1>1 DEF DetectStarts
  <2>2. /\ worker[w].pc = "idle" /\ running # None /\ Meets(w) /\ UNCHANGED <<saved, running>>
    BY <1>1 DEF DetectStarts
  <2> DEFINE config == [running EXCEPT ![PanelIp] = ip]
  <2>3. config \in Config /\ running \in Config
    BY <1>0, <2>2 DEF SettingsShape, Config
  <2> HIDE DEF config
  <2>4. /\ SettingsShape' /\ worker'[w] = [pc |-> "detected", config |-> config, left |-> << >>]
        /\ Busy' \ {w} = Busy \ {w}
    <3> DEFINE none == << >>
    <3>1. Writes(w, "detected", config, none) /\ none \in Seq(Keys)
      BY <1>0, <2>1 DEF config
    <3>2. UNCHANGED running /\ DOMAIN saved' = Keys
          /\ \A k \in Keys : saved'[k] \in Allowed(k) \cup {Absent}
      BY <1>0, <2>2 DEF SettingsShape
    <3> HIDE DEF none
    <3>3. /\ SettingsShape' /\ worker'[w] = [pc |-> "detected", config |-> config, left |-> none]
          /\ Busy' \ {w} = Busy \ {w}
      BY <1>0, <2>3, <3>1, <3>2, WorkerGoes
    <3> QED
      BY <3>3 DEF none
  <2>5. ASSUME disturbed' = "none" PROVE Busy' = {w} /\ HalfWritten(w)'
    <3>1. Busy = {} /\ Busy' = {w} /\ disturbed = "none"
      BY <2>2, <2>4, <2>5 DEF Meets, Busy
    <3>2. Loaded(saved) = running /\ Loaded(saved)' = Loaded(saved)
      BY <2>2, <3>1 DEF SettingsInv, Loaded
    <3>3. worker'[w].pc = "detected" /\ worker'[w].config = [running' EXCEPT ![PanelIp] = ip]
      BY <2>2, <2>4 DEF config
    <3> QED
      BY <2>2, <2>3, <3>1, <3>2, <3>3 DEF HalfWritten
  <2> QED
    BY <2>4, <2>5 DEF SettingsInv
<1>2. CASE DetectSaves(w)
  <2> DEFINE config == worker[w].config
  <2>1. /\ worker[w].pc = "detected" /\ config \in Config
        /\ saved' = [saved EXCEPT ![PanelIp] = config[PanelIp]]
        /\ Writes(w, "saved", config, << >>) /\ UNCHANGED <<running, disturbed>>
    BY <1>0, <1>2 DEF DetectSaves, SettingsShape
  <2>2. /\ SettingsShape' /\ worker'[w] = [pc |-> "saved", config |-> config, left |-> << >>]
        /\ Busy' \ {w} = Busy \ {w}
    <3>1. config[PanelIp] \in Allowed(PanelIp) /\ PanelIp \in Keys
      BY <2>1, ConfigsAllow, KeysAssumption
    <3> DEFINE none == << >>
    <3>2. Writes(w, "saved", config, none) /\ none \in Seq(Keys)
      BY <1>0, <2>1
    <3> HIDE DEF config, none
    <3>3. DOMAIN saved' = Keys /\ \A q \in Keys : saved'[q] \in Allowed(q) \cup {Absent}
      BY <1>0, <2>1, <3>1, RowGiven
    <3>4. /\ SettingsShape' /\ worker'[w] = [pc |-> "saved", config |-> config, left |-> none]
          /\ Busy' \ {w} = Busy \ {w}
      BY <1>0, <2>1, <3>2, <3>3, WorkerGoes
    <3> QED
      BY <3>4 DEF none
  <2>3. ASSUME disturbed' = "none" PROVE Busy' = {w} /\ HalfWritten(w)'
    <3>1. Busy = {w} /\ HalfWritten(w)
      BY <2>1, <2>3 DEF SettingsInv, Busy
    <3>2. Busy' = {w}
      BY <2>2, <3>1 DEF Busy
    <3>3. PICK ip \in PanelIps : config = [running EXCEPT ![PanelIp] = ip]
      BY <2>1, <3>1 DEF HalfWritten
    <3>4. Loaded(saved) = running /\ running \in Config /\ DOMAIN saved = Keys
      BY <1>0, <2>1, <3>1 DEF HalfWritten, SettingsShape
    <3>5. config[PanelIp] = ip
      BY <3>3, <3>4, KeysAssumption DEF Config
    <3>6. Loaded(saved') = config
      BY <2>1, <3>3, <3>4, <3>5, LoadedWithIp
    <3> HIDE DEF config
    <3> QED
      BY <2>2, <3>2, <3>6 DEF HalfWritten, Loaded
  <2> QED
    BY <2>2, <2>3 DEF SettingsInv
<1>3. CASE DetectEnds(w)
  <2>1. /\ worker[w].pc = "saved" /\ worker[w].config \in Config
        /\ running' = worker[w].config /\ worker' = [worker EXCEPT ![w] = NotWriting]
        /\ UNCHANGED saved
    BY <1>0, <1>3 DEF DetectEnds, Finishes, SettingsShape
  <2>2. SettingsShape' /\ Busy' = Busy \ {w}
    BY <1>0, <2>1, WorkerStops DEF SettingsShape
  <2>3. ASSUME disturbed' = "none" PROVE Busy' = {} /\ Loaded(saved) = running'
    <3> SUFFICES ASSUME disturbed = "none" PROVE Busy' = {} /\ Loaded(saved) = running'
      BY <1>3, <2>2, <2>3 DEF DetectEnds, Finishes
    <3>1. Busy = {w} /\ HalfWritten(w)
      BY <2>1 DEF SettingsInv, Busy
    <3> QED
      BY <2>1, <2>2, <3>1 DEF HalfWritten
  <2>4. Loaded(saved)' = Loaded(saved)
    BY <2>1 DEF Loaded
  <2> QED
    BY <2>2, <2>3, <2>4 DEF SettingsInv
<1> QED
  BY <1>1, <1>2, <1>3

LEMMA StopsInv ==
  ASSUME SettingsInv, PanelStarts \/ \E w \in Workers : RowWriteFails(w) \/ HandlerEnds(w)
  PROVE  SettingsInv'
<1>0. SettingsShape /\ << >> \in Seq(Keys)
  BY EmptySeq DEF SettingsInv
<1>1. ASSUME NEW w \in Workers, RowWriteFails(w) \/ HandlerEnds(w) PROVE SettingsInv'
  <2>1. worker' = [worker EXCEPT ![w] = NotWriting] /\ UNCHANGED <<saved, running>>
    BY <1>1 DEF RowWriteFails, HandlerEnds, Finishes
  <2>2. SettingsShape' /\ Busy' = Busy \ {w}
    BY <1>0, <2>1, WorkerStops DEF SettingsShape
  <2>3. ASSUME disturbed' = "none" PROVE Busy' = {} /\ Loaded(saved) = running
    BY <1>1, <2>1, <2>2, <2>3 DEF RowWriteFails, HandlerEnds, Finishes
  <2>4. Loaded(saved)' = Loaded(saved)
    BY <2>1 DEF Loaded
  <2> QED
    BY <2>1, <2>2, <2>3, <2>4 DEF SettingsInv
<1>2. CASE PanelStarts
  <2>1. /\ saved' = saved \/ saved' \in Config
        /\ running' = Loaded(saved') /\ worker' = [w \in Workers |-> NotWriting]
    BY <1>2 DEF PanelStarts
  <2>2. DOMAIN saved' = Keys
    BY <1>0, <2>1 DEF Config, SettingsShape
  <2>3. worker' \in [Workers -> [pc : {"idle", "put", "delete", "detected", "saved"},
                                 config : Config \cup {None}, left : Seq(Keys)]]
    BY <1>0, <2>1 DEF NotWriting
  <2>4. Busy' = {} /\ \A w \in Workers : worker'[w].pc = "idle"
    BY <2>1 DEF NotWriting, Busy
  <2>5. Loaded(saved)' = running'
    BY <2>1 DEF Loaded
  <2>6. \A k \in Keys : saved'[k] \in Allowed(k) \cup {Absent}
    BY <1>0, <2>1, ConfigsAllow DEF SettingsShape
  <2>7. running' \in Config \cup {None}
    BY <2>1, <2>6, LoadedAllowed
  <2> QED
    BY <2>2, <2>3, <2>4, <2>5, <2>6, <2>7 DEF SettingsInv, SettingsShape
<1> QED
  BY <1>1, <1>2

(* A restart brings back what is running, unless handlers wrote at the same *)
(* time, or one could not write all its rows, or was dropped (api.rs, put_cf_settings and    *)
(* delete_cf_settings; dns_integrity.rs, the detected address; lib.rs).     *)
THEOREM SettingsSurviveRestarts == SettingsSpec => []RestartKeepsSettings
<1>1. SettingsInv /\ [SettingsNext]_svars => SettingsInv'
  <2>1. CASE SettingsInv /\ SettingsNext
    BY <2>1, PutInv, RowsDeletedInv, DetectInv, StopsInv DEF SettingsNext
  <2>2. CASE SettingsInv /\ UNCHANGED svars
    <3>1. UNCHANGED <<saved, running, worker, disturbed>>
      BY <2>2 DEF svars
    <3>2. /\ Busy' = Busy /\ Loaded(saved)' = Loaded(saved) /\ (SettingsShape <=> SettingsShape')
          /\ \A w : HalfWritten(w) <=> HalfWritten(w)'
      BY <3>1 DEF Busy, Loaded, SettingsShape, HalfWritten
    <3> QED
      BY <2>2, <3>1, <3>2 DEF SettingsInv
  <2> QED
    BY <2>1, <2>2
<1>2. SettingsInv => RestartKeepsSettings
  BY DEF SettingsInv, RestartKeepsSettings
<1> QED
  BY <1>1, <1>2, SettingsInitInv, PTL DEF SettingsSpec
=============================================================================
