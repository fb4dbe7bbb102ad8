----------------------------- MODULE RuleAdmin -----------------------------
(***************************************************************************)
(* The rows of the forwarding rules and the handlers that edit them         *)
(* (crates/panel/src/api.rs, create_rule, update_rule, delete_rule; db.rs,  *)
(* forward_rule).  Every database call is a step of its own; the table has  *)
(* no constraint besides its key.                                           *)
(*                                                                          *)
(* A socket is a port and a protocol.  Of what a rule says only its socket  *)
(* and its replicas matter here; what the node is sent is ConfigSync's.     *)
(* Left out: the tests a request meets before the first call that counts    *)
(* (does the node exist, is a host a host), and deleting the node, which    *)
(* leaves its rules.                                                        *)
(***************************************************************************)
CONSTANTS
  FrontNodes, Sockets,
  Rules, NoRule,    \* ids, new ones are random and never met before
  Copies,           \* what extra_backends may hold,
  NoCopies,         \* nothing among it,
  Omitted,          \* and a request without the field
  Editors           \* handlers at work

Rule == [node : FrontNodes, socket : Sockets, copies : Copies]

ASSUME CopiesAssumption == NoCopies \in Copies /\ Omitted \notin Copies
ASSUME NoRuleAssumption == NoRule \notin Rule

VARIABLES
  rule,             \* the rows: id -> rule, or NoRule
  used,             \* ids that have been given
  editor,           \* [pc, id, to, copies]: a request
  contested         \* history: sockets two requests were after at once

avars == <<rule, used, editor, contested>>

NoRequest == [pc |-> "idle"]
Request ==
  [pc : {"checked"}, id : Rules, to : FrontNodes \X Sockets, copies : {Omitted}] \cup
  [pc : {"save"}, id : Rules, to : FrontNodes \X Sockets, copies : Copies]

RulesInit ==
  /\ rule \in {[i \in Rules |-> NoRule]}
  /\ used = {} /\ contested = {}
  /\ editor = [e \in Editors |-> NoRequest]

Holders(to) == {i \in Rules : rule[i] # NoRule /\ <<rule[i].node, rule[i].socket>> = to}

(* Mutant of Free: the rule under edit counts, the others do not. *)
FreeOfItself(id, to) == id \notin Holders(to)

(* validate_unique_listen_port *)
Free(id, to) == Holders(to) \subseteq {id}

Proceed(e, request) == editor' = [editor EXCEPT ![e] = request]

(* create_rule: an omitted field means no replicas. *)
CreateStarts(e) ==
  /\ editor[e].pc = "idle"
  /\ \E id \in Rules \ used, to \in FrontNodes \X Sockets, copies \in Copies :
       /\ Free(id, to)
       /\ used' = used \cup {id}
       /\ Proceed(e, [pc |-> "save", id |-> id, to |-> to, copies |-> copies])
  /\ UNCHANGED <<rule, contested>>

(* update_rule, of any id it is given. *)
UpdateStarts(e) ==
  /\ editor[e].pc = "idle"
  /\ \E id \in used, to \in FrontNodes \X Sockets, copies \in Copies \cup {Omitted} :
       /\ Free(id, to)
       /\ Proceed(e, [pc |-> IF copies = Omitted THEN "checked" ELSE "save", id |-> id, to |-> to,
                      copies |-> copies])
  /\ UNCHANGED <<rule, used, contested>>

CopiesOf(id) == IF rule[id] = NoRule THEN NoCopies ELSE rule[id].copies

(* An omitted field keeps the row's replicas: the rules are listed again.   *)
ReadCopies(e) ==
  /\ editor[e].pc = "checked"
  /\ Proceed(e, [editor[e] EXCEPT !.pc = "save", !.copies = CopiesOf(editor[e].id)])
  /\ UNCHANGED <<rule, used, contested>>

(* upsert_rule: a row that is gone by now is there again. *)
Save(e) ==
  LET request == editor[e]
      to == request.to
      rivals == {o \in Editors \ {e} : /\ editor[o].pc # "idle" /\ editor[o].to = to
                                         /\ editor[o].id # request.id}
  IN  /\ request.pc = "save"
      /\ rule' = [rule EXCEPT ![request.id] =
                    [node |-> to[1], socket |-> to[2], copies |-> request.copies]]
      /\ editor' = [editor EXCEPT ![e] = NoRequest]
      /\ contested' = IF rivals # {} THEN contested \cup {to} ELSE contested
      /\ UNCHANGED used

(* delete_rule lists the rules for the node to push to, and deletes.        *)
DeleteRule ==
  \E id \in used :
    /\ rule' = [rule EXCEPT ![id] = NoRule]
    /\ UNCHANGED <<used, editor, contested>>

(* Any call fails, or the panel stops. *)
Gives(e) ==
  /\ editor[e].pc # "idle" /\ Proceed(e, NoRequest)
  /\ UNCHANGED <<rule, used, contested>>

RulesNext ==
  \/ \E e \in Editors :
       CreateStarts(e) \/ UpdateStarts(e) \/ ReadCopies(e) \/ Save(e) \/ Gives(e)
  \/ DeleteRule

RulesSpec == RulesInit /\ [][RulesNext]_avars

-----------------------------------------------------------------------------
RulesTypeOK ==
  /\ rule \in [Rules -> Rule \cup {NoRule}] /\ used \subseteq Rules
  /\ editor \in [Editors -> {NoRequest} \cup Request]
  /\ contested \subseteq FrontNodes \X Sockets

(* validate_unique_listen_port (api.rs:666-671): no two rules of a node     *)
(* share a listening socket, however rules are moved and edited, unless two *)
(* requests were after that very socket at the same time.                   *)
UniqueListenSockets ==
  \A to \in (FrontNodes \X Sockets) \ contested : \A i, k \in Holders(to) : i = k
=============================================================================
