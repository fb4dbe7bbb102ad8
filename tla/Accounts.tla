------------------------------ MODULE Accounts ------------------------------
(***************************************************************************)
(* The operator's account and its sessions (crates/panel/src/api.rs, login  *)
(* to totp_disable; db.rs, panel_user and session; main.rs, reset-2fa).     *)
(* A handler resolves its session, reads the account, decides, and writes:  *)
(* each of these is a call of its own, other requests come between.         *)
(*                                                                          *)
(* A password is told by its number, a TOTP secret by the setup that made   *)
(* it; that a password or a code is right for what the handler has read is  *)
(* part of the handler's guard, since a wrong one changes nothing.  Left    *)
(* out: hashing and sealing, cookies, and creating the account, which only  *)
(* happens when there is none.                                              *)
(***************************************************************************)
EXTENDS Naturals

CONSTANTS
  Handlers, NoSecret, Secrets,
  Tokens,           \* of sessions
  MaxPassword       \* bound: how often the password is changed

ASSUME SecretsAssumption == NoSecret \notin Secrets /\ MaxPassword \in Nat

VARIABLES
  account,          \* panel_user: [password, secret, enabled]
  session,          \* token -> the password it was opened with, or NoSession
  handler,          \* [pc, seen, secret]: the account as the handler has read
                    \* it, and what it is about to write
  confirmed,        \* history: secrets a right code has been given for
  handed,           \* history: secrets that were handed out
  spared            \* history: sessions that outlive a change for a reason

uvars == <<account, session, handler, confirmed, handed, spared>>

NoSession == MaxPassword + 1
Passwords == 0..MaxPassword
Account == [password : Passwords, secret : Secrets \cup {NoSecret}, enabled : BOOLEAN]
NewAccount == [password |-> 0, secret |-> NoSecret, enabled |-> FALSE]

Waiting == [pc |-> "idle", seen |-> NewAccount, secret |-> NoSecret]

AccountsInit ==
  /\ account = NewAccount
  /\ session = [t \in Tokens |-> NoSession]
  /\ handler = [h \in Handlers |-> Waiting]
  /\ confirmed = {} /\ handed = {} /\ spared = {}

Step(h, pc, seen, secret) ==
  handler' = [handler EXCEPT ![h] = [pc |-> pc, seen |-> seen, secret |-> secret]]

Leaves(h) == handler' = [handler EXCEPT ![h] = Waiting]

Open == {t \in Tokens : session[t] # NoSession}

history == <<confirmed, handed, spared>>

-----------------------------------------------------------------------------
(* login: password and, when it is on, the code were right for what         *)
(* get_user has read.                                                       *)
LoginReads(h) ==
  /\ handler[h].pc = "idle" /\ Step(h, "login", account, NoSecret)
  /\ UNCHANGED <<account, session, history>>

(* create_session: of a password that is another by now, perhaps.           *)
LoginEnds(h) ==
  /\ handler[h].pc = "login" /\ Leaves(h)
  /\ \E t \in Tokens \ Open :
       /\ session' = [session EXCEPT ![t] = handler[h].seen.password]
       /\ spared' = IF handler[h].seen.password # account.password
                     THEN spared \cup {t} ELSE spared \ {t}
  /\ UNCHANGED <<account, confirmed, handed>>

(* logout, or the session has expired. *)
Closes(t) ==
  /\ t \in Open /\ session' = [session EXCEPT ![t] = NoSession]
  /\ UNCHANGED <<account, handler, history>>

(* A handler with a session reads the account (session_user, get_user).     *)
ReadsAccount(h) ==
  /\ handler[h].pc = "idle" /\ Open # {}
  /\ Step(h, "read", account, NoSecret)
  /\ UNCHANGED <<account, session, history>>

(* change_password, after the old password was right: the new hash ...      *)
StorePassword(h) ==
  /\ handler[h].pc = "read" /\ account.password < MaxPassword
  /\ account' = [account EXCEPT !.password = @ + 1]
  /\ Step(h, "purge", handler[h].seen, NoSecret)
  /\ UNCHANGED <<session, history>>

(* Mutant of Purge: the session of this request only. *)
PurgeOne(h) ==
  /\ handler[h].pc = "purge" /\ Leaves(h)
  /\ \E t \in Tokens : session' = [session EXCEPT ![t] = NoSession]
  /\ UNCHANGED <<account, confirmed, handed, spared>>

(* ... and then every session of the account goes, or the deletion fails,   *)
(* which nobody is told.                                                    *)
Purge(h) ==
  /\ handler[h].pc = "purge" /\ Leaves(h)
  /\ \/ session' = [t \in Tokens |-> NoSession] /\ UNCHANGED spared
     \/ UNCHANGED session /\ spared' = spared \cup Open
  /\ UNCHANGED <<account, confirmed, handed>>

SetTotp(secret, enabled) ==
  account' = [account EXCEPT !.secret = secret, !.enabled = enabled]

(* totp_setup stores a new secret, not enabled, whatever was there.  It     *)
(* does not read the account.                                               *)
TotpSetup ==
  /\ Open # {}
  /\ \E s \in Secrets \ handed :
       /\ SetTotp(s, FALSE)
       /\ handed' = handed \cup {s}
  /\ UNCHANGED <<session, handler, confirmed, spared>>

(* totp_enable has read a secret and been given a right code for it.        *)
CodeIsRight(h) ==
  /\ handler[h].pc = "read" /\ handler[h].seen.secret # NoSecret
  /\ Step(h, "enable", handler[h].seen, handler[h].seen.secret)
  /\ confirmed' = confirmed \cup {handler[h].seen.secret}
  /\ UNCHANGED <<account, session, handed, spared>>

(* Mutant of TotpEnable: it only turns the flag on. *)
TotpEnableFlag(h) ==
  /\ handler[h].pc = "enable" /\ Leaves(h)
  /\ SetTotp(account.secret, TRUE)
  /\ UNCHANGED <<session, history>>

(* It writes that secret back, with the flag. *)
TotpEnable(h) ==
  /\ handler[h].pc = "enable" /\ Leaves(h)
  /\ SetTotp(handler[h].secret, TRUE)
  /\ UNCHANGED <<session, history>>

(* totp_disable: password and code were right for what it has read; the     *)
(* secret may never have been enabled.                                      *)
TotpDisable(h) ==
  /\ handler[h].pc = "read" /\ handler[h].seen.secret # NoSecret
  /\ SetTotp(NoSecret, FALSE) /\ Leaves(h)
  /\ UNCHANGED <<session, history>>

(* panel reset-2fa, on the host. *)
ResetTotp ==
  /\ SetTotp(NoSecret, FALSE)
  /\ UNCHANGED <<session, handler, history>>

(* A request is refused, a call of it fails, or its connection is closed.   *)
GivesUp(h) ==
  /\ handler[h].pc # "idle" /\ Leaves(h)
  /\ spared' = IF handler[h].pc = "purge" THEN spared \cup Open ELSE spared
  /\ UNCHANGED <<account, session, confirmed, handed>>

(* The panel stops: sessions are rows, and stay. *)
AccountsRestart ==
  /\ handler' = [h \in Handlers |-> Waiting]
  /\ spared' = IF \E h \in Handlers : handler[h].pc = "purge" THEN spared \cup Open ELSE spared
  /\ UNCHANGED <<account, session, confirmed, handed>>

AccountsNext ==
  \/ \E h \in Handlers :
       \/ LoginReads(h) \/ LoginEnds(h) \/ ReadsAccount(h)
       \/ StorePassword(h) \/ Purge(h)
       \/ CodeIsRight(h) \/ TotpEnable(h) \/ TotpDisable(h) \/ GivesUp(h)
  \/ \E t \in Tokens : Closes(t)
  \/ TotpSetup \/ ResetTotp \/ AccountsRestart

AccountsSpec == AccountsInit /\ [][AccountsNext]_uvars

-----------------------------------------------------------------------------
AccountsTypeOK ==
  /\ account \in Account /\ session \in [Tokens -> Passwords \cup {NoSession}]
  /\ handler \in [Handlers -> [pc : {"idle", "login", "read", "purge", "enable"},
                               seen : Account, secret : Secrets \cup {NoSecret}]]
  /\ confirmed \subseteq Secrets /\ handed \subseteq Secrets /\ spared \subseteq Tokens

(* api.rs:330-332, 353: two-factor login is on only for a secret that a     *)
(* right code has been given for, so that the operator is not locked out,   *)
(* although another setup may replace the secret while a code is verified.  *)
EnabledMeansConfirmed == account.enabled => account.secret \in confirmed

(* api.rs:291: a session opened with an old password is gone once the       *)
(* change of it has ended, unless the login overlapped the change, the      *)
(* deletion failed, or the request or the panel ended between the writes.   *)
SessionsFollowPassword ==
  \/ \E h \in Handlers : handler[h].pc = "purge"
  \/ \A t \in Open \ spared : session[t] = account.password
=============================================================================
