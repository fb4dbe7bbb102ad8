------------------------------ MODULE Updates ------------------------------
(***************************************************************************)
(* New binaries.  The panel (crates/panel/src/updater.rs; api.rs,           *)
(* update_panel, update_agents) downloads a release: its own, which         *)
(* replaces its executable before it restarts, or the agents', which it     *)
(* serves at /dl and tells the connected agents of.  A told agent           *)
(* (crates/agent/src/updater.rs) fetches that file, replaces its own        *)
(* executable and runs it.  Every file is written under another name in     *)
(* the same directory and then renamed; the names are fixed, so two         *)
(* requests at once write to the same file.                                 *)
(*                                                                          *)
(* A build is its number.  Of the agents' two assets one is modelled; the   *)
(* other is downloaded after it.  Left out: limits of size and time, the    *)
(* agent's own run of --self-update, and two builds whose first 64 KiB the  *)
(* agent's check sum cannot tell apart.                                     *)
(***************************************************************************)
EXTENDS Naturals

CONSTANTS
  Agents, Jobs,
  MaxBuild,         \* bound: the last release
  Part, NoFile      \* a file not all there, or none

ASSUME BuildsAssumption == MaxBuild \in Nat /\ {Part, NoFile} \cap Nat = {} 

VARIABLES
  latest,           \* the release GitHub redirects to
  file,             \* the panel's files, by name
  kind,             \* of the requests: "agents" or "panel"; the two share no
                    \* file, and it never changes
  job,              \* [pc, build, at]: a request, and the name that the file
                    \* it has open goes by, if any
  agent,            \* [exe, pc, bytes, online, told]
  overlapped,       \* history: two requests wrote at once
  behind            \* history: agents that missed a build, or lost a notice

bvars == <<latest, file, kind, job, agent, overlapped, behind>>

Builds == 0..MaxBuild
Dest == IF kind = "agents" THEN "dl" ELSE ".panel.update"

(* Mutant of Tmp: the file is written where it is to be. *)
TmpInPlace == Dest

Tmp == IF kind = "agents" THEN ".agent.tmp" ELSE ".panel.tmp"
Files == {".agent.tmp", "dl", ".panel.tmp", ".panel.update", "panel"}

NoJob == [pc |-> "idle", build |-> 0, at |-> "none"]
Job == [pc : {"idle", "open", "write", "rename", "second", "broadcast", "replace"},
        build : Builds, at : Files \cup {"none"}]
Agent == [exe : Builds \cup {Part}, pc : {"idle", "fetched", "wrote"},
          bytes : Builds \cup {Part}, online : BOOLEAN, told : BOOLEAN]

UpdatesInit ==
  /\ latest = 0
  /\ file = [f \in Files |-> IF f \in {"dl", "panel"} THEN 0 ELSE NoFile]
  /\ job = [j \in Jobs |-> NoJob]
  /\ agent = [a \in Agents |->
       [exe |-> 0, pc |-> "idle", bytes |-> 0, online |-> TRUE, told |-> FALSE]]
  /\ kind \in {"agents", "panel"}
  /\ overlapped = FALSE /\ behind = {}

JobMoves(j, pc) == job' = [job EXCEPT ![j].pc = pc]
JobEnds(j) == job' = [job EXCEPT ![j] = NoJob]

-----------------------------------------------------------------------------
(* The panel *)

Release ==
  /\ latest < MaxBuild /\ latest' = latest + 1
  /\ UNCHANGED <<file, job, agent, overlapped, behind>>

(* check_update and the download.  The panel's own update wants a newer     *)
(* release than the one it is; that of the agents takes any.                *)
DownloadRelease(j) ==
  /\ job[j].pc = "idle"
  /\ kind = "panel" => file["panel"] \in Builds /\ latest > file["panel"]
  /\ job' = [job EXCEPT ![j] = [pc |-> "open", build |-> latest, at |-> "none"]]
  /\ UNCHANGED <<latest, file, agent, overlapped, behind>>

AtWork == {j \in Jobs : job[j].pc \in {"write", "rename", "replace"}}

(* The file is created, or cut to nothing. *)
OpenFile(j) ==
  /\ job[j].pc = "open"
  /\ job' = [job EXCEPT ![j].pc = "write", ![j].at = Tmp]
  /\ file' = [file EXCEPT ![Tmp] = Part]
  /\ overlapped' = (overlapped \/ AtWork # {})
  /\ UNCHANGED <<latest, agent, behind>>

(* The bytes are all written, to whatever name the file has by now.         *)
EndWrite(j) ==
  /\ job[j].pc = "write"
  /\ job' = [job EXCEPT ![j].pc = "rename", ![j].at = "none"]
  /\ \E content \in {job[j].build} \cup (IF overlapped THEN {Part} ELSE {}) :
       file' = [f \in Files |-> IF f = job[j].at THEN content ELSE file[f]]
  /\ UNCHANGED <<latest, agent, overlapped, behind>>

(* rename: open files keep their content, not their name. *)
FilesMoved(from, to) ==
  file' = [file EXCEPT ![to] = file[from], ![from] = NoFile]

Follow(from, to) ==
  [j \in Jobs |-> IF job[j].at = to THEN [job[j] EXCEPT !.at = "none"]
                  ELSE IF job[j].at = from THEN [job[j] EXCEPT !.at = to] ELSE job[j]]

Rename(j) ==
  /\ job[j].pc = "rename" /\ file[Tmp] # NoFile
  /\ FilesMoved(Tmp, Dest)
  /\ job' = [Follow(Tmp, Dest) EXCEPT ![j].pc = IF kind = "agents" THEN "second" ELSE "replace"]
  /\ UNCHANGED <<latest, agent, overlapped, behind>>

(* The other asset arrives, *)
SecondAsset(j) ==
  /\ job[j].pc = "second" /\ JobMoves(j, "broadcast")
  /\ UNCHANGED <<latest, file, agent, overlapped, behind>>

(* or not, which ends the request: nobody is told of the first.             *)
SecondAssetFails(j) ==
  /\ job[j].pc = "second" /\ JobEnds(j)
  /\ behind' = Agents
  /\ UNCHANGED <<latest, file, agent, overlapped>>

(* Mutant of Reached: an agent that is updating is not told again. *)
ReachedIdle == {a \in Agents : agent[a].online /\ agent[a].pc = "idle"}

(* broadcast_to_agents: those that are connected. *)
Reached == {a \in Agents : agent[a].online}

Broadcast(j) ==
  /\ job[j].pc = "broadcast" /\ JobEnds(j)
  /\ agent' = [a \in Agents |-> IF a \in Reached THEN [agent[a] EXCEPT !.told = TRUE] ELSE agent[a]]
  /\ behind' = behind \cup {a \in Agents : ~agent[a].online}
  /\ UNCHANGED <<latest, file, overlapped>>

Stop == [j \in Jobs |-> NoJob]

MissedByStop == IF \E j \in Jobs : job[j].pc \in {"second", "broadcast"} THEN Agents ELSE {}

(* self_update of the panel looks at the new file, puts it in the place of  *)
(* its executable, and exits.                                               *)
ReplacePanel(j) ==
  /\ job[j].pc = "replace" /\ file[".panel.update"] # NoFile
  /\ FilesMoved(".panel.update", "panel")
  /\ job' = Stop /\ behind' = behind \cup MissedByStop
  /\ UNCHANGED <<latest, agent, overlapped>>

(* A call fails, there is nothing to rename, or the file is not an ELF.  A  *)
(* request that is dropped while it writes still ends the write.            *)
JobFails(j) ==
  /\ job[j].pc \in {"open", "write", "rename", "replace"} /\ JobEnds(j)
  /\ UNCHANGED <<latest, file, agent, overlapped, behind>>

(* The panel stops at any point, and starts again; the files stay.          *)
UpdatesRestart ==
  /\ job' = Stop /\ behind' = behind \cup MissedByStop
  /\ UNCHANGED <<latest, file, agent, overlapped>>

-----------------------------------------------------------------------------
(* The agents.  The session waits for its update: notices that come         *)
(* meanwhile stay where they are, and several are as good as one.           *)

Now(a, state) == agent' = [agent EXCEPT ![a] = state]

Lost(a) == behind' = behind \cup {a}

(* The file is read in one go; what the agent has already is left.  Of a    *)
(* file not all there the first 64 KiB may look the same.                   *)
Fetch(a) ==
  /\ agent[a].pc = "idle" /\ agent[a].told /\ file["dl"] # NoFile
  /\ \/ /\ file["dl"] # agent[a].exe
        /\ Now(a, [agent[a] EXCEPT !.pc = "fetched", !.bytes = file["dl"], !.told = FALSE])
        /\ UNCHANGED behind
     \/ /\ file["dl"] \in {agent[a].exe, Part}
        /\ Now(a, [agent[a] EXCEPT !.told = FALSE])
        /\ UNCHANGED behind
  /\ UNCHANGED <<latest, file, job, overlapped>>

WriteOwn(a) ==
  /\ agent[a].pc = "fetched" /\ Now(a, [agent[a] EXCEPT !.pc = "wrote"])
  /\ UNCHANGED <<latest, file, job, overlapped, behind>>

(* Renamed over the executable and run in its place: the session is gone,   *)
(* and so is what it had not read.                                          *)
Execs(a) ==
  /\ agent[a].pc = "wrote"
  /\ Now(a, [agent[a] EXCEPT !.exe = agent[a].bytes, !.pc = "idle", !.online = FALSE, !.told = FALSE])
  /\ IF agent[a].told THEN Lost(a) ELSE UNCHANGED behind
  /\ UNCHANGED <<latest, file, job, overlapped>>

(* Any call of the update fails; the session goes on. *)
UpdateFails(a) ==
  /\ agent[a].pc # "idle" \/ agent[a].told
  /\ Now(a, [agent[a] EXCEPT !.pc = "idle", !.told = (agent[a].pc # "idle" /\ agent[a].told)])
  /\ Lost(a)
  /\ UNCHANGED <<latest, file, job, overlapped>>

SessionEnds(a) ==
  /\ agent[a].online
  /\ Now(a, [agent[a] EXCEPT !.online = FALSE, !.told = FALSE])
  /\ IF agent[a].told THEN Lost(a) ELSE UNCHANGED behind
  /\ UNCHANGED <<latest, file, job, overlapped>>

(* Nothing in the handshake is about the build on offer. *)
Connects(a) ==
  /\ ~agent[a].online /\ agent[a].pc = "idle"
  /\ Now(a, [agent[a] EXCEPT !.online = TRUE])
  /\ UNCHANGED <<latest, file, job, overlapped, behind>>

AgentRestarts(a) ==
  /\ Now(a, [agent[a] EXCEPT !.pc = "idle", !.online = FALSE, !.told = FALSE])
  /\ IF agent[a].told \/ agent[a].pc # "idle" THEN Lost(a) ELSE UNCHANGED behind
  /\ UNCHANGED <<latest, file, job, overlapped>>

UpdatesNext ==
  /\ UNCHANGED kind
  /\ \/ Release \/ UpdatesRestart
     \/ \E j \in Jobs :
          \/ DownloadRelease(j) \/ OpenFile(j) \/ EndWrite(j) \/ Rename(j)
          \/ SecondAsset(j) \/ SecondAssetFails(j) \/ Broadcast(j)
          \/ ReplacePanel(j) \/ JobFails(j)
     \/ \E a \in Agents :
          \/ Fetch(a) \/ WriteOwn(a) \/ Execs(a) \/ UpdateFails(a)
          \/ SessionEnds(a) \/ Connects(a) \/ AgentRestarts(a)

UpdatesSpec == UpdatesInit /\ [][UpdatesNext]_bvars

-----------------------------------------------------------------------------
UpdatesTypeOK ==
  /\ latest \in Builds /\ file \in [Files -> Builds \cup {Part, NoFile}]
  /\ job \in [Jobs -> Job] /\ agent \in [Agents -> Agent]
  /\ kind \in {"agents", "panel"}
  /\ overlapped \in BOOLEAN /\ behind \subseteq Agents

(* updater.rs, "atomic rename": wherever the panel or an agent is stopped,  *)
(* the panel's executable, the file it serves and the agents' executables   *)
(* are whole, unless two requests wrote the same file at once.              *)
WholeExecutables ==
  overlapped \/ /\ {file["panel"], file["dl"]} \subseteq Builds
                /\ \A a \in Agents : agent[a].exe \in Builds

(* api.rs:1930-1933: an agent that was connected for every broadcast and    *)
(* whose update did not fail runs what the panel serves, once it has worked *)
(* off its notices.  One that lost a notice, to a session that ended or to  *)
(* the restart of the update before, does not catch up when it reconnects.  *)
ToldRunIt ==
  \/ overlapped \/ \E j \in Jobs : job[j].pc \in {"second", "broadcast"}
  \/ \A a \in Agents \ behind :
       ~agent[a].told /\ agent[a].pc = "idle" => agent[a].exe = file["dl"]
=============================================================================
