-------------------------------- MODULE Deploy --------------------------------
(***************************************************************************)
(* Deployments (deploy/deploy.ts), of one build, by any number of          *)
(* controllers: every host at once gets the viewer, under a name made of   *)
(* its hash, and the agent, in a directory that is marked when it is       *)
(* whole.  What a host runs is a shell script at the far end of an ssh.    *)
(* It outlives the connection: its stdin then ends early, which `cat`      *)
(* takes for the end of the file and `tar` for an error.  So a host may    *)
(* have the scripts of several deployments at once, of the living and the  *)
(* dead, and they share their file names.                                  *)
(*                                                                         *)
(* What two scripts of one kind do to each other is modelled by the file   *)
(* each has open: `cat` truncates a file that another may be writing, and  *)
(* `mv` renames it under the writer's hands; `rm -rf` takes the directory  *)
(* away from a `tar` that has it open.                                     *)
(***************************************************************************)
EXTENDS Naturals

CONSTANTS
  Hosts,       \* every machine a deployment may name
  Deployments  \* bound: the deployments that are begun

VARIABLES
  phase,     \* per deployment, of deployFleet(): "idle", "deploying", "copying",
             \* "done", "thrown"
  targets,   \* its remote agents
  mock,      \* its binary is the fake viewer, which is part of the agent
  step,      \* per host: where its deployToHost() is
  script,    \* per host: what its upload script there is doing
  cut,       \* per host: that script's stdin has ended early, or will
  opened,    \* per host: the name that the file its `cat` writes has now
  staging,   \* per host: <binary>.part
  binary,    \* per host: <binary>
  agentDir,  \* per host: the agent's directory
  marker,    \* per host: its .ready
  local,     \* there is a copy of the binary at the controllers' own machine
  (* What the properties speak of: *)
  disturbed, \* per deployment and host: the kinds another deployment was uploading
             \* when this one last looked, or has begun to upload since
  tainted    \* hosts where two unpacks have crossed, or a removal has broken off,
             \* since the agent's directory was last made afresh

scriptVars == <<script, cut, opened>>
fileVars == <<staging, binary, agentDir, marker>>
deployVars == <<phase, targets, mock, step, scriptVars, fileVars, local, disturbed, tainted>>

Contents == {"absent", "partial", "whole"}
Underway == {"facts", "hash", "uploading", "verify", "marker", "unpacking"}

(* "sendcat", "sendtar": on its way, or not yet past its mkdir.  "patch": a *)
(* cat whose file was truncated by another since it opened it.  "orphan":   *)
(* a tar whose directory was removed.                                       *)
Uploads == {"sendcat", "cat", "patch", "mv"}
Unpacks == {"sendtar", "rm", "mkdir", "tar", "orphan", "touch"}
ScriptsOf(kind) == IF kind = "binary" THEN Uploads ELSE Unpacks

Everywhere(v) == [d \in Deployments |-> [h \in Hosts |-> v]]

InitDeploy ==
  /\ phase = [d \in Deployments |-> "idle"]
  /\ targets = [d \in Deployments |-> {}]
  /\ mock = [d \in Deployments |-> FALSE]
  /\ step = Everywhere("none") /\ script = Everywhere("none") /\ cut = Everywhere(FALSE)
  /\ opened = Everywhere("none") /\ disturbed = Everywhere({})
  /\ staging = [h \in Hosts |-> "absent"]
  /\ binary = [h \in Hosts |-> "absent"]
  /\ agentDir = [h \in Hosts |-> "absent"]
  /\ marker = [h \in Hosts |-> FALSE]
  /\ local = FALSE /\ tainted = {}

At(d, h, s) == phase[d] = "deploying" /\ step[d][h] = s
Goto(d, h, s) == step' = [step EXCEPT ![d][h] = s]
Becomes(d, h, s) == script' = [script EXCEPT ![d][h] = s]
Ends(d, h) == Becomes(d, h, "none") /\ cut' = [cut EXCEPT ![d][h] = FALSE]
(* What the near end hears of a script that ended, unless it was cut off.  *)
Heard(d, h, s) ==
  step' = [step EXCEPT ![d][h] =
             IF phase[d] = "deploying" /\ step[d][h] \in Underway THEN s ELSE @]
Same == UNCHANGED <<phase, targets, mock, local>>

Others(d, h, kind) == {e \in Deployments \ {d} : script[e][h] \in ScriptsOf(kind)}

(* The deployment has just looked at, or finished, its own of that kind.   *)
Looked(d, h, kind) ==
  disturbed' = [disturbed EXCEPT ![d][h] =
                  IF Others(d, h, kind) = {} THEN @ \ {kind} ELSE @ \cup {kind}]

(* The deployment sends an upload of that kind. *)
Sends(d, h, kind) ==
  /\ Becomes(d, h, IF kind = "binary" THEN "sendcat" ELSE "sendtar")
  /\ disturbed' = [e \in Deployments |-> [disturbed[e] EXCEPT ![h] =
                     IF e = d THEN @ ELSE @ \cup {kind}]]
  /\ tainted' = IF kind = "agent" /\ Others(d, h, kind) # {} THEN tainted \cup {h} ELSE tainted
  /\ UNCHANGED <<cut, opened, fileVars>>

(* fetchViewerBinary() and planDeployment() succeeded; either may throw,   *)
(* with nothing begun.                                                     *)
Begin(d, remote) ==
  /\ phase[d] = "idle"
  /\ phase' = [phase EXCEPT ![d] = "deploying"]
  /\ targets' = [targets EXCEPT ![d] = remote]
  /\ \E fake \in BOOLEAN : mock' = [mock EXCEPT ![d] = fake]
  /\ step' = [step EXCEPT ![d] = [h \in Hosts |-> IF h \in remote THEN "facts" ELSE "none"]]
  /\ UNCHANGED <<scriptVars, fileVars, local, disturbed, tainted>>

(* remoteFacts(): the host answers, its node is recent enough and the      *)
(* binary is one for it; anything else throws.                             *)
Facts(d, h) ==
  /\ At(d, h, "facts")
  /\ Goto(d, h, IF mock[d] THEN "marker" ELSE "hash") \/ Goto(d, h, "failed")
  /\ Same /\ UNCHANGED <<scriptVars, fileVars, disturbed, tainted>>

(* sha256Remote(): an ssh that fails reads as a file that is not there.    *)
Hash(d, h) ==
  /\ At(d, h, "hash")
  /\ \/ /\ binary[h] = "whole"
        /\ Goto(d, h, "marker")
        /\ Looked(d, h, "binary")
        /\ UNCHANGED <<scriptVars, fileVars, tainted>>
     \/ Goto(d, h, "uploading") /\ Sends(d, h, "binary")
  /\ Same

Verify(d, h) ==
  /\ At(d, h, "verify")
  /\ \/ binary[h] = "whole" /\ Goto(d, h, "marker")
     \/ Goto(d, h, "failed")
  /\ Looked(d, h, "binary")
  /\ Same /\ UNCHANGED <<scriptVars, fileVars, tainted>>

(* remoteExists(), which also takes a failed ssh for "no". *)
Marker(d, h) ==
  /\ At(d, h, "marker")
  /\ \/ /\ marker[h]
        /\ Goto(d, h, "done")
        /\ Looked(d, h, "agent")
        /\ UNCHANGED <<scriptVars, fileVars, tainted>>
     \/ Goto(d, h, "unpacking") /\ Sends(d, h, "agent")
  /\ Same

(* ---------------------------- uploadBinary()'s script -------------------- *)

(* mkdir -p, and `cat > staging` opens: it truncates a file that is there. *)
OpenStaging(d, h) ==
  /\ script[d][h] = "sendcat"
  /\ script' = [e \in Deployments |-> [script[e] EXCEPT ![h] =
       IF e = d THEN "cat"
       ELSE IF @ = "cat" /\ opened[e][h] = "staging" THEN "patch" ELSE @]]
  /\ opened' = [opened EXCEPT ![d][h] = "staging"]
  /\ staging' = [staging EXCEPT ![h] = "partial"]
  /\ Same /\ UNCHANGED <<step, cut, binary, agentDir, marker, disturbed, tainted>>

(* cat exits 0 at the end of its stdin, early or not.  One that was        *)
(* truncated under its hands leaves a hole, unless who truncated it has    *)
(* come as far.                                                            *)
CatEnds(d, h) ==
  /\ script[d][h] \in {"cat", "patch"}
  /\ Becomes(d, h, "mv")
  /\ \E becomes \in IF cut[d][h] THEN {"partial"}
                    ELSE IF script[d][h] = "cat" THEN {"whole"} ELSE {"partial", "whole"} :
       LET written == [c \in Contents |-> IF becomes = "whole" THEN becomes ELSE c] IN
       /\ staging' = IF opened[d][h] = "staging" THEN [staging EXCEPT ![h] = written[@]] ELSE staging
       /\ binary' = IF opened[d][h] = "binary" THEN [binary EXCEPT ![h] = written[@]] ELSE binary
  /\ Same /\ UNCHANGED <<step, cut, opened, agentDir, marker, disturbed, tainted>>

(* chmod && mv -f, if nobody has renamed it first. *)
Install(d, h) ==
  /\ script[d][h] = "mv"
  /\ Ends(d, h)
  /\ \/ /\ staging[h] # "absent"
        /\ binary' = [binary EXCEPT ![h] = staging[h]]
        /\ staging' = [staging EXCEPT ![h] = "absent"]
        /\ opened' = [e \in Deployments |-> [opened[e] EXCEPT ![h] =
             IF e # d /\ @ = "staging" THEN "binary" ELSE "none"]]
        /\ Heard(d, h, "verify")
     \/ /\ staging[h] = "absent"
        /\ Heard(d, h, "failed")
        /\ opened' = [opened EXCEPT ![d][h] = "none"]
        /\ UNCHANGED <<binary, staging>>
  /\ Same /\ UNCHANGED <<agentDir, marker, disturbed, tainted>>

(* ----------------------------- uploadAgent()'s script -------------------- *)

(* rm -rf begins, and takes the entries away in any order. *)
Remove(d, h) ==
  /\ script[d][h] = "sendtar"
  /\ Becomes(d, h, "rm")
  /\ agentDir' = [agentDir EXCEPT ![h] = IF @ = "absent" THEN @ ELSE "partial"]
  /\ \E left \in BOOLEAN : marker' = [marker EXCEPT ![h] = @ /\ left]
  /\ Same /\ UNCHANGED <<step, cut, opened, staging, binary, disturbed, tainted>>

(* rm -rf ends: the directory is gone, also for a tar that has it open.    *)
Removed(d, h) ==
  /\ script[d][h] = "rm"
  /\ script' = [e \in Deployments |-> [script[e] EXCEPT ![h] =
       IF e = d THEN "mkdir" ELSE IF @ = "tar" THEN "orphan" ELSE @]]
  /\ agentDir' = [agentDir EXCEPT ![h] = "absent"]
  /\ marker' = [marker EXCEPT ![h] = FALSE]
  /\ tainted' = IF Others(d, h, "agent") = {} THEN tainted \ {h} ELSE tainted
  /\ Same /\ UNCHANGED <<step, cut, opened, staging, binary, disturbed>>

(* A plausible slip: marking the directory before it is unpacked. *)
MkdirMarks(d, h) ==
  /\ script[d][h] = "mkdir"
  /\ Becomes(d, h, "tar")
  /\ agentDir' = [agentDir EXCEPT ![h] = IF @ = "absent" THEN "partial" ELSE @]
  /\ marker' = [marker EXCEPT ![h] = TRUE]
  /\ Same /\ UNCHANGED <<step, cut, opened, staging, binary, disturbed, tainted>>

Mkdir(d, h) ==
  /\ script[d][h] = "mkdir"
  /\ Becomes(d, h, "tar")
  /\ agentDir' = [agentDir EXCEPT ![h] = IF @ = "absent" THEN "partial" ELSE @]
  /\ Same /\ UNCHANGED <<step, cut, opened, staging, binary, marker, disturbed, tainted>>

(* tar xzf - has read its archive to the end.  Beside another tar, or a    *)
(* removal, what it wrote may be there in part; with its directory gone it *)
(* got this far only if it had nothing left to write.                      *)
Unpack(d, h) ==
  /\ script[d][h] \in {"tar", "orphan"}
  /\ ~cut[d][h]
  /\ Becomes(d, h, "touch")
  /\ \E becomes \in IF script[d][h] = "orphan" THEN {agentDir[h]}
                    ELSE IF \E e \in Others(d, h, "agent") : script[e][h] \in {"rm", "tar"}
                         THEN {"partial", "whole"} ELSE {"whole"} :
       agentDir' = [agentDir EXCEPT ![h] = becomes]
  /\ Same /\ UNCHANGED <<step, cut, opened, staging, binary, marker, disturbed, tainted>>

Touch(d, h) ==
  /\ script[d][h] = "touch"
  /\ Ends(d, h)
  /\ marker' = [marker EXCEPT ![h] = @ \/ agentDir[h] # "absent"]
  /\ Heard(d, h, IF agentDir[h] # "absent" THEN "done" ELSE "failed")
  /\ Looked(d, h, "agent")
  /\ Same /\ UNCHANGED <<opened, staging, binary, agentDir, tainted>>

(* ------------------------------- what fails ------------------------------ *)

(* A full disk, a directory that is not writable, an entry that does not   *)
(* let itself be removed, the host going down; tar also fails on an        *)
(* archive that ends early.                                                *)
ScriptFails(d, h) ==
  /\ script[d][h] \in {"sendcat", "cat", "patch", "sendtar", "rm", "mkdir", "tar", "orphan"}
  /\ Ends(d, h)
  /\ opened' = [opened EXCEPT ![d][h] = "none"]
  /\ tainted' = IF script[d][h] = "rm" THEN tainted \cup {h} ELSE tainted
  /\ Heard(d, h, "failed")
  /\ Same /\ UNCHANGED <<fileVars, disturbed>>

(* An ssh fails: the host is not there, or the connection of an upload     *)
(* breaks; the script may have had all its bytes.                          *)
ConnectionBreaks(d, h) ==
  /\ phase[d] = "deploying" /\ step[d][h] \in Underway
  /\ Goto(d, h, "failed")
  /\ \E early \in BOOLEAN : cut' = [cut EXCEPT ![d][h] = early /\ script[d][h] # "none"]
  /\ Same /\ UNCHANGED <<script, opened, fileVars, disturbed, tainted>>

(* The process ends, and every connection with it: the first host that     *)
(* failed rejects deployFleet(), a signal kills what has no handler yet.   *)
Exit(d) ==
  /\ phase[d] \in {"deploying", "copying"}
  /\ phase' = [phase EXCEPT ![d] = "thrown"]
  /\ \E early \in SUBSET Hosts :
       cut' = [cut EXCEPT ![d] = [h \in Hosts |->
         @[h] \/ (h \in early /\ script[d][h] # "none")]]
  /\ UNCHANGED <<targets, mock, step, script, opened, fileVars, local, disturbed, tainted>>

(* ----------------------------- the near end ------------------------------ *)

(* Every host is done.  Without a local agent that is all, and with one    *)
(* installLocally() has nothing to do when the binary is there.            *)
RemotesDone(d) ==
  /\ phase[d] = "deploying" /\ \A h \in targets[d] : step[d][h] = "done"
  /\ \/ phase' = [phase EXCEPT ![d] = "done"]
     \/ ~mock[d] /\ ~local /\ phase' = [phase EXCEPT ![d] = "copying"]
  /\ UNCHANGED <<targets, mock, step, scriptVars, fileVars, local, disturbed, tainted>>

(* It is copied beside and renamed; the disk may be full, or another       *)
(* deployment may have renamed it first.                                   *)
InstallLocally(d) ==
  /\ phase[d] = "copying"
  /\ \/ phase' = [phase EXCEPT ![d] = "done"] /\ local' = TRUE
     \/ phase' = [phase EXCEPT ![d] = "thrown"] /\ UNCHANGED local
  /\ UNCHANGED <<targets, mock, step, scriptVars, fileVars, disturbed, tainted>>

HostStep(d, h) ==
  \/ Facts(d, h) \/ Hash(d, h) \/ Verify(d, h) \/ Marker(d, h) \/ ConnectionBreaks(d, h)
  \/ OpenStaging(d, h) \/ CatEnds(d, h) \/ Install(d, h)
  \/ Remove(d, h) \/ Removed(d, h) \/ Mkdir(d, h) \/ Unpack(d, h) \/ Touch(d, h)
  \/ ScriptFails(d, h)

NextDeploy ==
  \E d \in Deployments :
    \/ \E remote \in SUBSET Hosts : Begin(d, remote)
    \/ \E h \in Hosts : HostStep(d, h)
    \/ Exit(d) \/ RemotesDone(d) \/ InstallLocally(d)

DeploySpec == InitDeploy /\ [][NextDeploy]_deployVars

(* ------------------------------- properties ------------------------------ *)

TypeOKDeploy ==
  /\ phase \in [Deployments -> {"idle", "deploying", "copying", "done", "thrown"}]
  /\ targets \in [Deployments -> SUBSET Hosts]
  /\ mock \in [Deployments -> BOOLEAN]
  /\ step \in [Deployments -> [Hosts -> Underway \cup {"none", "done", "failed"}]]
  /\ script \in [Deployments -> [Hosts -> Uploads \cup Unpacks \cup {"none"}]]
  /\ cut \in [Deployments -> [Hosts -> BOOLEAN]]
  /\ opened \in [Deployments -> [Hosts -> {"none", "staging", "binary"}]]
  /\ staging \in [Hosts -> Contents]
  /\ binary \in [Hosts -> Contents]
  /\ agentDir \in [Hosts -> Contents]
  /\ marker \in [Hosts -> BOOLEAN]
  /\ local \in BOOLEAN
  /\ disturbed \in [Deployments -> [Hosts -> SUBSET {"binary", "agent"}]]
  /\ tainted \in SUBSET Hosts

(* deploy.ts 17-20, 273-276: what a deployment that succeeded names is     *)
(* there and whole on every host, whatever earlier ones left behind or     *)
(* left running: the binary unless somebody else's upload of one was under *)
(* way when the deployment last hashed it, or began later; the agent       *)
(* unless the same is true of an unpack, or the directory dates from a     *)
(* time when two unpacks crossed or a removal broke off.                   *)
DeployedRunnable ==
  \A d \in Deployments : phase[d] = "done" => \A h \in targets[d] :
    /\ \/ "agent" \in disturbed[d][h] \/ h \in tainted
       \/ marker[h] /\ agentDir[h] = "whole"
    /\ mock[d] \/ "binary" \in disturbed[d][h] \/ binary[h] = "whole"

(* deploy.ts 342-344: "two deploys racing on one host are two deploys of   *)
(* identical bytes, and `mv` is atomic": where nothing was cut off and     *)
(* nothing has failed, an upload that has ended has installed the binary.  *)
RacingIsHarmless ==
  \A h \in Hosts : (\A e \in Deployments : phase[e] # "thrown" /\ step[e][h] # "failed") =>
    \A d \in Deployments : step[d][h] = "verify" => binary[h] = "whole"
=============================================================================
