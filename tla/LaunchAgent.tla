---------------------------- MODULE LaunchAgent ----------------------------
(***************************************************************************)
(* Deployment of the Host as a service of macOS: launch_agent.rs.  The      *)
(* running service is stopped, the executable and the property list are     *)
(* replaced, the service is started, and the deployment waits until the new *)
(* Host answers over its socket.  When any of this fails the files and the  *)
(* service are put back as they were.                                       *)
(*                                                                         *)
(* launchd is external: it starts the installed executable while the        *)
(* service is loaded, again whenever it ends; "bootout" asks it to stop and *)
(* kills it when that takes too long; "kickstart -k" kills it.              *)
(***************************************************************************)
EXTENDS HostSocket

CONSTANTS Deployer,    \* the caller that deploys
          MaxDeploys   \* bound: deployments and removals

ASSUME DeployConstants == Deployer \in Callers /\ MaxDeploys \in Nat

VARIABLES binary, plist,  \* the installed files: "none" or a version
          loaded,         \* external: launchd has the service
          deploy,         \* the operation that holds the management lock
          deploys

agentVars == <<binary, plist, loaded, deploy, deploys>>
launchVars == <<socketVars, agentVars>>

NoDeploy == [at |-> "idle", phase |-> "none", binary |-> "none", plist |-> "none",
             loaded |-> FALSE, health |-> [id |-> 0, version |-> "none"], result |-> "none"]

Installed(version, is) == binary = version /\ plist = version /\ loaded = is

LaunchInit ==
  /\ SocketInit
  /\ Installed("none", FALSE) \/ Installed("old", FALSE) \/ Installed("old", TRUE)
  /\ deploy = NoDeploy /\ deploys = 0

-----------------------------------------------------------------------------
(* launchd and the Host (external).                                        *)

LaunchdStarts(h) ==
  /\ loaded /\ binary # "none" /\ OpenHost(h, binary)
  /\ UNCHANGED agentVars

\* The Host ends: launchd asks it to, or its loop ends on an error of its own.  One that has
\* not come that far is killed by the signal.
LaunchdStops(h) ==
  /\ StopServing(h) \/ (~loaded /\ HostAt(h, "look") /\ Perish(h) /\ UNCHANGED breaks)
  /\ UNCHANGED agentVars

-----------------------------------------------------------------------------
(* deploy.                                                                 *)

DeployAt(stage) == deploy.at = stage
Onward(stage) == deploy' = [deploy EXCEPT !.at = stage]
Result(r) == deploy' = [deploy EXCEPT !.at = "idle", !.result = r]
Undoing == deploy.phase = "undo"

FilesKept == UNCHANGED <<binary, plist>>
OwnStep == UNCHANGED deploys /\ UNCHANGED socketVars

\* The activation failed: what runs is stopped before anything is put back.
Undo ==
  IF Undoing THEN Result("rollback_failed")
  ELSE deploy' = [deploy EXCEPT !.phase = "undo", !.at = IF loaded THEN "bootout" ELSE "stopped"]

\* The management lock; the files as they are; an upgrade needs both of them.
BeginDeploy(mode) ==
  LET before == [NoDeploy EXCEPT !.phase = "activate", !.binary = binary, !.plist = plist, !.loaded = loaded]
  IN
  /\ DeployAt("idle") /\ deploys < MaxDeploys /\ deploys' = deploys + 1
  /\ deploy' = IF mode = "upgrade" /\ (binary = "none" \/ plist = "none")
               THEN [before EXCEPT !.result = "refused"]
               ELSE [before EXCEPT !.at = IF mode = "upgrade" THEN "look upgrade" ELSE "look"]
  /\ UNCHANGED <<binary, plist, loaded>> /\ UNCHANGED socketVars

\* query_health, over and over while the deployment waits for an answer.
AskHealth ==
  /\ deploy.at \in {"look", "look upgrade", "healthy"}
  /\ requests[Deployer].at = "idle" /\ Call(Deployer, "health", 0)
  /\ UNCHANGED agentVars

HealthCall == requests[Deployer]
HealthCalled == AtCall(Deployer, "over") /\ CallOver(Deployer)
TemporarilyUnavailable == HealthCall.told \in {"offline", "nothing"}
\* The call is forgotten.
Forget == requests' = [requests EXCEPT ![Deployer] = NoCall]
          /\ UNCHANGED <<control, slot, binds, calls, breaks>> /\ UNCHANGED processVars

\* current_health, and the cases in which nothing is touched.
CurrentHealth ==
  LET healthy == HealthCall.told = "health"
      refused == \/ ~healthy /\ ~TemporarilyUnavailable
                 \/ ~deploy.loaded /\ healthy
                 \/ DeployAt("look upgrade") /\ deploy.loaded /\ ~healthy
  IN
  /\ deploy.at \in {"look", "look upgrade"} /\ HealthCalled /\ Forget
  /\ deploy' = IF refused THEN [deploy EXCEPT !.at = "idle", !.result = "refused"]
               ELSE [deploy EXCEPT !.at = IF deploy.loaded THEN "bootout" ELSE "binary",
                                   !.health = IF healthy THEN [id |-> HealthCall.conn, version |-> HealthCall.version]
                                              ELSE @]
  /\ UNCHANGED <<binary, plist, loaded, deploys>>

BootOut ==
  /\ DeployAt("bootout") /\ loaded' = FALSE /\ Onward("stopped")
  /\ FilesKept /\ OwnStep

\* wait_stopped: the service is unloaded and its socket stays absent for STOP_STABLE_WINDOW.
\* A timing assumption: in that window a Host that was starting has shown its socket or has
\* ended; the code looks at the socket only.
WaitStopped ==
  /\ DeployAt("stopped") /\ ~loaded /\ socketFile = 0 /\ Onward("binary")
  /\ \A h \in HostProcesses : hosts[h].at \notin {"look", "retire", "bind", "publish"}
  /\ UNCHANGED <<binary, plist, loaded>> /\ OwnStep

\* write_atomic_owned, or restore_file.
WriteBinary ==
  /\ DeployAt("binary") /\ Onward("plist")
  /\ binary' = IF Undoing THEN deploy.binary ELSE "new"
  /\ UNCHANGED <<plist, loaded>> /\ OwnStep

\* Mutant of WritePlist: the roll-back leaves the new property list.
WritePlistOnly ==
  /\ DeployAt("plist")
  /\ plist' = "new"
  /\ IF Undoing /\ ~deploy.loaded THEN Result("activation_failed")
     ELSE IF Undoing /\ deploy.health.id = 0 THEN Result("rollback_failed") ELSE Onward("bootstrap")
  /\ UNCHANGED <<binary, loaded>> /\ OwnStep

\* A service that was not loaded is not started again; one that was loaded and had not
\* answered cannot be put back.
WritePlist ==
  /\ DeployAt("plist")
  /\ plist' = IF Undoing THEN deploy.plist ELSE "new"
  /\ IF Undoing /\ ~deploy.loaded THEN Result("activation_failed")
     ELSE IF Undoing /\ (deploy.health.id = 0 \/ deploy.plist = "none") THEN Result("rollback_failed")
     ELSE Onward("bootstrap")
  /\ UNCHANGED <<binary, loaded>> /\ OwnStep

Bootstrap ==
  /\ DeployAt("bootstrap") /\ loaded' = TRUE /\ Onward("kickstart")
  /\ FilesKept /\ OwnStep

KickStart ==
  /\ DeployAt("kickstart") /\ Onward("healthy")
  /\ \/ \E h \in HostProcesses : Perish(h) /\ UNCHANGED breaks
     \/ (\A h \in HostProcesses : HostAt(h, "down")) /\ UNCHANGED socketVars
  /\ UNCHANGED <<binary, plist, loaded, deploys>>

\* The Host that is waited for: of the version, and not the one from before.
Awaited ==
  /\ HealthCall.told = "health"
  /\ HealthCall.version = IF Undoing THEN deploy.health.version ELSE "new"
  /\ HealthCall.conn # deploy.health.id
  /\ Listening(HealthCall.conn)

\* wait_healthy: another answer than the awaited one is asked again; one that is neither
\* an answer nor a Host that is not there yet ends the wait.
WaitHealthy ==
  /\ DeployAt("healthy") /\ HealthCalled /\ Forget
  /\ IF Awaited THEN Result(IF Undoing THEN "activation_failed" ELSE "ok")
     ELSE IF HealthCall.told = "health" \/ TemporarilyUnavailable THEN UNCHANGED deploy
     ELSE Undo
  /\ UNCHANGED <<binary, plist, loaded, deploys>>

\* A deadline passes while the deployment waits.
WaitExpires ==
  /\ \/ DeployAt("stopped") /\ UNCHANGED requests
     \/ DeployAt("healthy") /\ (AtCall(Deployer, "idle") \/ HealthCalled)
        /\ requests' = [requests EXCEPT ![Deployer] = NoCall]
  /\ Undo
  /\ UNCHANGED <<control, slot, binds, calls, breaks>> /\ UNCHANGED processVars
  /\ UNCHANGED <<binary, plist, loaded, deploys>>

\* A call of launchctl or a write fails; a write that puts a file back is not tried again.
DeployStepFails ==
  /\ deploy.at \in {"bootout", "binary", "plist", "bootstrap", "kickstart"} /\ Break
  /\ IF Undoing /\ deploy.at \in {"binary", "plist"} THEN Result("failed") ELSE Undo
  /\ UNCHANGED <<binary, plist, loaded, deploys>> /\ UNCHANGED <<processVars, callVars>>

DeployKilled ==
  /\ ~DeployAt("idle") /\ (AtCall(Deployer, "idle") \/ CallOver(Deployer)) /\ Break
  /\ deploy' = [NoDeploy EXCEPT !.result = "killed"]
  /\ requests' = [requests EXCEPT ![Deployer] = NoCall]
  /\ UNCHANGED <<control, slot, binds, calls>> /\ UNCHANGED processVars
  /\ UNCHANGED <<binary, plist, loaded, deploys>>

\* uninstall: the service, the property list, the executable, then the socket.
BeginUninstall ==
  /\ DeployAt("idle") /\ deploys < MaxDeploys /\ deploys' = deploys + 1
  /\ deploy' = [NoDeploy EXCEPT !.at = "remove", !.phase = "remove"] /\ loaded' = FALSE
  /\ FilesKept /\ UNCHANGED socketVars

RemoveFiles ==
  /\ \/ DeployAt("remove") /\ plist' = "none" /\ Onward("remove binary") /\ UNCHANGED binary
     \/ DeployAt("remove binary") /\ binary' = "none" /\ Onward("gone") /\ UNCHANGED plist
     \/ DeployAt("gone") /\ Result(IF socketFile = 0 THEN "removed" ELSE "stop_failed") /\ FilesKept
  /\ UNCHANGED loaded /\ OwnStep

-----------------------------------------------------------------------------
DeploySteps ==
  \/ \E mode \in {"install", "upgrade"} : BeginDeploy(mode)
  \/ AskHealth \/ CurrentHealth \/ BootOut \/ WaitStopped \/ WriteBinary \/ WritePlist \/ Bootstrap
  \/ KickStart \/ WaitHealthy \/ WaitExpires \/ DeployStepFails \/ DeployKilled
  \/ BeginUninstall \/ RemoveFiles

LaunchNext ==
  \/ \E h \in HostProcesses : LaunchdStarts(h) \/ LaunchdStops(h) \/ (HostSteps(h) /\ UNCHANGED agentVars)
  \/ \E c \in Callers : CallSteps(c) /\ UNCHANGED agentVars
  \/ DeploySteps

LaunchSpec == LaunchInit /\ [][LaunchNext]_launchVars

-----------------------------------------------------------------------------
\* A deployment that says it succeeded left the new Host installed and loaded; one that says
\* it did not activate the new one left everything as it had found it; and whoever serves
\* after either is of the version that is installed.  A Host that crashes, restarts or is slow
\* to stop at any point in between changes nothing about that
\* (launch_agent.rs deploy, wait_stopped, wait_healthy).
DeployIsWhole ==
  DeployAt("idle") =>
    /\ deploy.result = "ok" => Installed("new", TRUE)
    /\ deploy.result \in {"refused", "activation_failed"} =>
         binary = deploy.binary /\ plist = deploy.plist /\ loaded = deploy.loaded
    /\ deploy.result \in {"ok", "activation_failed"} =>
         \A h \in HostProcesses : HostAt(h, "serving") => hosts[h].version = binary
=============================================================================
