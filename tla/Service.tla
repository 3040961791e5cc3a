------------------------------- MODULE Service -------------------------------
(***************************************************************************)
(* The life of the proxy service, pkg/relayvpn/api.go: Start and Stop, and *)
(* the calls that change the configuration and restart a running service.  *)
(*                                                                         *)
(* The desktop shell runs every call of the front end in a goroutine of    *)
(* its own, so calls overlap.  API.mu is held for single reads and writes  *)
(* of the status and of the server's pointer, never across the work in     *)
(* between, and the configuration file has no lock at all: a step ends     *)
(* where a call lets go of the lock or touches the file or the port.       *)
(*                                                                         *)
(* Of a configuration four things are kept: the listening port, the relay  *)
(* mode, one account's switch, and whether it is complete, that is,        *)
(* whether Validate accepts it; the file is there from the start.  The     *)
(* operating system lets one server listen on a port, so two starts with a *)
(* change of the port between them both succeed.                           *)
(* status.Running is State = "CONNECTED": the two are written together.    *)
(***************************************************************************)
EXTENDS FiniteSets, Functions

CONSTANTS
  Callers,   \* the goroutines that call the API
  Servers,   \* identities of listener.Server objects
  Ports,     \* the values of listen_port the user chooses from
  None       \* no server: a nil pointer

ASSUME ServiceAssumption ==
  /\ IsFiniteSet(Callers)
  /\ None \notin Servers
  /\ Ports # {}

Modes == {"apps_script", "vercel"}
Configs == [port : Ports, mode : Modes, on : BOOLEAN, complete : BOOLEAN]

VARIABLES
  file,     \* the configuration file
  state,    \* status.State
  server,   \* API.server (and API.sched, which goes with it)
  running,  \* the servers that listen, each with the configuration it uses
  call,     \* what each caller is doing: its place, its locals, and whether
            \* no other call has been in progress since it began
  crossed   \* history: two starts have overlapped, and no Stop since then
            \* has found none in progress

vars == <<file, state, server, running, call, crossed>>

Idle == [pc |-> "idle", op |-> "none", held |-> None, alone |-> FALSE,
         config |-> CHOOSE cfg \in Configs : ~cfg.complete]

Listening == DOMAIN running
Starting == {c \in Callers : call[c].pc \in {"load", "listen", "error", "publish"}}

Init ==
  /\ file \in {cfg \in Configs : cfg.on}
  /\ state = "DISCONNECTED"
  /\ server = None
  /\ running = [s \in {} |-> file]
  /\ call = [c \in Callers |-> Idle]
  /\ crossed = FALSE
-----------------------------------------------------------------------------
At(c, place) == call[c].pc = place
Goto(c, place) == call' = [call EXCEPT ![c].pc = place]
Return(c) == call' = [call EXCEPT ![c] = Idle]
(* Goes on with another server, and no more use for its configuration.     *)
Forget(c, place, s) ==
  call' = [call EXCEPT ![c].pc = place, ![c].held = s, ![c].config = Idle.config]

(* A call begins, with the configuration it was given or has just read.    *)
Begin(c, name, cfg, place) ==
  /\ At(c, "idle")
  /\ call' = [d \in Callers |->
       IF d = c
       THEN [pc |-> place, op |-> name, held |-> None, config |-> cfg,
             alone |-> \A e \in Callers : At(e, "idle")]
       ELSE [call[d] EXCEPT !.alone = FALSE]]
  /\ UNCHANGED <<file, state, server, running, crossed>>

BeginStart(c) == Begin(c, "start", Idle.config, "check")
BeginStop(c) == Begin(c, "stop", Idle.config, "take")
SaveConfig(c) == \E cfg \in Configs : Begin(c, "save", cfg, "write")

(* These change one field of what GetConfig returns, which is an error     *)
(* when the file does not validate.                                        *)
SetMode(c) ==
  /\ file.complete
  /\ \E mode \in Modes : Begin(c, "save", [file EXCEPT !.mode = mode], "write")
ToggleAccount(c) ==
  /\ file.complete
  /\ \/ Begin(c, "on", [file EXCEPT !.on = TRUE], "write")
     \/ Begin(c, "off", [file EXCEPT !.on = FALSE], "write")
MarkSetupCompleted(c) == file.complete /\ Begin(c, "setup", file, "write")

(* What a call does after its restart, or instead of it.                   *)
AfterStart(c) ==
  IF call[c].op \in {"on", "off"}
  THEN Forget(c, "switch", None)
  ELSE Return(c)

(* SaveDraft, as one step; when it fails the call returns.                 *)
Write(c) ==
  /\ At(c, "write")
  /\ \/ /\ file' = call[c].config
        /\ IF call[c].op = "setup" THEN Return(c) ELSE Goto(c, "look")
     \/ Return(c) /\ UNCHANGED file
  /\ UNCHANGED <<state, server, running, crossed>>

\* Mutant: the change waits for the next start.
LookWithoutRestart(c) ==
  /\ At(c, "look")
  /\ AfterStart(c)
  /\ UNCHANGED <<file, state, server, running, crossed>>

(* SaveConfig restarts a running service if the new configuration is valid.*)
Look(c) ==
  LET restart == state = "CONNECTED" /\ call[c].config.complete
  IN  /\ At(c, "look")
      /\ \/ restart /\ Forget(c, "take", None)
         \/ ~restart /\ AfterStart(c)
      /\ UNCHANGED <<file, state, server, running, crossed>>
-----------------------------------------------------------------------------
(* Stop, also as the first half of a restart.                              *)

\* Mutants: Stop returns when the status says it is not running; the status
\* is left for later.
TakeIfConnected(c) ==
  /\ At(c, "take")
  /\ IF state = "CONNECTED"
     THEN /\ Forget(c, "close", server)
          /\ server' = None /\ state' = "DISCONNECTED"
     ELSE Return(c) /\ UNCHANGED <<server, state>>
  /\ UNCHANGED <<file, running, crossed>>
TakeQuietly(c) ==
  /\ At(c, "take")
  /\ Forget(c, "close", server)
  /\ server' = None
  /\ UNCHANGED <<file, state, running, crossed>>

Take(c) ==
  /\ At(c, "take")
  /\ Forget(c, "close", server)
  /\ server' = None /\ state' = "DISCONNECTED"
  /\ crossed' = (crossed /\ Starting # {})
  /\ UNCHANGED <<file, running>>

Close(c) ==
  /\ At(c, "close")
  /\ running' = Restrict(running, Listening \ {call[c].held})
  /\ IF call[c].op = "stop" THEN Return(c)
     ELSE Forget(c, "check", None)
  /\ UNCHANGED <<file, state, server, crossed>>
-----------------------------------------------------------------------------
(* Start, also as the second half of a restart.                            *)

Check(c) ==
  /\ At(c, "check")
  /\ \/ state = "CONNECTED" /\ AfterStart(c) /\ UNCHANGED <<state, crossed>>
     \/ /\ state # "CONNECTED" /\ state' = "CONNECTING" /\ Goto(c, "load")
        /\ crossed' = (crossed \/ Starting # {})
  /\ UNCHANGED <<file, server, running>>

(* config.Load, which validates, the CA and the scheduler's state file.    *)
Load(c) ==
  /\ At(c, "load")
  /\ \/ /\ file.complete
        /\ call' = [call EXCEPT ![c].pc = "listen", ![c].config = file]
     \/ Goto(c, "error")
  /\ UNCHANGED <<file, state, server, running, crossed>>

(* Server.Start, which fails when one listens on that port; the SOCKS port *)
(* or another program may make it fail as well.                            *)
Listen(c) ==
  /\ At(c, "listen")
  /\ \/ /\ \A t \in Listening : running[t].port # call[c].config.port
        /\ \E s \in Servers \ Listening :
             /\ s # server /\ \A d \in Callers : call[d].held # s
             /\ running' = [t \in Listening \cup {s} |->
                              IF t = s THEN call[c].config ELSE running[t]]
             /\ Forget(c, "publish", s)
     \/ Forget(c, "error", None) /\ UNCHANGED running
  /\ UNCHANGED <<file, state, server, crossed>>

(* setError.                                                               *)
SetError(c) ==
  /\ At(c, "error")
  /\ state' = "ERROR"
  /\ AfterStart(c)
  /\ UNCHANGED <<file, server, running, crossed>>

\* Mutant: a Start that was stopped meanwhile gives up.
PublishUnlessStopped(c) ==
  /\ At(c, "publish")
  /\ IF state = "DISCONNECTED" THEN UNCHANGED <<server, state>>
     ELSE server' = call[c].held /\ state' = "CONNECTED"
  /\ AfterStart(c)
  /\ UNCHANGED <<file, running, crossed>>

Publish(c) ==
  /\ At(c, "publish")
  /\ server' = call[c].held /\ state' = "CONNECTED"
  /\ AfterStart(c)
  /\ UNCHANGED <<file, running, crossed>>

(* ToggleAccount's last step, SetAccountEnabled on the scheduler in use.   *)
Switch(c) ==
  /\ At(c, "switch")
  /\ running' = IF server = None THEN running
                ELSE [running EXCEPT ![server].on = (call[c].op = "on")]
  /\ Return(c)
  /\ UNCHANGED <<file, state, server, crossed>>

Call(c) == BeginStart(c) \/ BeginStop(c) \/ SetMode(c) \/ ToggleAccount(c)
           \/ SaveConfig(c) \/ MarkSetupCompleted(c)

Work(c) == \/ Write(c) \/ Look(c) \/ Take(c) \/ Close(c) \/ Check(c) \/ Load(c)
           \/ Listen(c) \/ SetError(c) \/ Publish(c) \/ Switch(c)

Next == \E c \in Callers : Call(c) \/ Work(c)

Spec == Init /\ [][Next]_vars
-----------------------------------------------------------------------------
(* Properties.                                                             *)

(* However starts, stops and restarts overlap, the screen never shows a    *)
(* connection that no listener serves.  (The converse fails: the error of  *)
(* a second Start that found the port taken hides the first one's server.) *)
ConnectedIsListening == state = "CONNECTED" => server \in Listening

(* The servers out of reach: they listen, but neither API.server, where    *)
(* the next Stop looks, nor a call that will publish or close has them.    *)
Orphans == {s \in Listening : s # server /\ \A c \in Callers : call[c].held # s}

(* Publish overwrites API.server without a look.  Whatever starts, stops   *)
(* and restarts there have been, a server gets out of reach only when two  *)
(* starts have overlapped, and no later than the next Stop that finds none *)
(* in progress: from there on the program is as good as new, but for the   *)
(* servers already lost.                                                   *)
OrphansOnlyBehindOverlap == [][Orphans' \subseteq Orphans \/ crossed]_vars

Returns(c, ops) ==
  ~At(c, "idle") /\ call'[c].pc = "idle" /\ call[c].op \in ops /\ call[c].alone

(* A Stop that ran alone leaves nothing listening but what was out of      *)
(* reach, whatever mixture of errors and half-done starts it found.        *)
LoneStopStops ==
  [][\A c \in Callers : Returns(c, {"stop"}) => Listening' \subseteq Orphans]_vars

(* What the user is told: Stop logs "XenRelayProxy stopped" (api.go:227),  *)
(* the window "Proxy disconnected." (i18n.ts:32).  When nothing is in      *)
(* progress and the state is DISCONNECTED, nothing listens.                *)
DisconnectedIsSilent ==
  (\A c \in Callers : At(c, "idle")) /\ state = "DISCONNECTED" => Listening = {}

(* "Auto-restart the listener if it's currently running so settings ...    *)
(* apply immediately" (api.go:285): when a change that could be written,   *)
(* by a call that ran alone, has returned and the service is connected,    *)
(* the service works with the configuration on file, or that one is        *)
(* incomplete.                                                             *)
LoneChangeApplies ==
  [][\A c \in Callers : Returns(c, {"save", "on", "off"}) /\ ~At(c, "write") =>
       (state' = "CONNECTED" => running'[server'] = file' \/ ~file'.complete)]_vars
=============================================================================
