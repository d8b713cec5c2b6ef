-------------------------------- MODULE Launch --------------------------------
(***************************************************************************)
(* One evaluation as policy/VITRA/eval.sh starts it: a port is looked for, *)
(* the policy server is started on it in the background, a script waits    *)
(* until the port is listened on or the server has exited, the environment *)
(* client runs in the foreground, and an exit trap kills the server.       *)
(*                                                                         *)
(* The port is only found free, not kept: other programs of the host take  *)
(* and leave ports at any time.                                            *)
(***************************************************************************)
EXTENDS Naturals

CONSTANTS
  Ports,       \* ports of the host
  WaitTimeout, \* timeout_sec, in rounds of the waiting script
  Episodes,    \* eval_episode_num of the client
  NoPort

VARIABLES
  shell,     \* "start", "spawned", "waiting", "ready", "client", "exited"
  port,      \* policy_server_port
  yamlPort,  \* the port deploy.yml names, or NoPort
  pidKnown,  \* SERVER_PID is set
  killed,    \* the server was sent SIGTERM
  interrupted, \* a signal waits for the shell's foreground command
  server,    \* "none", "script", "loading", "serving", "dead"
  listener,  \* [Ports -> "none", "ours" or "foreign"]
  probe,     \* step of the waiting script: "alive" or "listening"
  elapsed,
  met,       \* history: who listened when the script reported the port ready
  client,    \* "none", "episode", "closed"
  episode

launchVars == <<shell, port, yamlPort, pidKnown, killed, interrupted, server, listener,
                probe, elapsed, met, client, episode>>
serverVars == <<server, listener>>
waitVars == <<probe, elapsed, met>>
clientVars == <<client, episode>>

LaunchInit ==
  /\ shell = "start" /\ port = NoPort /\ yamlPort \in Ports \cup {NoPort}
  /\ pidKnown = FALSE /\ killed = FALSE /\ interrupted = FALSE
  /\ server = "none" /\ listener = [p \in Ports |-> "none"]
  /\ probe = "alive" /\ elapsed = 0 /\ met = "none"
  /\ client = "none" /\ episode = 0

Foreground == shell \in {"waiting", "client"}

-----------------------------------------------------------------------------
(* Other programs.                                                         *)

ForeignTakes(p) ==
  /\ listener[p] = "none"
  /\ listener' = [listener EXCEPT ![p] = "foreign"]
  /\ UNCHANGED <<shell, port, yamlPort, pidKnown, killed, interrupted, server, waitVars,
                 clientVars>>

ForeignLeaves(p) ==
  /\ listener[p] = "foreign"
  /\ listener' = [listener EXCEPT ![p] = "none"]
  /\ UNCHANGED <<shell, port, yamlPort, pidKnown, killed, interrupted, server, waitVars,
                 clientVars>>

-----------------------------------------------------------------------------
(* The server process.                                                     *)

\* deploy.yml, then the overrides, then the flags: the last that is given wins.
Configured(file, override, flag) ==
  IF flag # NoPort THEN flag ELSE IF override # NoPort THEN override ELSE file

BindPort == Configured(yamlPort, port, port)

\* setup_eval_policy_server.sh refuses its arguments or finds no interpreter.
ScriptFails ==
  /\ server = "script" /\ server' = "dead"
  /\ UNCHANGED <<shell, port, yamlPort, pidKnown, killed, interrupted, listener, waitVars,
                 clientVars>>

\* The script replaces itself (exec): the process id stays.
ScriptExecs ==
  /\ server = "script" /\ server' = "loading"
  /\ UNCHANGED <<shell, port, yamlPort, pidKnown, killed, interrupted, listener, waitVars,
                 clientVars>>

\* The configuration is read and the model loaded before the port is bound.
Serve ==
  /\ server = "loading"
  /\ IF listener[BindPort] = "none"
     THEN server' = "serving" /\ listener' = [listener EXCEPT ![BindPort] = "ours"]
     ELSE server' = "dead" /\ UNCHANGED listener
  /\ UNCHANGED <<shell, port, yamlPort, pidKnown, killed, interrupted, waitVars, clientVars>>

\* It crashes, or obeys SIGTERM; its socket is closed with it.
ServerDies ==
  /\ server \in {"loading", "serving"} \/ (server = "script" /\ killed)
  /\ server' = "dead"
  /\ listener' = [p \in Ports |-> IF listener[p] = "ours" THEN "none" ELSE listener[p]]
  /\ UNCHANGED <<shell, port, yamlPort, pidKnown, killed, interrupted, waitVars, clientVars>>

-----------------------------------------------------------------------------
(* eval.sh                                                                 *)

\* The trap is set before the server is started.
PickPort(p) ==
  /\ shell = "start" /\ ~interrupted /\ listener[p] = "none"
  /\ port' = p /\ shell' = "spawned" /\ server' = "script"
  /\ UNCHANGED <<yamlPort, pidKnown, killed, interrupted, listener, waitVars, clientVars>>

RecordPid ==
  /\ shell = "spawned" /\ ~interrupted
  /\ pidKnown' = TRUE /\ shell' = "waiting"
  /\ UNCHANGED <<port, yamlPort, killed, interrupted, serverVars, waitVars, clientVars>>

\* cleanup: the exit trap.  Mutant: it is only set for failures.
KillsNever == FALSE
Kills == pidKnown

Exit ==
  /\ shell' = "exited"
  /\ killed' = (killed \/ Kills)
  /\ UNCHANGED <<port, yamlPort, pidKnown, interrupted, serverVars, clientVars>>

\* A signal is handled when the foreground command has ended.
Interrupt ==
  /\ shell # "exited" /\ ~interrupted
  /\ interrupted' = TRUE
  /\ UNCHANGED <<shell, port, yamlPort, pidKnown, killed, serverVars, waitVars, clientVars>>

Interrupted == interrupted /\ ~Foreground /\ shell # "exited" /\ Exit /\ UNCHANGED waitVars

-----------------------------------------------------------------------------
(* wait_for_policy_server.sh                                               *)

ServerGone ==
  /\ shell = "waiting" /\ probe = "alive" /\ server = "dead"
  /\ Exit /\ UNCHANGED waitVars

ServerAlive ==
  /\ shell = "waiting" /\ probe = "alive" /\ server # "dead"
  /\ probe' = "listening"
  /\ UNCHANGED <<shell, port, yamlPort, pidKnown, killed, interrupted, serverVars, elapsed,
                 met, clientVars>>

\* _port_is_listening looks at the port, not at who listens.
Listening ==
  /\ shell = "waiting" /\ probe = "listening" /\ listener[port] # "none"
  /\ met' = listener[port] /\ shell' = "ready"
  /\ UNCHANGED <<port, yamlPort, pidKnown, killed, interrupted, serverVars, probe, elapsed,
                 clientVars>>

NotListening ==
  /\ shell = "waiting" /\ probe = "listening" /\ listener[port] = "none"
  /\ IF elapsed < WaitTimeout
     THEN /\ elapsed' = elapsed + 1 /\ probe' = "alive"
          /\ UNCHANGED <<shell, port, yamlPort, pidKnown, killed, interrupted, serverVars, met,
                         clientVars>>
     ELSE Exit /\ UNCHANGED waitVars

-----------------------------------------------------------------------------
(* The environment client (debug_env_client.py).                           *)

StartClient ==
  /\ shell = "ready" /\ ~interrupted
  /\ shell' = "client" /\ client' = "episode" /\ episode' = 1
  /\ UNCHANGED <<port, yamlPort, pidKnown, killed, interrupted, serverVars, waitVars>>

\* reset, the adapter's evaluation loop, finish_episode.
RunEpisode ==
  /\ client = "episode"
  /\ IF episode < Episodes
     THEN episode' = episode + 1 /\ UNCHANGED client
     ELSE client' = "closed" /\ UNCHANGED episode
  /\ UNCHANGED <<shell, port, yamlPort, pidKnown, killed, interrupted, serverVars, waitVars>>

\* A call to the server, or an action of the wrong shape (take_action), raises;
\* the connection is closed all the same.
EpisodeFails ==
  /\ client = "episode" /\ client' = "closed"
  /\ UNCHANGED <<shell, port, yamlPort, pidKnown, killed, interrupted, serverVars, waitVars,
                 episode>>

ClientEnds == shell = "client" /\ client = "closed" /\ Exit /\ UNCHANGED waitVars

-----------------------------------------------------------------------------
LaunchNext ==
  \/ \E p \in Ports : ForeignTakes(p) \/ ForeignLeaves(p) \/ PickPort(p)
  \/ ScriptFails \/ ScriptExecs \/ Serve \/ ServerDies
  \/ RecordPid \/ Interrupt \/ Interrupted
  \/ ServerGone \/ ServerAlive \/ Listening \/ NotListening
  \/ StartClient \/ RunEpisode \/ EpisodeFails \/ ClientEnds

LaunchSpec == LaunchInit /\ [][LaunchNext]_launchVars
-----------------------------------------------------------------------------
\* However the evaluation ends - a refused argument, a server that never came
\* up, a failed episode, a signal - the client is gone and the server is dead or
\* told to die; only a signal between the start of the server and the
\* assignment of its process id leaves it running.
NothingLeftBehind ==
  shell = "exited" =>
    /\ client \in {"none", "closed"}
    /\ server \in {"none", "dead"} \/ killed \/ (interrupted /\ ~pidKnown)

\* The client starts only once somebody listened on the port while the server
\* was seen alive, and the server can only be listening where the script waits
\* and the client connects.  That it was the server needs that no other program
\* took the port meanwhile: the script does not see the difference.
ClientMeetsListener ==
  /\ client # "none" => met # "none" /\ elapsed <= WaitTimeout
  /\ \A p \in Ports : listener[p] = "ours" => p = port
=============================================================================
