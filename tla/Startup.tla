------------------------------ MODULE Startup ------------------------------
(***************************************************************************)
(* Commands that find, start and stop the server (main.rs, server_start.rs, *)
(* client.rs, startup.rs) and server processes from their start to their    *)
(* end (server_start.rs 73-118, paths.rs, ipc/unix.rs, Server::new): a       *)
(* lock, a socket and a PID file in one directory, which processes that     *)
(* crash leave as they are.  A server may be of another build, whose         *)
(* protocol this one does not speak.                                        *)
(***************************************************************************)
EXTENDS Naturals, FiniteSets, Sequences

CONSTANTS Commands,    \* processes of `svarm ...`, and what each is for:
          Purposes,    \* "launch", "attach", "stop" or "server stop", as functions
          Servers,     \* processes of `svarm __server`
          Foreign,     \* those of another build
          MaxSessions, \* session identifiers a server gives out
          MaxKeys,     \* keys pressed in a chooser
          None

StartupAssumption ==
  /\ Foreign \subseteq Servers /\ None \notin Servers \cup Nat /\ MaxSessions \in Nat
  /\ Purposes \subseteq [Commands -> {"launch", "attach", "stop", "server stop"}]

VARIABLES lock,     \* the process whose flock holds server.lock, or None
          socket,   \* the process whose listener server.sock is, or None
          pidfile,  \* the process server.pid names, or None
          server,   \* server[s]: how far the process is
          sessions, \* the sessions of the server that serves
          command,  \* command[c]: how far, and what it knows
          keys

vars == <<lock, socket, pidfile, server, sessions, command, keys>>
files == <<lock, socket, pidfile>>

Dead == {"unborn", "exited", "crashed", "stopped"}
Bound == {"bound", "serving", "stopping"}
Starting == {"starting", "locked", "clearing", "binding", "bound"}

(* What an attempt to reach the socket finds: a listener that does not     *)
(* answer yet keeps the handshake waiting until it does or goes.            *)
Answers == socket # None /\ server[socket] = "serving"
Silent == socket = None \/ server[socket] \in Dead
Probed == IF Silent THEN "none" ELSE IF ~Answers THEN "waiting"
          ELSE IF socket \in Foreign THEN "incompatible" ELSE "running"

Ids(n) == 1..n
NewSession == 0
InOrder(set) ==
  CHOOSE s \in UNION {[Ids(n) -> set] : n \in 0..MaxSessions} :
    /\ \A i, j \in DOMAIN s : i < j => s[i] < s[j]
    /\ \A id \in set : \E i \in DOMAIN s : s[i] = id

-----------------------------------------------------------------------------
(* run_server: from the lock to the PID file, and back. *)

Become(s, step) == server' = [server EXCEPT ![s] = step]

AnyLock(s) == TRUE
TakesLock(s) == lock = None

TryLock(s) ==
  /\ server[s] = "starting"
  /\ IF TakesLock(s) THEN lock' = s /\ Become(s, "locked")
     ELSE lock' = lock /\ Become(s, "exited")
  /\ UNCHANGED <<socket, pidfile, sessions, command, keys>>

(* It ends without a word if another server answers, and with an error if  *)
(* one of another build does or none does in time.                          *)
ProbeFirst(s) ==
  /\ server[s] = "locked"
  /\ IF Probed = "none" THEN Become(s, "clearing") /\ lock' = lock
     ELSE Become(s, "exited") /\ lock' = None
  /\ UNCHANGED <<socket, pidfile, sessions, command, keys>>

RemoveStale(s) ==
  /\ server[s] = "clearing" /\ socket' = None /\ Become(s, "binding")
  /\ UNCHANGED <<lock, pidfile, sessions, command, keys>>

(* UnixListenerGuard::bind, the first thing of Server::new. *)
Bind(s) ==
  /\ server[s] = "binding"
  /\ IF socket = None THEN socket' = s /\ lock' = lock /\ Become(s, "bound")
     ELSE lock' = None /\ Become(s, "exited") /\ UNCHANGED socket
  /\ UNCHANGED <<pidfile, sessions, command, keys>>

(* The saved sessions are restored and ready() writes the PID; a failure   *)
(* of either ends the server, which takes its socket away.                  *)
Ready(s) ==
  /\ server[s] = "bound" /\ pidfile' = s /\ Become(s, "serving")
  /\ \E n \in 0..MaxSessions : sessions' = Ids(n)
  /\ UNCHANGED <<lock, socket, command, keys>>
Fail(s) ==
  /\ server[s] = "bound" /\ Become(s, "unbound")
  /\ socket' = None /\ UNCHANGED <<lock, pidfile, sessions, command, keys>>

(* SIGTERM, or the end of idleness; StopServer is a command's. *)
Shutdown(s) ==
  /\ server[s] = "serving" /\ Become(s, "stopping")
  /\ UNCHANGED <<files, sessions, command, keys>>

(* The guard's Drop removes whatever is at its path. *)
Unbind(s) ==
  /\ server[s] = "stopping" /\ socket' = None /\ sessions' = {} /\ Become(s, "unbound")
  /\ UNCHANGED <<lock, pidfile, command, keys>>
RemovePid(s) ==
  /\ server[s] = "unbound" /\ pidfile' = None /\ Become(s, "leaving")
  /\ UNCHANGED <<lock, socket, sessions, command, keys>>
Exit(s) ==
  /\ server[s] = "leaving" /\ Become(s, "stopped")
  /\ lock' = (IF lock = s THEN None ELSE lock)
  /\ UNCHANGED <<socket, pidfile, sessions, command, keys>>

(* A process that is killed keeps no lock, and leaves its files. *)
Crash(s) ==
  /\ server[s] \notin Dead /\ Become(s, "crashed")
  /\ lock' = (IF lock = s THEN None ELSE lock)
  /\ sessions' = (IF server[s] \in {"serving", "stopping"} THEN {} ELSE sessions)
  /\ UNCHANGED <<socket, pidfile, command, keys>>

-----------------------------------------------------------------------------
(* Commands.  at: "idle", "waiting" (ensure_server polls), "listing",       *)
(* "choosing", "targeted", "asking" (a confirmation), "dying" (waiting for  *)
(* a server to go), "done" or "failed".                                     *)

To(c, what) == command' = [command EXCEPT ![c] = what]
At(c, step) == To(c, [command[c] EXCEPT !.at = step])
AllowNew(c) == command[c].purpose = "launch"

(* ensure_server, or the probe every other command begins with.  A server  *)
(* about to serve answers within CONTROL_TIMEOUT, one that stops does not.   *)
Begin(c) ==
  /\ command[c].at = "idle"
  /\ CASE Probed = "running" -> At(c, IF command[c].purpose = "server stop" THEN "asking" ELSE "listing") /\ server' = server
       [] Probed = "incompatible" ->
            /\ To(c, IF command[c].purpose = "server stop" /\ pidfile # None
                     THEN [command[c] EXCEPT !.at = "asking", !.pid = pidfile]
                     ELSE [command[c] EXCEPT !.at = "failed"])
            /\ server' = server
       [] Probed = "none" /\ command[c].purpose \in {"launch", "attach"} ->
            \E s \in {p \in Servers \ Foreign : server[p] = "unborn"} : Become(s, "starting") /\ At(c, "waiting")
       [] Probed = "none" /\ command[c].purpose \notin {"launch", "attach"} -> At(c, "done") /\ server' = server
       [] OTHER -> server[socket] = "stopping" /\ At(c, "failed") /\ server' = server
  /\ UNCHANGED <<files, sessions, keys>>

(* Every 25 ms until STARTUP_DEADLINE; errors are only remembered.  The     *)
(* deadline is taken to be longer than any start.                           *)
WaitPolls(c) ==
  /\ command[c].at = "waiting"
  /\ \/ Probed = "running" /\ At(c, "listing")
     \/ Probed \in {"none", "incompatible"} /\ (\A s \in Servers : server[s] \notin Starting) /\ At(c, "failed")
  /\ UNCHANGED <<files, server, sessions, keys>>
WaitOnce(c) ==
  /\ command[c].at = "waiting"
  /\ \/ Probed = "running" /\ At(c, "listing")
     \/ Probed = "none" /\ At(c, "failed")
  /\ UNCHANGED <<files, server, sessions, keys>>
Wait(c) == WaitPolls(c)

(* discovery_route and the choosers *)
Chooser(c, list) == [command[c] EXCEPT !.at = "choosing", !.list = list, !.selected = 1]
Targeted(c, target) == [command[c] EXCEPT !.at = "targeted", !.target = target]

List(c) ==
  /\ command[c].at = "listing"
  /\ IF ~Answers \/ socket \in Foreign THEN At(c, "failed")
     ELSE CASE sessions = {} /\ AllowNew(c) -> To(c, Targeted(c, NewSession))
            [] sessions = {} /\ ~AllowNew(c) /\ command[c].purpose = "attach" -> At(c, "failed")
            [] (\E id \in sessions : sessions = {id}) /\ command[c].purpose = "attach" -> To(c, Targeted(c, CHOOSE id \in sessions : TRUE))
            [] OTHER -> To(c, Chooser(c, InOrder(sessions)))
  /\ UNCHANGED <<files, server, sessions, keys>>

RowsWithNew(c) == Len(command[c].list) + 1
RowCount(c) == Len(command[c].list) + (IF AllowNew(c) THEN 1 ELSE 0)
Chosen(c) ==
  IF command[c].selected \in DOMAIN command[c].list THEN command[c].list[command[c].selected] ELSE NewSession

ChooserKey(c) ==
  /\ command[c].at = "choosing" /\ keys < MaxKeys /\ keys' = keys + 1
  /\ LET count == RowCount(c)
         selected == command[c].selected
         select(i) == To(c, [command[c] EXCEPT !.selected = i])
     IN \/ count > 0 /\ select((selected % count) + 1)
        \/ count > 0 /\ select(IF selected = 1 THEN count ELSE selected - 1)
        \/ \E i \in 1..count : To(c, [Targeted(c, command[c].target) EXCEPT  \* a click chooses and confirms
             !.selected = i, !.target = IF i \in DOMAIN command[c].list THEN command[c].list[i] ELSE NewSession])
        \/ selected \in 1..count /\ To(c, Targeted(c, Chosen(c)))
        \/ AllowNew(c) /\ To(c, Targeted(c, NewSession))
        \/ At(c, "done")
  /\ UNCHANGED <<files, server, sessions>>

(* The interactive client's own connection; or StopSession, confirmed. *)
Use(c) ==
  /\ command[c].at = "targeted"
  /\ IF ~Answers \/ socket \in Foreign THEN At(c, "failed") /\ sessions' = sessions
     ELSE \/ /\ command[c].target = NewSession /\ Cardinality(sessions) < MaxSessions /\ At(c, "done")
             /\ \E id \in Ids(MaxSessions) \ sessions : sessions' = sessions \cup {id}
          \/ /\ command[c].target # NewSession /\ command[c].purpose = "stop"
             /\ At(c, IF command[c].target \in sessions THEN "done" ELSE "failed")
             /\ sessions' = sessions \ {command[c].target}
          \/ /\ command[c].target # NewSession /\ command[c].purpose # "stop"
             /\ At(c, IF command[c].target \in sessions THEN "done" ELSE "failed") /\ sessions' = sessions
          \/ /\ command[c].target = NewSession /\ Cardinality(sessions) = MaxSessions /\ At(c, "failed") /\ sessions' = sessions
  /\ UNCHANGED <<files, server, keys>>

(* `svarm server stop`, after "y": a request, or a signal to the PID read. *)
StopServer(c) ==
  /\ command[c].at = "asking"
  /\ IF command[c].pid = None
     THEN IF Answers /\ socket \notin Foreign THEN Become(socket, "stopping") /\ At(c, "done")
          ELSE server' = server /\ At(c, "failed")
     ELSE IF server[command[c].pid] \in Dead THEN server' = server /\ At(c, "failed")
          ELSE /\ At(c, "dying")
               /\ IF server[command[c].pid] = "serving" THEN Become(command[c].pid, "stopping") ELSE server' = server
  /\ UNCHANGED <<files, sessions, keys>>
Decline(c) ==
  /\ command[c].at = "asking" /\ At(c, "done") /\ UNCHANGED <<files, server, sessions, keys>>
AwaitEnd(c) ==
  /\ command[c].at = "dying" /\ Probed = "none" /\ At(c, "done") /\ UNCHANGED <<files, server, sessions, keys>>

-----------------------------------------------------------------------------
(* No server, what a crash left, or a server of another build. *)
Init ==
  /\ \E purpose \in Purposes :
       command = [c \in Commands |-> [purpose |-> purpose[c], at |-> "idle", list |-> <<>>, selected |-> 1, target |-> None, pid |-> None]]
  /\ keys = 0 /\ sessions = {}
  /\ \/ /\ lock = None /\ socket = None /\ pidfile = None
        /\ server = [s \in Servers |-> IF s \in Foreign THEN "exited" ELSE "unborn"]
     \/ \E s \in Foreign, state \in {"serving", "exited"} :
          /\ lock = (IF state = "serving" THEN s ELSE None) /\ socket = s /\ pidfile = s
          /\ server = [p \in Servers |-> IF p = s THEN state ELSE IF p \in Foreign THEN "exited" ELSE "unborn"]

Next ==
  \/ \E s \in Servers : \/ TryLock(s) \/ ProbeFirst(s) \/ RemoveStale(s) \/ Bind(s) \/ Ready(s) \/ Fail(s)
                        \/ Shutdown(s) \/ Unbind(s) \/ RemovePid(s) \/ Exit(s) \/ Crash(s)
  \/ \E c \in Commands : \/ Begin(c) \/ Wait(c) \/ List(c) \/ ChooserKey(c) \/ Use(c)
                         \/ StopServer(c) \/ Decline(c) \/ AwaitEnd(c)

Spec == Init /\ [][Next]_vars

-----------------------------------------------------------------------------
(* Values of the variables. *)
TypeOK ==
  /\ {lock, socket, pidfile} \subseteq Servers \cup {None}
  /\ sessions \subseteq Ids(MaxSessions)
  /\ \A c \in Commands : command[c].at = "choosing" => command[c].selected <= Len(command[c].list) + 1

(* A server that serves is the one at the socket, the one the PID file     *)
(* names and the one that holds the lock, whatever other processes start,   *)
(* end or crash: there is one server, and it can be reached and stopped.    *)
ServingIsKnown ==
  \A s \in Servers : server[s] = "serving" => lock = s /\ socket = s /\ pidfile = s

(* "the server becomes ready": a command that starts a server, alone or    *)
(* beside others, fails only if a server was ended or is of another build.  *)
LaunchesSucceed ==
  (\E c \in Commands : command[c].at = "failed" /\ command[c].purpose = "launch" /\ command[c].target = None)
  => \E s \in Servers :
       server[s] \in {"crashed", "stopping", "unbound", "leaving", "stopped"} \cup (IF s \in Foreign THEN {"serving"} ELSE {})

(* "stop chooser cannot create" (main.rs 199, an unreachable!): only a      *)
(* launch ever makes a session, whatever is pressed in a chooser.           *)
OnlyLaunchesCreate ==
  \A c \in Commands : command[c].target = NewSession => command[c].purpose = "launch"
=============================================================================
