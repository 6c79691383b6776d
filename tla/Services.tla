------------------------------ MODULE Services ------------------------------
(***************************************************************************)
(* The parts that tell a client about its agents and find it a server, side *)
(* by side: the Git context of directories, the identity and name of        *)
(* conversations, the activity of agents, the updates of harnesses, the     *)
(* usage of providers, and the start of the server.  They share no state    *)
(* with each other.  Each has a module of its own, where it can be read and *)
(* checked alone; here one of them runs and the others keep a first state,  *)
(* so that the states of a run are those of the parts one after the other,  *)
(* and not their product.  The variables of a part that have a name of      *)
(* another part are renamed.                                                *)
(***************************************************************************)
EXTENDS Integers, Sequences

CONSTANTS None, Nowhere,
  Agents, Directories, Launches, MaxRevision,                  \* Git
  Selected, Background,
  Ways, Conversations,    MaxAgents, MaxVisits, MaxNames,      \* Identity
  MaxGeneration,                                               \* Activity
  Harnesses, MaxRelease, MaxTicks,                             \* Updates
  Order, Installations, Viewers, Ttl, MaxTime, MaxProbes, MaxInbox, Percents,  \* Reporting
  Commands, Purposes, Servers, Foreign, MaxSessions, MaxKeys   \* Starting

VARIABLE part   \* the part that runs

VARIABLES order, launch, directory, selected, head, shown, checked, cache, probe, worker, told
gitVars == <<order, launch, directory, selected, head, shown, checked, cache, probe, worker, told>>

VARIABLES agents, files, archived, generators, been
identityVars == <<agents, files, archived, generators, been>>

VARIABLES kind, doing, labels, claim, redraws, observed
activityVars == <<kind, doing, labels, claim, redraws, observed>>

VARIABLES available, asserting, installed, latest, status, known, due, ticks, checking, updating,
  requests, results, announced
updatesVars == <<available, asserting, installed, latest, status, known, due, ticks, checking, updating,
                 requests, results, announced>>

VARIABLES enabled, usable, time, observations, inFlight, asked, answered, probes, viewers
reportingVars == <<enabled, usable, time, observations, inFlight, asked, answered, probes, viewers>>

VARIABLES lock, socket, pidfile, server, sessions, command, keys
startingVars == <<lock, socket, pidfile, server, sessions, command, keys>>

Git == INSTANCE GitContexts
Identity == INSTANCE Conversations WITH Reports <- Ways
Activity == INSTANCE Recognition
  WITH screen <- labels, title <- claim, generation <- redraws
Updates == INSTANCE HarnessUpdates WITH Kinds <- Harnesses
Reporting == INSTANCE Usage
  WITH Clients <- Viewers, installed <- usable, now <- time, requests <- asked,
       results <- answered, clients <- viewers
Starting == INSTANCE Startup

ASSUME ServicesAssumption ==
  /\ Git!GitAssumption /\ Identity!ConversationsAssumption /\ Activity!RecognitionAssumption
  /\ Updates!HarnessAssumption /\ Reporting!UsageAssumption /\ Starting!StartupAssumption

vars == <<part, gitVars, identityVars, activityVars, updatesVars, reportingVars, startingVars>>

-----------------------------------------------------------------------------
Parts == {"Git", "Identity", "Activity", "Updates", "Reporting", "Starting"}

(* Where a part may start in several ways, one of them while it does not run. *)
Idle(p, values, value) == part = p \/ value = CHOOSE v \in values : TRUE

Init ==
  /\ part \in Parts
  /\ Git!Init
  /\ Identity!Init /\ Idle("Identity", {<<>>}, files)
  /\ Activity!Init /\ Idle("Activity", Activity!Kinds, kind)
  /\ Updates!Init /\ Idle("Updates", SUBSET Harnesses, available) /\ Idle("Updates", BOOLEAN, asserting)
  /\ Reporting!Init /\ Idle("Reporting", BOOLEAN, enabled) /\ Idle("Reporting", Installations, usable)
  /\ Starting!Init /\ Idle("Starting", {None}, pidfile)
  /\ Idle("Starting", Purposes, [c \in Commands |-> command[c].purpose])

Next ==
  /\ UNCHANGED part
  /\ IF part = "Git" THEN Git!Next ELSE UNCHANGED gitVars
  /\ IF part = "Identity" THEN Identity!Next ELSE UNCHANGED identityVars
  /\ IF part = "Activity" THEN Activity!Next ELSE UNCHANGED activityVars
  /\ IF part = "Updates" THEN Updates!Next ELSE UNCHANGED updatesVars
  /\ IF part = "Reporting" THEN Reporting!Next ELSE UNCHANGED reportingVars
  /\ IF part = "Starting" THEN Starting!Next ELSE UNCHANGED startingVars

Spec == Init /\ [][Next]_vars

-----------------------------------------------------------------------------
(* The properties of the parts, each stated and explained in its module,   *)
(* and looked at where the part runs: a first state has nothing to say.     *)

(* The Git context a client shows is the server's, of the right directory. *)
ContextsAreCurrent ==
  part = "Git" => Git!TypeOK /\ Git!ContextIsOfTheDirectory /\ Git!ClientKnowsTheContext

(* An agent is shown in a conversation of its own, under a name asked for   *)
(* it, and one it leaves can still be resumed.                              *)
ConversationsAreKept ==
  /\ [](part = "Identity" =>
          /\ Identity!TypeOK
          /\ Identity!IdentityIsTheAgentsOwn /\ Identity!NamesFollowTheConversation)
  /\ Identity!LeavesAreArchived

(* An agent is reported finished or blocked only when it is. *)
ActivityIsReal ==
  /\ [](part = "Activity" => Activity!TypeOK)
  /\ Activity!NoFalseCompletion /\ Activity!BlockedIsReal

(* An update is announced once, and one that is under way is under way. *)
UpdatesAreReal ==
  part = "Updates" => Updates!TypeOK /\ Updates!BusyIsReal /\ Updates!AnnouncedOnce

(* A usage report that is refreshed is being asked for, and the one shown   *)
(* is what the provider returned last, and nothing it did not return.        *)
UsageIsReal ==
  part = "Reporting" =>
    /\ Reporting!TypeOK
    /\ Reporting!RefreshingIsReal /\ Reporting!ShownIsTheLastReport /\ Reporting!PercentagesAreReported

(* One server serves, commands find it, and only a launch creates. *)
OneServerIsFound ==
  part = "Starting" =>
    /\ Starting!TypeOK
    /\ Starting!ServingIsKnown /\ Starting!LaunchesSucceed /\ Starting!OnlyLaunchesCreate
=============================================================================
