----------------------------- MODULE TargetHost -----------------------------
(***************************************************************************)
(* What deployments do to the machine they target (the build, copy and      *)
(* activate effects of schema_runtime.rs).  Several deployments of one node *)
(* run at once; each issues one external command after another, and every   *)
(* command is a short script of lines on the target.  The daemon may die, a *)
(* connection may be lost while its script runs on or is cut, the target    *)
(* may restart and its garbage collector may run between any two lines.     *)
(***************************************************************************)
EXTENDS SubmissionAdmission

CONSTANTS
    Deployments, \* deployments of the one node, each with a closure of its own
    Requests,    \* the requests explored, records of SubmissionAdmission
    Base,        \* the system the machine runs at first
    MaxFaults    \* bound: restarts, daemon deaths and lost connections together

ASSUME HostAssumption ==
    /\ Base \notin Deployments /\ "" \notin Deployments \cup {Base}
    /\ MaxFaults \in Nat

VARIABLES
    daemonHost,  \* whether the node is the one the daemon runs on
    request,     \* the request of each deployment
    stage,       \* how far the daemon has carried each deployment
    calls,       \* the commands it has still to issue in that stage
    session,     \* the command each deployment has running on the target
    scratch,     \* the shell variables OLD and NEW of each boot-once script
    machine,     \* the target (external)
    outcome,     \* how the last activation command of each deployment ended
    alone,       \* deployments whose activation no other one has overlapped
    activated,   \* deployments whose Home Manager activation has succeeded
    doneAt,      \* how many restarts had happened when a deployment was done
    reboots, crashes, losses

vars == <<daemonHost, request, stage, calls, session, scratch, machine, outcome, alone,
          activated, doneAt, reboots, crashes, losses>>
faults == <<reboots, crashes, losses>>
ghosts == <<outcome, alone, activated, doneAt>>

Closures == Deployments \cup {Base}
Entries == Closures \cup {""}

-----------------------------------------------------------------------------
(* The commands of each stage.  A command is its lines and its owner: "Ssh" *)
(* for a child of the daemon or of its ssh connection, "Unit" for a         *)
(* transient unit of the service manager that the connection waits on, and  *)
(* "Retained" for one that is watched through the service manager alone.    *)

Call(owner, lines) == [owner |-> owner, lines |-> lines]

\* The daemon's own node builds with a local client, with or without a remote
\* builder, and keeps no root of the output.
LocalBuild == <<Call("Ssh", <<"BuildLocal">>)>>

\* The root of an output in the store that built it, in the state of the login.
TargetRoot == Call("Ssh", <<"AddRoot">>)

\* Mutant: the output is not rooted before the build is reported.
BuildCalls_Unrooted(d) ==
    IF daemonHost
    THEN LocalBuild
    ELSE <<Call("Ssh", <<"CopyDerivation">>), Call("Ssh", <<"BuildInTarget">>)>>

\* A node other than the daemon's realizes the derivation in its own store and
\* roots the output there before anything else is done with it.
BuildCalls(d) ==
    IF daemonHost
    THEN LocalBuild
    ELSE <<Call("Ssh", <<"CopyDerivation">>), Call("Ssh", <<"BuildInTarget">>), TargetRoot>>

\* A closure the target built itself is only looked for.
CopyCalls(d) == <<Call("Ssh", <<IF daemonHost THEN "CopyClosure" ELSE "PathInfo">>)>>

DetachedSelf(d) ==
    /\ daemonHost /\ request[d].kind = "Host"
    /\ request[d].action \in {"ActivateNow", "TestActivation"}

\* Mutant: the candidate boots without ever having been a profile generation.
BootOnceScript_NoProfile == <<"ReadOld", "BootConfiguration", "ReadNew", "DefaultOld",
                              "OneshotNew">>

\* Mutant: the running system is not made the persistent default.
BootOnceScript_NoDefault == <<"ReadOld", "SetProfile", "BootConfiguration", "ReadNew",
                              "OneshotNew">>

BootOnceScript == <<"ReadOld", "SetProfile", "BootConfiguration", "ReadNew", "DefaultOld",
                    "OneshotNew">>

SelfScript(d) ==
    IF request[d].action = "TestActivation"
    THEN <<"TestConfiguration">>
    ELSE <<"SetProfile", "SwitchConfiguration", "ClearDefault", "ClearOneshot">>

SelfOwner(d) == IF request[d].action = "TestActivation" THEN "Retained" ELSE "Unit"

\* Mutant: only the one-shot entry is cleared after a new boot entry.
SimpleCalls_DefaultKept(d) ==
    CASE request[d].action = "TestActivation" -> <<Call("Ssh", <<"TestConfiguration">>)>>
      [] request[d].action = "ActivateNow" ->
           <<Call("Ssh", <<"SetProfile", "SwitchConfiguration">>),
             Call("Ssh", <<"ClearOneshot">>)>>
      [] request[d].action = "SetBootProfile" ->
           <<Call("Ssh", <<"SetProfile", "BootConfiguration">>),
             Call("Ssh", <<"ClearOneshot">>)>>

\* A new boot entry is reconciled by two more commands: loader.conf alone
\* decides the default from then on.
Reconcile == <<Call("Ssh", <<"ClearDefault">>), Call("Ssh", <<"ClearOneshot">>)>>

\* The foreground activation.
SimpleCalls(d) ==
    CASE request[d].action = "TestActivation" -> <<Call("Ssh", <<"TestConfiguration">>)>>
      [] request[d].action = "ActivateNow" ->
           <<Call("Ssh", <<"SetProfile", "SwitchConfiguration">>)>> \o Reconcile
      [] request[d].action = "SetBootProfile" ->
           <<Call("Ssh", <<"SetProfile", "BootConfiguration">>)>> \o Reconcile

\* Mutant: a boot-once runs in the foreground of its connection.
HostCalls_Foreground(d) ==
    IF DetachedSelf(d) THEN <<Call(SelfOwner(d), SelfScript(d))>>
    ELSE IF request[d].action = "ScheduleBootOnce" THEN <<Call("Ssh", BootOnceScript)>>
    ELSE SimpleCalls(d)

HostCalls(d) ==
    IF DetachedSelf(d) THEN <<Call(SelfOwner(d), SelfScript(d))>>
    ELSE IF request[d].action = "ScheduleBootOnce" THEN <<Call("Unit", BootOnceScript)>>
    ELSE SimpleCalls(d)

\* Mutant: the profile is set before the activation has answered.
HomeCalls_ProfileFirst(d) ==
    IF request[d].action = "ActivateNow"
    THEN <<Call("Ssh", <<"HomeProfile">>), Call("Ssh", <<"HomeActivate">>)>>
    ELSE <<Call("Ssh", <<"HomeProfile">>)>>

\* The profile follows the activation, never the other way round.
HomeCalls(d) ==
    IF request[d].action = "ActivateNow"
    THEN <<Call("Ssh", <<"HomeActivate">>), Call("Ssh", <<"HomeProfile">>)>>
    ELSE <<Call("Ssh", <<"HomeProfile">>)>>

ActivateCalls(d) == IF request[d].kind = "Host" THEN HostCalls(d) ELSE HomeCalls(d)

CallsOf(d, s) ==
    CASE s = "Build" -> BuildCalls(d)
      [] s = "Copy" -> CopyCalls(d)
      [] s = "Activate" -> ActivateCalls(d)
      [] OTHER -> <<>>

\* The stage after one whose commands have all succeeded.
After(d, s) ==
    CASE s = "Build" -> IF Activates(request[d]) THEN "Copy" ELSE "Done"
      [] s = "Copy" -> "Activate"
      [] s = "Activate" -> "Done"

-----------------------------------------------------------------------------
(* The machine.  Its store holds the closures and derivations that are      *)
(* valid; generations are what the system and home profiles have named.     *)

FirstMachine ==
    [store |-> {Base}, derivations |-> {}, roots |-> {}, generations |-> {Base},
     profile |-> Base, running |-> Base, booted |-> Base, loader |-> Base,
     efiDefault |-> "", efiOneshot |-> "", home |-> Base, homeProfile |-> Base]

\* What the boot loader starts next: the one-shot entry, else the default held
\* in the firmware, else the one loader.conf names.
NextBoot(m) ==
    IF m.efiOneshot # "" THEN m.efiOneshot
    ELSE IF m.efiDefault # "" THEN m.efiDefault ELSE m.loader

\* Whether the line can succeed on this machine.
Ready(line, d, m) ==
    CASE line \in {"CopyDerivation", "BuildLocal", "ReadOld", "ClearDefault", "ClearOneshot",
                   "DefaultOld", "OneshotNew"} -> TRUE
      [] line = "BuildInTarget" -> d \in m.derivations
      [] line = "ReadNew" -> m.loader # scratch[d].old
      [] OTHER -> d \in m.store

Effect(line, d, m) ==
    CASE line = "CopyDerivation" -> [m EXCEPT !.derivations = @ \cup {d}]
      [] line \in {"BuildInTarget", "BuildLocal"} -> [m EXCEPT !.store = @ \cup {d}]
      [] line = "AddRoot" -> [m EXCEPT !.roots = @ \cup {d}]
      [] line = "SetProfile" ->
           [m EXCEPT !.profile = d, !.generations = @ \cup {d}]
      [] line = "BootConfiguration" -> [m EXCEPT !.loader = d]
      [] line = "SwitchConfiguration" -> [m EXCEPT !.loader = d, !.running = d]
      [] line = "TestConfiguration" -> [m EXCEPT !.running = d]
      [] line = "ClearDefault" -> [m EXCEPT !.efiDefault = ""]
      [] line = "ClearOneshot" -> [m EXCEPT !.efiOneshot = ""]
      [] line = "DefaultOld" -> [m EXCEPT !.efiDefault = scratch[d].old]
      [] line = "OneshotNew" -> [m EXCEPT !.efiOneshot = scratch[d].new]
      [] line = "HomeActivate" -> [m EXCEPT !.home = d]
      [] line = "HomeProfile" ->
           [m EXCEPT !.homeProfile = d, !.generations = @ \cup {d}]
      [] OTHER -> m

Scratch(line, d, m) ==
    CASE line = "ReadOld" -> [scratch EXCEPT ![d].old = m.booted]
      [] line = "ReadNew" -> [scratch EXCEPT ![d].new = m.loader]
      [] OTHER -> scratch

\* What the collector of the target keeps.  A derivation nothing roots goes too.
Kept(m) == m.roots \cup m.generations \cup {m.running, m.booted, m.home}

-----------------------------------------------------------------------------
(* The daemon's side of a command.                                          *)

Idle == [owner |-> "None", lines |-> <<>>, attached |-> FALSE]
Running(call) == [owner |-> call.owner, lines |-> call.lines, attached |-> TRUE]

Live(d) == session[d].owner # "None"
InFlight(d) == stage[d] \in {"Build", "Copy", "Activate"}

\* Another deployment of the same kind is activating, or left a script behind.
Contended(d) ==
    \E e \in Deployments \ {d} :
        /\ request[e].kind = request[d].kind
        /\ stage[e] = "Activate" \/ Live(e)

\* Enter a stage of a deployment and issue its first command.
EnterStage(d, s) ==
    LET plan == CallsOf(d, s)
    IN  /\ stage' = [stage EXCEPT ![d] = s]
        /\ calls' = [calls EXCEPT ![d] = IF plan = <<>> THEN <<>> ELSE Tail(plan)]
        /\ session' = [session EXCEPT ![d] = IF plan = <<>> THEN Idle ELSE Running(Head(plan))]
        /\ IF s = "Activate"
           THEN alone' = {e \in alone : request[e].kind # request[d].kind}
                           \cup (IF Contended(d) THEN {} ELSE {d})
           ELSE UNCHANGED alone
        /\ doneAt' = IF s = "Done" THEN [doneAt EXCEPT ![d] = reboots] ELSE doneAt

Fail(d) ==
    /\ stage' = [stage EXCEPT ![d] = "Failed"]
    /\ calls' = [calls EXCEPT ![d] = <<>>]

\* A submission passes the preflight or leaves no trace on the target.
Submit(d) ==
    /\ stage[d] = "New"
    /\ stage' = [stage EXCEPT ![d] =
                   IF SubmissionRejection(request[d]) = "None" THEN "Evaluate" ELSE "Rejected"]
    /\ UNCHANGED <<daemonHost, request, calls, session, scratch, machine, ghosts, faults>>

\* Evaluation never leaves the daemon's own store.
Evaluated(d) ==
    /\ stage[d] = "Evaluate"
    /\ EnterStage(d, IF ProducesClosure(request[d]) THEN "Build" ELSE "Done")
    /\ UNCHANGED <<daemonHost, request, scratch, machine, outcome, activated, faults>>

\* The running script executes its next line.
Line(d) ==
    /\ Live(d) /\ session[d].lines # <<>>
    /\ LET line == Head(session[d].lines)
       IN  /\ Ready(line, d, machine)
           /\ machine' = Effect(line, d, machine)
           /\ scratch' = Scratch(line, d, machine)
           /\ activated' = IF line = "HomeActivate" THEN activated \cup {d} ELSE activated
    /\ session' = [session EXCEPT ![d].lines = Tail(@)]
    /\ UNCHANGED <<daemonHost, request, stage, calls, outcome, alone, doneAt, faults>>

\* The line fails: the script stops there, and so does the deployment if the
\* daemon still waits for the command.
LineFails(d) ==
    /\ Live(d) /\ session[d].lines # <<>>
    /\ session' = [session EXCEPT ![d] = Idle]
    /\ outcome' = [outcome EXCEPT ![d] = "LineFailed"]
    /\ IF session[d].attached THEN Fail(d) ELSE UNCHANGED <<stage, calls>>
    /\ UNCHANGED <<daemonHost, request, scratch, machine, alone, activated, doneAt, faults>>

\* A script that reached its end answers the daemon, which issues the next
\* command of the stage or enters the next stage.
Answer(d) ==
    /\ Live(d) /\ session[d].lines = <<>> /\ session[d].attached
    /\ outcome' = [outcome EXCEPT ![d] = "Ran"]
    /\ IF calls[d] # <<>>
       THEN /\ session' = [session EXCEPT ![d] = Running(Head(calls[d]))]
            /\ calls' = [calls EXCEPT ![d] = Tail(@)]
            /\ UNCHANGED <<stage, alone, doneAt>>
       ELSE EnterStage(d, After(d, stage[d]))
    /\ UNCHANGED <<daemonHost, request, scratch, machine, activated, faults>>

\* A script nobody waits for ends without a word.
EndUnheard(d) ==
    /\ Live(d) /\ session[d].lines = <<>> /\ ~session[d].attached
    /\ session' = [session EXCEPT ![d] = Idle]
    /\ outcome' = [outcome EXCEPT ![d] = "Ran"]
    /\ UNCHANGED <<daemonHost, request, stage, calls, scratch, machine, alone, activated,
                   doneAt, faults>>

-----------------------------------------------------------------------------
(* Faults.                                                                  *)

AnotherFault == reboots + crashes + losses < MaxFaults

\* The connection of a command is lost: the daemon records a failure.
Lose(d) ==
    /\ AnotherFault
    /\ Live(d) /\ session[d].attached /\ session[d].owner \in {"Ssh", "Unit"}
    /\ losses' = losses + 1
    /\ session' = [session EXCEPT ![d].attached = FALSE]
    /\ Fail(d)
    /\ UNCHANGED <<daemonHost, request, scratch, machine, ghosts, reboots, crashes>>

\* Without its connection a foreground script may be cut off anywhere.
HangUp(d) ==
    /\ session[d].owner = "Ssh" /\ ~session[d].attached
    /\ session' = [session EXCEPT ![d] = Idle]
    /\ outcome' = [outcome EXCEPT ![d] = "Cut"]
    /\ UNCHANGED <<daemonHost, request, stage, calls, scratch, machine, alone, activated,
                   doneAt, faults>>

\* The successor of a dead daemon starts an interrupted build or copy again and
\* watches a retained test again.  It closes a self-switch it finds witnessed by
\* the profile; any other activation is left where the daemon stopped.
Resumed(d) ==
    IF stage[d] # "Activate" \/ session[d].owner = "Retained" THEN stage[d]
    ELSE IF DetachedSelf(d) /\ machine.profile = d THEN "Reconciled"
    ELSE "Orphaned"

Crash ==
    /\ AnotherFault
    /\ crashes' = crashes + 1
    /\ stage' = [d \in Deployments |-> Resumed(d)]
    /\ calls' = [d \in Deployments |->
                   IF stage[d] \in {"Build", "Copy"} THEN Tail(CallsOf(d, stage[d])) ELSE <<>>]
    /\ session' = [d \in Deployments |->
                     IF stage[d] \in {"Build", "Copy"}
                     THEN Running(Head(CallsOf(d, stage[d])))
                     ELSE IF session[d].owner = "Retained"
                          THEN session[d]
                          ELSE [session[d] EXCEPT !.attached = FALSE]]
    /\ UNCHANGED <<daemonHost, request, scratch, machine, ghosts, reboots, losses>>

\* The target restarts.  No script survives.  On the daemon's own node the
\* daemon restarts with it, elsewhere it sees its commands fail.
Reboot ==
    /\ AnotherFault
    /\ ~daemonHost
    /\ reboots' = reboots + 1
    /\ machine' = [machine EXCEPT !.booted = NextBoot(machine), !.running = NextBoot(machine),
                                  !.efiOneshot = ""]
    /\ stage' = [d \in Deployments |->
                   IF InFlight(d) /\ session[d].attached THEN "Failed" ELSE stage[d]]
    /\ calls' = [d \in Deployments |-> <<>>]
    /\ session' = [d \in Deployments |-> Idle]
    /\ outcome' = [d \in Deployments |-> IF Live(d) THEN "Rebooted" ELSE outcome[d]]
    /\ UNCHANGED <<daemonHost, request, scratch, alone, activated, doneAt, crashes, losses>>

RebootSelf ==
    /\ AnotherFault
    /\ daemonHost
    /\ reboots' = reboots + 1
    /\ machine' = [machine EXCEPT !.booted = NextBoot(machine), !.running = NextBoot(machine),
                                  !.efiOneshot = ""]
    /\ stage' = [d \in Deployments |->
                   IF session[d].owner = "Retained" THEN "Orphaned" ELSE Resumed(d)]
    /\ calls' = [d \in Deployments |->
                   IF stage[d] \in {"Build", "Copy"} THEN Tail(CallsOf(d, stage[d])) ELSE <<>>]
    /\ session' = [d \in Deployments |->
                     IF stage[d] \in {"Build", "Copy"}
                     THEN Running(Head(CallsOf(d, stage[d]))) ELSE Idle]
    /\ outcome' = [d \in Deployments |-> IF Live(d) THEN "Rebooted" ELSE outcome[d]]
    /\ UNCHANGED <<daemonHost, request, scratch, alone, activated, doneAt, crashes, losses>>

\* The collector of the target runs.
Collect ==
    /\ machine' = [machine EXCEPT !.store = @ \cap Kept(machine), !.derivations = {}]
    /\ machine' # machine
    /\ UNCHANGED <<daemonHost, request, stage, calls, session, scratch, ghosts, faults>>

-----------------------------------------------------------------------------

Init ==
    /\ daemonHost \in BOOLEAN
    /\ request \in [Deployments -> Requests]
    /\ stage = [d \in Deployments |-> "New"]
    /\ calls = [d \in Deployments |-> <<>>]
    /\ session = [d \in Deployments |-> Idle]
    /\ scratch = [d \in Deployments |-> [old |-> "", new |-> ""]]
    /\ machine = FirstMachine
    /\ outcome = [d \in Deployments |-> "None"]
    /\ alone = {} /\ activated = {}
    /\ doneAt = [d \in Deployments |-> 0]
    /\ reboots = 0 /\ crashes = 0 /\ losses = 0

Next ==
    \/ \E d \in Deployments :
          \/ Submit(d) \/ Evaluated(d) \/ Line(d) \/ LineFails(d) \/ Answer(d)
          \/ EndUnheard(d) \/ Lose(d) \/ HangUp(d)
    \/ Crash \/ Reboot \/ RebootSelf \/ Collect

Spec == Init /\ [][Next]_vars

-----------------------------------------------------------------------------
(* Properties.                                                              *)

\* The state is well formed: a command is live only for a deployment that
\* issued it, and an attached one belongs to a stage in flight.
TypeOK ==
    /\ stage \in [Deployments -> {"New", "Rejected", "Evaluate", "Build", "Copy", "Activate",
                                  "Done", "Failed", "Orphaned", "Reconciled"}]
    /\ \A d \in Deployments :
         /\ session[d].attached <=> InFlight(d)
         /\ calls[d] # <<>> => InFlight(d)
         /\ scratch[d] \in [old : Entries, new : Entries]
         /\ outcome[d] \in {"None", "Ran", "LineFailed", "Cut", "Rebooted"}
    /\ machine.store \subseteq Closures /\ machine.derivations \subseteq Deployments
    /\ machine.roots \cup activated \cup alone \subseteq Deployments
    /\ machine.generations \subseteq Closures
    /\ {machine.profile, machine.running, machine.booted, machine.loader, machine.home,
        machine.homeProfile} \subseteq Closures
    /\ {machine.efiDefault, machine.efiOneshot} \subseteq Entries

\* A closure realized in the target's own store stays valid there from the end
\* of its build until it is activated, whenever the collector of the target runs
\* (TargetStoreRealization roots it before the build is reported).
RootedUntilActivated ==
    \A d \in Deployments :
        ~daemonHost /\ stage[d] \in {"Copy", "Activate"} => d \in machine.store

\* Once a SetBootProfile or ActivateNow that no other host activation overlapped
\* has succeeded, every later boot starts its closure: no entry an earlier
\* boot-once left in the firmware still decides (reconcile_efi).
SwitchDecidesBoot ==
    \A d \in alone :
        stage[d] = "Done" /\ request[d].kind = "Host"
          /\ request[d].action \in {"SetBootProfile", "ActivateNow"}
        => /\ machine.loader = d
           /\ machine.efiDefault = "" /\ machine.efiOneshot = ""

\* A boot-once that succeeded alone starts its closure at the next restart and
\* the system that had been booted before at every later one.
BootsOnceThenBack ==
    \A d \in alone :
        stage[d] = "Done" /\ request[d].action = "ScheduleBootOnce" /\ reboots' # reboots
        => machine'.booted = IF doneAt[d] = reboots THEN d ELSE scratch[d].old

BootOnceThenBack == [][BootsOnceThenBack]_vars

\* Whatever two deployments, failures and restarts leave behind, the entry the
\* machine starts next names a system that is still in its store.
BootTargetIsKept == NextBoot(machine) \in machine.store

\* The home profile names the closure of an ActivateNow only after the
\* activation of that closure has succeeded (driver version 1).
HomeProfileWasActivated ==
    \A d \in Deployments :
        machine.homeProfile = d /\ request[d].action = "ActivateNow" => d \in activated

\* A boot-once anywhere, and a switch or test of the daemon's own node, is a
\* script that ends early only because one of its lines failed or the machine
\* restarted, never because the daemon or its connection went away.
EndsByItself ==
    \A d \in Deployments :
        /\ stage[d] # "New" /\ request[d].kind = "Host"
        /\ request[d].action = "ScheduleBootOnce" \/ DetachedSelf(d)
        /\ stage[d] \notin {"Build", "Copy"}
        /\ session[d].lines # <<>> /\ session'[d] = Idle
        /\ Head(session[d].lines) \notin {"CopyDerivation", "BuildInTarget", "BuildLocal",
                                          "AddRoot", "CopyClosure", "PathInfo"}
        => outcome'[d] \in {"LineFailed", "Rebooted"}

DetachedScriptIsNeverCut == [][EndsByItself]_vars
=============================================================================
