--------------------------- MODULE TargetHostProofs ---------------------------
(***************************************************************************)
(* Theorems about TargetHost, for any number of deployments of the node,    *)
(* any requests and any number of faults.                                   *)
(*                                                                          *)
(* The scripts are short and fixed, so that what a deployment may still do  *)
(* is the set of lines it has left.  The invariants say of each effect a    *)
(* property needs that its line is left or the effect is there, and the     *)
(* order of the lines says what is there when a line runs.                  *)
(***************************************************************************)
EXTENDS TargetHost, SequenceTheorems, TLAPS

-----------------------------------------------------------------------------
(* Words.                                                                   *)

BuildLines == {"CopyDerivation", "BuildInTarget", "BuildLocal", "AddRoot", "CopyClosure",
               "PathInfo"}
SwitchLines == {"SetProfile", "BootConfiguration", "SwitchConfiguration", "ClearDefault",
                "ClearOneshot"}
OnceLines == {"ReadOld", "SetProfile", "BootConfiguration", "ReadNew", "DefaultOld", "OneshotNew"}
HomeLines == {"HomeActivate", "HomeProfile"}
Lines == BuildLines \cup SwitchLines \cup OnceLines \cup HomeLines \cup {"TestConfiguration"}

Owners == {"Ssh", "Unit", "Retained"}
Stages == {"New", "Rejected", "Evaluate", "Build", "Copy", "Activate", "Done", "Failed",
           "Orphaned", "Reconciled"}

\* The order that every script keeps.
Rank(line) ==
    CASE line = "ReadOld" -> 1
      [] line = "SetProfile" -> 2
      [] line \in {"BootConfiguration", "SwitchConfiguration"} -> 3
      [] line = "ReadNew" -> 4
      [] line \in {"DefaultOld", "ClearDefault"} -> 5
      [] line \in {"OneshotNew", "ClearOneshot"} -> 6
      [] OTHER -> 0

Elements(s) == {s[i] : i \in 1 .. Len(s)}
Sorted(lines) == \A i, j \in 1 .. Len(lines) : i < j => Rank(lines[i]) < Rank(lines[j])

Host(d) == request[d].kind = "Host"
Switches(d) == Host(d) /\ request[d].action \in {"SetBootProfile", "ActivateNow"}
BootsOnce(d) == Host(d) /\ request[d].action = "ScheduleBootOnce"
Detached(d) == BootsOnce(d) \/ DetachedSelf(d)

\* The lines that the deployment may ever have issued.
Words(d) ==
    BuildLines \cup
    (IF ~Host(d) THEN HomeLines
     ELSE CASE request[d].action \in {"SetBootProfile", "ActivateNow"} -> SwitchLines
            [] request[d].action = "ScheduleBootOnce" -> OnceLines
            [] OTHER -> {"TestConfiguration"})

BootLines == {"BootConfiguration", "SwitchConfiguration"}

Issued(d, owner, lines) ==
    /\ Sorted(lines)
    /\ Elements(lines) \subseteq Words(d)
    /\ owner = "Ssh" /\ Detached(d) => Elements(lines) \subseteq BuildLines
    /\ owner = "Retained" => DetachedSelf(d) /\ request[d].action = "TestActivation"

GoodCall(d, call) ==
    /\ Issued(d, call.owner, call.lines)
    /\ Elements(call.lines) \cap BootLines # {} => "SetProfile" \in Elements(call.lines)

Left(d) == Elements(session[d].lines)
             \cup UNION {Elements(call.lines) : call \in Elements(calls[d])}

-----------------------------------------------------------------------------
(* The inductive invariant.                                                 *)

CallSet == [owner : Owners, lines : Seq(Lines)]
SessionSet == [owner : Owners \cup {"None"}, lines : Seq(Lines), attached : BOOLEAN]
MachineSet ==
    [store : SUBSET Closures, derivations : SUBSET Deployments, roots : SUBSET Deployments,
     generations : SUBSET Closures, profile : Closures, running : Closures, booted : Closures,
     loader : Closures, efiDefault : Entries, efiOneshot : Entries, home : Closures,
     homeProfile : Closures]

Typed ==
    /\ daemonHost \in BOOLEAN
    /\ stage \in [Deployments -> Stages]
    /\ calls \in [Deployments -> Seq(CallSet)]
    /\ session \in [Deployments -> SessionSet]
    /\ scratch \in [Deployments -> [old : Entries, new : Entries]]
    /\ machine \in MachineSet
    /\ outcome \in [Deployments -> {"None", "Ran", "LineFailed", "Cut", "Rebooted"}]
    /\ alone \subseteq Deployments /\ activated \subseteq Deployments
    /\ doneAt \in [Deployments -> Nat]
    /\ reboots \in Nat
    /\ \A d \in Deployments : doneAt[d] <= reboots

\* Where a deployment is, whether the daemon waits for it, and what it has left.
FlowInv(d) ==
    /\ session[d].attached <=> InFlight(d)
    /\ calls[d] # <<>> => InFlight(d)
    /\ InFlight(d) => Live(d)
    /\ ~Live(d) => session[d] = Idle
    /\ stage[d] \in {"New", "Rejected", "Evaluate", "Done"} => session[d] = Idle
    /\ stage[d] \in {"Copy", "Activate"} => Activates(request[d])
    /\ session[d].owner = "Retained" => stage[d] = "Activate"

\* The lines that a deployment has left are its own, in order, and a foreground
\* command of a detached activation is one of the build.
LineInv(d) ==
    /\ Issued(d, session[d].owner, session[d].lines)
    /\ \A call \in Elements(calls[d]) : GoodCall(d, call)
    /\ stage[d] \in {"Build", "Copy"} => Left(d) \subseteq BuildLines
    /\ stage[d] \in {"Build", "Copy"} => \A call \in Elements(calls[d]) : call.owner = "Ssh"

\* A build elsewhere has its root, or the line that adds it, and the collector
\* takes nothing that is rooted.
RootInv ==
    /\ machine.roots \subseteq machine.store
    /\ ~daemonHost => \A d \in Deployments :
         /\ stage[d] = "Build" => "AddRoot" \in Left(d) \/ d \in machine.roots
         /\ stage[d] \in {"Copy", "Activate"} => d \in machine.roots

\* Whatever the loader, the firmware or a boot-once script names has been a
\* generation of a profile, because a script sets the profile first.
GenerationInv ==
    /\ machine.generations \subseteq machine.store
    /\ {machine.loader, machine.booted} \subseteq machine.generations
    /\ {machine.efiDefault, machine.efiOneshot} \subseteq machine.generations \cup {""}
    /\ \A d \in Deployments :
         /\ {scratch[d].old, scratch[d].new} \subseteq machine.generations \cup {""}
         /\ Elements(session[d].lines) \cap BootLines # {} =>
              "SetProfile" \in Elements(session[d].lines) \/ d \in machine.generations

\* The activation precedes the profile.
HomeInv ==
    /\ HomeProfileWasActivated
    /\ \A d \in Deployments : request[d].action = "ActivateNow" =>
         /\ "HomeProfile" \in Elements(session[d].lines) => d \in activated
         /\ "HomeProfile" \in Left(d) =>
              d \in activated \/ "HomeActivate" \in Elements(session[d].lines)

\* An activation that nothing overlapped is still the last one of its kind.
AloneInv ==
    \A d \in alone :
        /\ Activates(request[d])
        /\ stage[d] \notin {"New", "Rejected", "Evaluate", "Build", "Copy"}
        /\ \A e \in Deployments : e # d /\ request[e].kind = request[d].kind =>
             stage[e] # "Activate" /\ Left(e) \subseteq BuildLines

\* Each effect of a switch is there or its line is left.
SwitchInv ==
    \A d \in alone : Switches(d) /\ stage[d] \in {"Activate", "Done"} =>
        /\ Left(d) \cap BootLines # {} \/ machine.loader = d
        /\ "ClearDefault" \in Left(d) \/ machine.efiDefault = ""
        /\ "ClearOneshot" \in Left(d) \/ machine.efiOneshot = ""

\* The same of a boot-once, whose lines are those of one script from some line on.
OnceInv ==
    \A d \in alone : BootsOnce(d) /\ stage[d] \in {"Activate", "Done"} =>
        /\ calls[d] = <<>>
        /\ \A a \in Left(d), b \in OnceLines : Rank(a) < Rank(b) => b \in Left(d)
        /\ "ReadOld" \in Left(d) \/ scratch[d].old # ""
        /\ "BootConfiguration" \in Left(d) \/ machine.loader = d
        /\ "ReadNew" \in Left(d) \/ scratch[d].new = d
        /\ "DefaultOld" \in Left(d) \/ machine.efiDefault = scratch[d].old
        /\ "OneshotNew" \in Left(d)
             \/ machine.efiOneshot = (IF stage[d] = "Done" /\ doneAt[d] # reboots THEN "" ELSE d)

IInv ==
    /\ Typed
    /\ \A d \in Deployments : FlowInv(d) /\ LineInv(d)
    /\ RootInv /\ GenerationInv /\ HomeInv
    /\ AloneInv /\ SwitchInv /\ OnceInv

-----------------------------------------------------------------------------
(* Sequences as the sets of their elements.                                 *)

\* A non-empty sequence is its head and the rest.
LEMMA HeadAndTail ==
  ASSUME NEW S, NEW s \in Seq(S), s # <<>>
  PROVE  /\ Head(s) \in S /\ Tail(s) \in Seq(S)
         /\ Elements(s) = {Head(s)} \cup Elements(Tail(s))
<1>1. /\ Head(s) \in S /\ Tail(s) \in Seq(S) /\ Len(s) \in Nat /\ Len(s) > 0
      /\ Head(s) = s[1] /\ Len(Tail(s)) = Len(s) - 1
      /\ \A i \in 1 .. Len(s) - 1 : Tail(s)[i] = s[i + 1]
  OBVIOUS
<1>2. \A x \in Elements(s) : x = Head(s) \/ x \in Elements(Tail(s))
  <2> SUFFICES ASSUME NEW i \in 1 .. Len(s) PROVE s[i] = Head(s) \/ s[i] \in Elements(Tail(s))
    BY DEF Elements
  <2>1. CASE i = 1
    BY <1>1, <2>1
  <2>2. CASE i # 1
    <3>1. i - 1 \in 1 .. Len(Tail(s)) /\ Tail(s)[i - 1] = s[i]
      BY <1>1, <2>2
    <3> QED BY <3>1 DEF Elements
  <2> QED BY <2>1, <2>2
<1>3. Head(s) \in Elements(s)
  BY <1>1 DEF Elements
<1>4. \A x \in Elements(Tail(s)) : x \in Elements(s)
  <2> SUFFICES ASSUME NEW i \in 1 .. Len(Tail(s)) PROVE Tail(s)[i] \in Elements(s)
    BY DEF Elements
  <2>1. i + 1 \in 1 .. Len(s) /\ Tail(s)[i] = s[i + 1]
    BY <1>1
  <2> QED BY <2>1 DEF Elements
<1> QED BY <1>1, <1>2, <1>3, <1>4

\* The empty sequence has no elements, and no other has none.
LEMMA NoElements ==
  ASSUME NEW S, NEW s \in Seq(S)
  PROVE  s = <<>> <=> Elements(s) = {}
<1>1. CASE s = <<>>
  <2>1. Len(s) = 0 /\ \A i \in 1 .. 0 : FALSE
    BY <1>1
  <2>2. \A x : x \notin Elements(s)
    BY <2>1 DEF Elements
  <2> QED BY <1>1, <2>2
<1>2. CASE s # <<>>
  <2>1. Elements(s) = {Head(s)} \cup Elements(Tail(s))
    BY <1>2, HeadAndTail
  <2> QED BY <1>2, <2>1
<1> QED BY <1>1, <1>2

\* A script whose lines are in order has nothing before its head left.
LEMMA SortedTail ==
  ASSUME NEW s \in Seq(Lines), s # <<>>, Sorted(s)
  PROVE  /\ Sorted(Tail(s))
         /\ \A line \in Elements(Tail(s)) : Rank(Head(s)) < Rank(line)
<1>1. /\ Len(s) \in Nat /\ Len(s) > 0
      /\ Head(s) = s[1] /\ Len(Tail(s)) = Len(s) - 1
      /\ \A i \in 1 .. Len(s) - 1 : Tail(s)[i] = s[i + 1]
  OBVIOUS
<1>2. ASSUME NEW i \in 1 .. Len(Tail(s)), NEW j \in 1 .. Len(Tail(s)), i < j
      PROVE  Rank(Tail(s)[i]) < Rank(Tail(s)[j])
  <2>1. i + 1 \in 1 .. Len(s) /\ j + 1 \in 1 .. Len(s) /\ i + 1 < j + 1
    BY <1>1, <1>2
  <2>2. Rank(s[i + 1]) < Rank(s[j + 1])
    BY <2>1 DEF Sorted
  <2> QED BY <1>1, <2>2
<1>3. ASSUME NEW i \in 1 .. Len(Tail(s)) PROVE Rank(Head(s)) < Rank(Tail(s)[i])
  <2>1. 1 \in 1 .. Len(s) /\ i + 1 \in 1 .. Len(s) /\ 1 < i + 1
    BY <1>1
  <2>2. Rank(s[1]) < Rank(s[i + 1])
    BY <2>1 DEF Sorted
  <2> QED BY <1>1, <2>2
<1> QED BY <1>2, <1>3 DEF Sorted, Elements

\* A script of one line.
LEMMA OneLine ==
  ASSUME NEW a \in Lines
  PROVE  <<a>> \in Seq(Lines) /\ <<a>> # <<>> /\ Elements(<<a>>) = {a} /\ Sorted(<<a>>)
<1>1. Len(<<a>>) = 1 /\ <<a>>[1] = a /\ <<a>> \in Seq(Lines) /\ <<a>> # <<>>
  OBVIOUS
<1>2. \A i \in 1 .. 1 : i = 1
  OBVIOUS
<1> QED BY <1>1, <1>2 DEF Elements, Sorted

\* A script of two lines.
LEMMA TwoLines ==
  ASSUME NEW a \in Lines, NEW b \in Lines, Rank(a) < Rank(b)
  PROVE  <<a, b>> \in Seq(Lines) /\ <<a, b>> # <<>> /\ Elements(<<a, b>>) = {a, b}
         /\ Sorted(<<a, b>>)
<1>1. Len(<<a, b>>) = 2 /\ <<a, b>>[1] = a /\ <<a, b>>[2] = b /\ <<a, b>> \in Seq(Lines)
      /\ <<a, b>> # <<>>
  OBVIOUS
<1>2. \A i \in 1 .. 2 : i = 1 \/ i = 2
  OBVIOUS
<1>3. Elements(<<a, b>>) = {a, b}
  BY <1>1, <1>2 DEF Elements
<1>4. Sorted(<<a, b>>)
  BY <1>1, <1>2 DEF Sorted
<1> QED BY <1>1, <1>3, <1>4

\* The script of a switch of the daemon's own node.
LEMMA SelfLines ==
  LET s == <<"SetProfile", "SwitchConfiguration", "ClearDefault", "ClearOneshot">>
  IN  /\ s \in Seq(Lines) /\ s # <<>>
      /\ Elements(s) = {"SetProfile", "SwitchConfiguration", "ClearDefault", "ClearOneshot"}
      /\ Sorted(s)
<1> DEFINE s == <<"SetProfile", "SwitchConfiguration", "ClearDefault", "ClearOneshot">>
<1>1. /\ Len(s) = 4 /\ s # <<>>
      /\ s[1] = "SetProfile" /\ s[2] = "SwitchConfiguration" /\ s[3] = "ClearDefault"
      /\ s[4] = "ClearOneshot"
  OBVIOUS
<1>2. \A i \in 1 .. 4 : i = 1 \/ i = 2 \/ i = 3 \/ i = 4
  OBVIOUS
<1>3. s \in Seq(Lines)
  BY DEF Lines, SwitchLines
<1> HIDE DEF s
<1>4. Elements(s) = {"SetProfile", "SwitchConfiguration", "ClearDefault", "ClearOneshot"}
  BY <1>1, <1>2 DEF Elements
<1>5. Rank(s[1]) = 2 /\ Rank(s[2]) = 3 /\ Rank(s[3]) = 5 /\ Rank(s[4]) = 6
  BY <1>1 DEF Rank
<1>6. Sorted(s)
  BY <1>1, <1>2, <1>5 DEF Sorted
<1> QED BY <1>1, <1>3, <1>4, <1>6 DEF s

\* The script of a boot-once.
LEMMA OnceScript ==
  /\ BootOnceScript \in Seq(Lines) /\ BootOnceScript # <<>>
  /\ Elements(BootOnceScript) = OnceLines
  /\ Sorted(BootOnceScript)
<1> DEFINE s == BootOnceScript
<1>1. /\ Len(s) = 6 /\ s # <<>>
      /\ s[1] = "ReadOld" /\ s[2] = "SetProfile" /\ s[3] = "BootConfiguration"
      /\ s[4] = "ReadNew" /\ s[5] = "DefaultOld" /\ s[6] = "OneshotNew"
  BY DEF BootOnceScript
<1>2. \A i \in 1 .. 6 : i = 1 \/ i = 2 \/ i = 3 \/ i = 4 \/ i = 5 \/ i = 6
  OBVIOUS
<1>3. s \in Seq(Lines)
  BY DEF Lines, OnceLines, BootOnceScript
<1> HIDE DEF s
<1>4. Elements(s) = OnceLines
  BY <1>1, <1>2 DEF Elements, OnceLines
<1>5. /\ Rank(s[1]) = 1 /\ Rank(s[2]) = 2 /\ Rank(s[3]) = 3 /\ Rank(s[4]) = 4
      /\ Rank(s[5]) = 5 /\ Rank(s[6]) = 6
  BY <1>1 DEF Rank
<1>6. Sorted(s)
  BY <1>1, <1>2, <1>5 DEF Sorted
<1> QED BY <1>1, <1>3, <1>4, <1>6 DEF s

-----------------------------------------------------------------------------
(* The commands of the stages.                                              *)

\* The lines of a list of commands.
Lined(plan) == UNION {Elements(call.lines) : call \in Elements(plan)}

\* What is left is what the running script and the commands after it have.
LEMMA LeftIs == \A d : Left(d) = Elements(session[d].lines) \cup Lined(calls[d])
BY DEF Left, Lined

\* A list of commands and its first one.
LEMMA LinedTail ==
  ASSUME NEW plan \in Seq(CallSet), plan # <<>>
  PROVE  /\ Head(plan) \in CallSet /\ Tail(plan) \in Seq(CallSet)
         /\ Head(plan) \in Elements(plan) /\ Elements(Tail(plan)) \subseteq Elements(plan)
         /\ Lined(plan) = Elements(Head(plan).lines) \cup Lined(Tail(plan))
BY HeadAndTail DEF Lined

\* No command, no line.
LEMMA NothingLined == Lined(<<>>) = {} /\ Elements(<<>>) = {} /\ <<>> \in Seq(CallSet)
<1>1. Elements(<<>>) = {}
  BY NoElements, <<>> \in Seq(CallSet)
<1> QED BY <1>1 DEF Lined

\* A list of one command.
LEMMA OneCall ==
  ASSUME NEW a \in CallSet
  PROVE  /\ <<a>> \in Seq(CallSet) /\ <<a>> # <<>> /\ Head(<<a>>) = a /\ Tail(<<a>>) = <<>>
         /\ Elements(<<a>>) = {a} /\ Lined(<<a>>) = Elements(a.lines)
<1>1. Len(<<a>>) = 1 /\ <<a>>[1] = a /\ <<a>> \in Seq(CallSet) /\ <<a>> # <<>>
      /\ Head(<<a>>) = a /\ Tail(<<a>>) = <<>>
  OBVIOUS
<1>2. \A i \in 1 .. 1 : i = 1
  OBVIOUS
<1>3. Elements(<<a>>) = {a}
  BY <1>1, <1>2 DEF Elements
<1> QED BY <1>1, <1>3 DEF Lined

\* A list of two commands.
LEMMA TwoCalls ==
  ASSUME NEW a \in CallSet, NEW b \in CallSet
  PROVE  /\ <<a, b>> \in Seq(CallSet) /\ <<a, b>> # <<>> /\ Head(<<a, b>>) = a
         /\ Elements(<<a, b>>) = {a, b}
         /\ Lined(<<a, b>>) = Elements(a.lines) \cup Elements(b.lines)
<1>1. Len(<<a, b>>) = 2 /\ <<a, b>>[1] = a /\ <<a, b>>[2] = b /\ <<a, b>> \in Seq(CallSet)
      /\ <<a, b>> # <<>> /\ Head(<<a, b>>) = a
  OBVIOUS
<1>2. \A i \in 1 .. 2 : i = 1 \/ i = 2
  OBVIOUS
<1>3. Elements(<<a, b>>) = {a, b}
  BY <1>1, <1>2 DEF Elements
<1> QED BY <1>1, <1>3 DEF Lined

\* A list of three commands.
LEMMA ThreeCalls ==
  ASSUME NEW a \in CallSet, NEW b \in CallSet, NEW c \in CallSet
  PROVE  /\ <<a, b, c>> \in Seq(CallSet) /\ <<a, b, c>> # <<>> /\ Head(<<a, b, c>>) = a
         /\ Elements(<<a, b, c>>) = {a, b, c}
         /\ Lined(<<a, b, c>>) = Elements(a.lines) \cup Elements(b.lines) \cup Elements(c.lines)
<1>1. Len(<<a, b, c>>) = 3 /\ <<a, b, c>>[1] = a /\ <<a, b, c>>[2] = b /\ <<a, b, c>>[3] = c
      /\ <<a, b, c>> \in Seq(CallSet) /\ <<a, b, c>> # <<>> /\ Head(<<a, b, c>>) = a
  OBVIOUS
<1>2. \A i \in 1 .. 3 : i = 1 \/ i = 2 \/ i = 3
  OBVIOUS
<1>3. Elements(<<a, b, c>>) = {a, b, c}
  BY <1>1, <1>2 DEF Elements
<1> QED BY <1>1, <1>3 DEF Lined

\* One command before two.
LEMMA OneThenTwo == \A x, y, z : <<x>> \o <<y, z>> = <<x, y, z>>
<1> SUFFICES ASSUME NEW x, NEW y, NEW z PROVE <<x>> \o <<y, z>> = <<x, y, z>>
  OBVIOUS
<1> DEFINE S == {x, y, z}
           u == <<x>> \o <<y, z>>
           v == <<x, y, z>>
<1>1. <<x>> \in Seq(S) /\ <<y, z>> \in Seq(S) /\ Len(<<x>>) = 1 /\ Len(<<y, z>>) = 2
  OBVIOUS
<1>2. u \in Seq(S) /\ Len(u) = 3 /\ u[1] = x /\ u[2] = y /\ u[3] = z
  BY <1>1
<1>3. v \in Seq(S) /\ Len(v) = 3 /\ v[1] = x /\ v[2] = y /\ v[3] = z
  OBVIOUS
<1> HIDE DEF S, u, v
<1>4. \A i \in 1 .. 3 : u[i] = v[i]
  BY <1>2, <1>3
<1>5. u = v
  BY <1>2, <1>3, <1>4, SeqEqual
<1> QED BY <1>5 DEF u, v

GoodPlan(d, plan) ==
    /\ plan \in Seq(CallSet) /\ plan # <<>>
    /\ \A call \in Elements(plan) : GoodCall(d, call)

\* A foreground command of build lines only.
LEMMA BuildCall ==
  ASSUME NEW d, NEW line \in BuildLines
  PROVE  /\ Call("Ssh", <<line>>) \in CallSet /\ GoodCall(d, Call("Ssh", <<line>>))
         /\ Call("Ssh", <<line>>).owner = "Ssh"
         /\ Elements(Call("Ssh", <<line>>).lines) = {line}
<1>1. /\ Call("Ssh", <<line>>).owner = "Ssh" /\ Call("Ssh", <<line>>).lines = <<line>>
      /\ line \in Lines /\ line \notin BootLines
  BY DEF Call, Lines, BuildLines, BootLines
<1>2. <<line>> \in Seq(Lines) /\ Elements(<<line>>) = {line} /\ Sorted(<<line>>)
  BY <1>1, OneLine
<1>3. Call("Ssh", <<line>>) \in CallSet
  BY <1>2 DEF Call, CallSet, Owners
<1> QED BY <1>1, <1>2, <1>3 DEF GoodCall, Issued, Words

\* The commands of a build are foreground commands of build lines, and one
\* elsewhere than on the daemon's node adds a root.
LEMMA BuildPlan ==
  ASSUME NEW d
  PROVE  /\ GoodPlan(d, CallsOf(d, "Build"))
         /\ \A call \in Elements(CallsOf(d, "Build")) : call.owner = "Ssh"
         /\ Lined(CallsOf(d, "Build")) \subseteq BuildLines
         /\ ~daemonHost => "AddRoot" \in Lined(CallsOf(d, "Build"))
<1> DEFINE a == Call("Ssh", <<"CopyDerivation">>)
           b == Call("Ssh", <<"BuildInTarget">>)
           c == Call("Ssh", <<"AddRoot">>)
           l == Call("Ssh", <<"BuildLocal">>)
<1>1. {"CopyDerivation", "BuildInTarget", "AddRoot", "BuildLocal"} \subseteq BuildLines
  BY DEF BuildLines
<1>2. CallsOf(d, "Build") = IF daemonHost THEN <<l>> ELSE <<a, b, c>>
  BY DEF CallsOf, BuildCalls, LocalBuild, TargetRoot
<1>3. /\ \A x \in {a, b, c, l} : x \in CallSet /\ GoodCall(d, x) /\ x.owner = "Ssh"
      /\ Elements(a.lines) = {"CopyDerivation"} /\ Elements(b.lines) = {"BuildInTarget"}
      /\ Elements(c.lines) = {"AddRoot"} /\ Elements(l.lines) = {"BuildLocal"}
  BY <1>1, BuildCall
<1> HIDE DEF a, b, c, l
<1>4. CASE daemonHost
  <2>1. CallsOf(d, "Build") = <<l>>
    BY <1>2, <1>4
  <2>2. /\ <<l>> \in Seq(CallSet) /\ <<l>> # <<>> /\ Elements(<<l>>) = {l}
        /\ Lined(<<l>>) = {"BuildLocal"}
    BY <1>3, OneCall
  <2> QED BY <1>1, <1>3, <1>4, <2>1, <2>2 DEF GoodPlan
<1>5. CASE ~daemonHost
  <2>1. CallsOf(d, "Build") = <<a, b, c>>
    BY <1>2, <1>5
  <2>2. /\ <<a, b, c>> \in Seq(CallSet) /\ <<a, b, c>> # <<>>
        /\ Elements(<<a, b, c>>) = {a, b, c}
        /\ Lined(<<a, b, c>>) = {"CopyDerivation"} \cup {"BuildInTarget"} \cup {"AddRoot"}
    BY <1>3, ThreeCalls
  <2> QED BY <1>1, <1>3, <1>5, <2>1, <2>2 DEF GoodPlan
<1> QED BY <1>4, <1>5

\* So are those of a copy.
LEMMA CopyPlan ==
  ASSUME NEW d
  PROVE  /\ GoodPlan(d, CallsOf(d, "Copy"))
         /\ \A call \in Elements(CallsOf(d, "Copy")) : call.owner = "Ssh"
         /\ Lined(CallsOf(d, "Copy")) \subseteq BuildLines
<1> DEFINE line == IF daemonHost THEN "CopyClosure" ELSE "PathInfo"
           a == Call("Ssh", <<line>>)
<1>1. line \in BuildLines
  BY DEF BuildLines
<1>2. CallsOf(d, "Copy") = <<a>>
  BY DEF CallsOf, CopyCalls
<1> HIDE DEF line
<1>3. a \in CallSet /\ GoodCall(d, a) /\ a.owner = "Ssh" /\ Elements(a.lines) = {line}
  BY <1>1, BuildCall
<1> HIDE DEF a
<1> QED BY <1>1, <1>2, <1>3, OneCall DEF GoodPlan

\* A script owned by a unit, and the foreground scripts of the other actions.
LEMMA ActivationCall ==
  ASSUME NEW d, NEW owner \in Owners, NEW lines \in Seq(Lines), Sorted(lines),
         Elements(lines) \subseteq Words(d),
         Elements(lines) \cap BootLines # {} => "SetProfile" \in Elements(lines),
         owner = "Ssh" => ~Detached(d),
         owner = "Retained" => DetachedSelf(d) /\ request[d].action = "TestActivation"
  PROVE  /\ Call(owner, lines) \in CallSet /\ GoodCall(d, Call(owner, lines))
         /\ Call(owner, lines).owner = owner /\ Call(owner, lines).lines = lines
BY DEF Call, CallSet, GoodCall, Issued

\* The scripts of a single line that a plan may hold.
LEMMA LineScripts ==
  /\ \A line \in {"TestConfiguration", "ClearDefault", "ClearOneshot", "HomeActivate",
                   "HomeProfile"} :
       <<line>> \in Seq(Lines) /\ Elements(<<line>>) = {line} /\ Sorted(<<line>>)
  /\ \A line \in BootLines :
       /\ <<"SetProfile", line>> \in Seq(Lines)
       /\ Elements(<<"SetProfile", line>>) = {"SetProfile", line}
       /\ Sorted(<<"SetProfile", line>>)
<1>1. /\ {"TestConfiguration", "ClearDefault", "ClearOneshot", "HomeActivate", "HomeProfile",
          "SetProfile"} \subseteq Lines
      /\ BootLines \subseteq Lines
      /\ \A line \in BootLines : Rank("SetProfile") < Rank(line)
  BY DEF Lines, SwitchLines, HomeLines, BootLines, Rank
<1> QED BY <1>1, OneLine, TwoLines

\* A foreground command of one line of an activation.
LEMMA SshLine ==
  ASSUME NEW d, ~Detached(d),
         NEW line \in {"TestConfiguration", "ClearDefault", "ClearOneshot", "HomeActivate",
                      "HomeProfile"},
         line \in Words(d)
  PROVE  /\ Call("Ssh", <<line>>) \in CallSet /\ GoodCall(d, Call("Ssh", <<line>>))
         /\ Elements(Call("Ssh", <<line>>).lines) = {line}
<1> DEFINE s == <<line>>
<1>1. s \in Seq(Lines) /\ Elements(s) = {line} /\ Sorted(s) /\ line \notin BootLines
  BY LineScripts DEF BootLines
<1> HIDE DEF s
<1>2. /\ Call("Ssh", s) \in CallSet /\ GoodCall(d, Call("Ssh", s))
      /\ Call("Ssh", s).lines = s
  BY <1>1, ActivationCall DEF Owners
<1> QED BY <1>1, <1>2 DEF s

\* A foreground command that sets the profile and makes it boot.
LEMMA SshBoot ==
  ASSUME NEW d, ~Detached(d), NEW line \in BootLines, {"SetProfile", line} \subseteq Words(d)
  PROVE  /\ Call("Ssh", <<"SetProfile", line>>) \in CallSet
         /\ GoodCall(d, Call("Ssh", <<"SetProfile", line>>))
         /\ Elements(Call("Ssh", <<"SetProfile", line>>).lines) = {"SetProfile", line}
<1> DEFINE s == <<"SetProfile", line>>
<1>1. s \in Seq(Lines) /\ Elements(s) = {"SetProfile", line} /\ Sorted(s)
  BY LineScripts
<1> HIDE DEF s
<1>2. /\ Call("Ssh", s) \in CallSet /\ GoodCall(d, Call("Ssh", s))
      /\ Call("Ssh", s).lines = s
  BY <1>1, ActivationCall DEF Owners
<1> QED BY <1>1, <1>2 DEF s

\* What the commands of an activation must contain.
GoodActivation(d, plan) ==
    /\ GoodPlan(d, plan)
    /\ Switches(d) =>
         /\ Lined(plan) \cap BootLines # {}
         /\ {"ClearDefault", "ClearOneshot"} \subseteq Lined(plan)
    /\ BootsOnce(d) => Tail(plan) = <<>> /\ Head(plan).lines = BootOnceScript
    /\ ~Host(d) /\ request[d].action = "ActivateNow" =>
         Elements(Head(plan).lines) = {"HomeActivate"}

\* A switch or a test of the daemon's own node is one detached script.
LEMMA SelfPlan ==
  ASSUME NEW d, DetachedSelf(d)
  PROVE  GoodActivation(d, <<Call(SelfOwner(d), SelfScript(d))>>)
<1> DEFINE a == Call(SelfOwner(d), SelfScript(d))
<1>1. /\ Host(d) /\ request[d].action \in {"ActivateNow", "TestActivation"} /\ Detached(d)
      /\ ~BootsOnce(d)
  BY DEF DetachedSelf, Host, Detached, BootsOnce
<1>2. CASE request[d].action = "TestActivation"
  <2>1. SelfOwner(d) = "Retained" /\ SelfScript(d) = <<"TestConfiguration">> /\ ~Switches(d)
    BY <1>2 DEF SelfOwner, SelfScript, Switches
  <2>2. "TestConfiguration" \in Words(d) /\ "TestConfiguration" \notin BootLines
    BY <1>1, <1>2 DEF Words, BootLines
  <2> DEFINE s == <<"TestConfiguration">>
  <2>3. s \in Seq(Lines) /\ Sorted(s) /\ Elements(s) = {"TestConfiguration"}
    BY LineScripts
  <2> HIDE DEF s
  <2>4. Call("Retained", s) \in CallSet /\ GoodCall(d, Call("Retained", s))
    BY <1>2, <2>2, <2>3, ActivationCall DEF Owners
  <2>5. a \in CallSet /\ GoodCall(d, a)
    BY <2>1, <2>4 DEF s
  <2> HIDE DEF a
  <2> QED BY <1>1, <2>1, <2>5, OneCall DEF GoodActivation, GoodPlan, a
<1>3. CASE request[d].action = "ActivateNow"
  <2> DEFINE s == <<"SetProfile", "SwitchConfiguration", "ClearDefault", "ClearOneshot">>
  <2>1. SelfOwner(d) = "Unit" /\ SelfScript(d) = s
    BY <1>3 DEF SelfOwner, SelfScript
  <2>2. /\ s \in Seq(Lines) /\ Sorted(s)
        /\ Elements(s) = {"SetProfile", "SwitchConfiguration", "ClearDefault", "ClearOneshot"}
    BY SelfLines
  <2> HIDE DEF s
  <2>3. Elements(s) \subseteq Words(d)
    BY <1>1, <1>3, <2>2 DEF Words, SwitchLines
  <2>4. a \in CallSet /\ GoodCall(d, a) /\ a.lines = s
    BY <2>1, <2>2, <2>3, ActivationCall DEF Owners
  <2> HIDE DEF a
  <2>5. <<a>> \in Seq(CallSet) /\ <<a>> # <<>> /\ Elements(<<a>>) = {a} /\ Lined(<<a>>) = Elements(s)
    BY <2>4, OneCall
  <2>6. GoodActivation(d, <<a>>)
    BY <1>1, <2>2, <2>4, <2>5 DEF GoodActivation, GoodPlan, BootLines
  <2> QED BY <2>6 DEF a
<1> QED BY <1>1, <1>2, <1>3

\* A boot-once is one script of a unit.
LEMMA OncePlan ==
  ASSUME NEW d, BootsOnce(d), ~DetachedSelf(d)
  PROVE  GoodActivation(d, <<Call("Unit", BootOnceScript)>>)
<1> DEFINE a == Call("Unit", BootOnceScript)
<1>1. /\ Host(d) /\ request[d].action = "ScheduleBootOnce" /\ ~Switches(d)
      /\ OnceLines \subseteq Words(d) /\ "SetProfile" \in OnceLines
  BY DEF BootsOnce, Switches, Words, Host, OnceLines
<1>2. a \in CallSet /\ GoodCall(d, a) /\ a.lines = BootOnceScript
  BY <1>1, OnceScript, ActivationCall DEF Owners
<1> HIDE DEF a
<1>3. GoodActivation(d, <<a>>)
  BY <1>1, <1>2, OneCall DEF GoodActivation, GoodPlan
<1> QED BY <1>3 DEF a

\* The foreground activations of a host.
LEMMA SimplePlan ==
  ASSUME NEW d, Host(d), ~DetachedSelf(d), ~BootsOnce(d), Activates(request[d])
  PROVE  GoodActivation(d, SimpleCalls(d))
<1>1. /\ request[d].action \in {"SetBootProfile", "ActivateNow", "TestActivation"}
      /\ ~Detached(d)
  BY DEF Host, BootsOnce, Activates, Detached
<1>2. CASE request[d].action = "TestActivation"
  <2> DEFINE a == Call("Ssh", <<"TestConfiguration">>)
  <2>1. SimpleCalls(d) = <<a>> /\ ~Switches(d)
    BY <1>2 DEF SimpleCalls, Switches
  <2>2. "TestConfiguration" \in Words(d) /\ "TestConfiguration" \notin BootLines
    BY <1>2 DEF Words, BootLines
  <2>3. a \in CallSet /\ GoodCall(d, a)
    BY <1>1, <2>2, SshLine
  <2> HIDE DEF a
  <2> QED BY <2>1, <2>3, OneCall DEF GoodActivation, GoodPlan
<1>3. CASE request[d].action # "TestActivation"
  <2> DEFINE line == IF request[d].action = "ActivateNow" THEN "SwitchConfiguration"
                                                         ELSE "BootConfiguration"
             a == Call("Ssh", <<"SetProfile", line>>)
             b == Call("Ssh", <<"ClearDefault">>)
             c == Call("Ssh", <<"ClearOneshot">>)
  <2>1. SimpleCalls(d) = <<a>> \o <<b, c>>
    BY <1>1, <1>3 DEF SimpleCalls, Reconcile
  <2>2. SimpleCalls(d) = <<a, b, c>>
    BY <2>1, OneThenTwo
  <2>3. /\ {"SetProfile", "ClearDefault", "ClearOneshot"} \cup BootLines \subseteq Words(d)
        /\ line \in BootLines /\ "ClearDefault" \notin BootLines
        /\ "ClearOneshot" \notin BootLines
    BY <1>1, <1>3 DEF Words, SwitchLines, BootLines
  <2> HIDE DEF line
  <2>4. a \in CallSet /\ GoodCall(d, a) /\ Elements(a.lines) = {"SetProfile", line}
    BY <1>1, <2>3, SshBoot
  <2>5. b \in CallSet /\ GoodCall(d, b) /\ Elements(b.lines) = {"ClearDefault"}
    BY <1>1, <2>3, SshLine
  <2>6. c \in CallSet /\ GoodCall(d, c) /\ Elements(c.lines) = {"ClearOneshot"}
    BY <1>1, <2>3, SshLine
  <2> HIDE DEF a, b, c
  <2>7. /\ <<a, b, c>> \in Seq(CallSet) /\ <<a, b, c>> # <<>>
        /\ Elements(<<a, b, c>>) = {a, b, c}
        /\ Lined(<<a, b, c>>) = {"SetProfile", line} \cup {"ClearDefault"} \cup {"ClearOneshot"}
    BY <2>4, <2>5, <2>6, ThreeCalls
  <2> QED BY <2>2, <2>3, <2>4, <2>5, <2>6, <2>7 DEF GoodActivation, GoodPlan
<1> QED BY <1>2, <1>3

\* The activations of a home.
LEMMA HomePlan ==
  ASSUME NEW d, ~Host(d), Activates(request[d])
  PROVE  GoodActivation(d, HomeCalls(d))
<1> DEFINE a == Call("Ssh", <<"HomeActivate">>)
           b == Call("Ssh", <<"HomeProfile">>)
<1>1. ~Switches(d) /\ ~BootsOnce(d) /\ ~Detached(d) /\ {"HomeActivate", "HomeProfile"} \subseteq Words(d)
      /\ "HomeActivate" \notin BootLines /\ "HomeProfile" \notin BootLines
  BY DEF Host, Switches, BootsOnce, Detached, DetachedSelf, Words, HomeLines, BootLines
<1>2. a \in CallSet /\ GoodCall(d, a) /\ Elements(a.lines) = {"HomeActivate"}
  BY <1>1, SshLine
<1>3. b \in CallSet /\ GoodCall(d, b) /\ Elements(b.lines) = {"HomeProfile"}
  BY <1>1, SshLine
<1>4. HomeCalls(d) = IF request[d].action = "ActivateNow" THEN <<a, b>> ELSE <<b>>
  BY DEF HomeCalls
<1> HIDE DEF a, b
<1>5. CASE request[d].action = "ActivateNow"
  BY <1>1, <1>2, <1>3, <1>4, <1>5, TwoCalls DEF GoodActivation, GoodPlan
<1>6. CASE request[d].action # "ActivateNow"
  <2>1. HomeCalls(d) = <<b>>
    BY <1>4, <1>6
  <2> QED BY <1>1, <1>3, <1>6, <2>1, OneCall DEF GoodActivation, GoodPlan
<1> QED BY <1>5, <1>6

\* The commands of every activation.
LEMMA ActivatePlan ==
  ASSUME NEW d, Activates(request[d])
  PROVE  GoodActivation(d, CallsOf(d, "Activate"))
<1>1. CallsOf(d, "Activate") = IF Host(d) THEN HostCalls(d) ELSE HomeCalls(d)
  BY DEF CallsOf, ActivateCalls, Host
<1>2. CASE ~Host(d)
  BY <1>1, <1>2, HomePlan
<1>3. CASE Host(d) /\ DetachedSelf(d)
  BY <1>1, <1>3, SelfPlan DEF HostCalls
<1>4. CASE Host(d) /\ ~DetachedSelf(d) /\ BootsOnce(d)
  BY <1>1, <1>4, OncePlan DEF HostCalls, BootsOnce
<1>5. CASE Host(d) /\ ~DetachedSelf(d) /\ ~BootsOnce(d)
  BY <1>1, <1>5, SimplePlan DEF HostCalls, BootsOnce
<1> QED BY <1>2, <1>3, <1>4, <1>5

-----------------------------------------------------------------------------
(* How a step moves one deployment.                                         *)

\* No step changes where the daemon runs or what was asked for.
LEMMA FixedWords ==
  ASSUME [Next]_vars
  PROVE  /\ daemonHost' = daemonHost /\ request' = request
         /\ \A d : /\ Host(d)' = Host(d) /\ Switches(d)' = Switches(d)
                   /\ BootsOnce(d)' = BootsOnce(d) /\ DetachedSelf(d)' = DetachedSelf(d)
                   /\ Detached(d)' = Detached(d) /\ Words(d)' = Words(d)
<1>1. daemonHost' = daemonHost /\ request' = request
  BY DEF Next, vars, Submit, Evaluated, EnterStage, Line, LineFails, Answer, EndUnheard, Lose,
         HangUp, Crash, Reboot, RebootSelf, Collect
<1> QED
  BY <1>1 DEF Host, Switches, BootsOnce, DetachedSelf, Detached, Words

Stays(d) ==
    /\ stage'[d] = stage[d] /\ calls'[d] = calls[d] /\ session'[d] = session[d]
    /\ doneAt'[d] = doneAt[d]

Submitted(d) ==
    /\ stage[d] = "New" /\ stage'[d] \in {"Evaluate", "Rejected"}
    /\ calls'[d] = calls[d] /\ session'[d] = session[d] /\ doneAt'[d] = doneAt[d]

Starts(d, s) ==
    /\ s = "Build" => stage[d] \in {"Evaluate", "Build"}
    /\ s = "Copy" => stage[d] = "Copy" \/ (stage[d] = "Build" /\ Left(d) = {})
    /\ s = "Copy" => Activates(request[d])
    /\ s = "Activate" => stage[d] = "Copy" /\ Left(d) = {}
    /\ stage'[d] = s /\ calls'[d] = Tail(CallsOf(d, s))
    /\ session'[d] = Running(Head(CallsOf(d, s))) /\ doneAt'[d] = doneAt[d]

Concludes(d) ==
    /\ stage[d] \in {"Evaluate", "Build", "Activate"} /\ Left(d) = {}
    /\ stage'[d] = "Done" /\ calls'[d] = <<>> /\ session'[d] = Idle
    /\ doneAt'[d] = reboots /\ reboots' = reboots

Executes(d) ==
    /\ Live(d) /\ session[d].lines # <<>>
    /\ stage'[d] = stage[d] /\ calls'[d] = calls[d] /\ doneAt'[d] = doneAt[d]
    /\ session'[d] = [session[d] EXCEPT !.lines = Tail(@)]

Continues(d) ==
    /\ InFlight(d) /\ session[d].lines = <<>> /\ calls[d] # <<>>
    /\ stage'[d] = stage[d] /\ calls'[d] = Tail(calls[d]) /\ doneAt'[d] = doneAt[d]
    /\ session'[d] = Running(Head(calls[d]))

Watches(d) ==
    /\ session[d].owner = "Retained"
    /\ stage'[d] = stage[d] /\ calls'[d] = <<>> /\ doneAt'[d] = doneAt[d]
    /\ session'[d] = session[d]

Halts(d) ==
    /\ \/ ~InFlight(d) /\ stage'[d] = stage[d]
       \/ stage'[d] \in {"Failed", "Orphaned", "Reconciled"} /\ stage[d] \notin {"New", "Rejected", "Done"}
    /\ calls'[d] = <<>> /\ doneAt'[d] = doneAt[d]
    /\ \/ session'[d] = Idle
       \/ session[d].owner # "Retained" /\ session'[d] = [session[d] EXCEPT !.attached = FALSE]

\* A deployment that the daemon waits for.
LEMMA AttachedFlow ==
  ASSUME Typed, NEW d \in Deployments, FlowInv(d)
  PROVE  /\ session[d] \in SessionSet /\ calls[d] \in Seq(CallSet) /\ stage[d] \in Stages
         /\ doneAt[d] \in Nat
         /\ session[d].lines = <<>> => Elements(session[d].lines) = {}
         /\ session[d].lines = <<>> /\ calls[d] = <<>> => Left(d) = {}
         /\ ~InFlight(d) => calls[d] = <<>> /\ session[d].attached = FALSE
         /\ stage[d] \in {"New", "Rejected", "Evaluate", "Done"} => Left(d) = {}
<1>1. /\ session[d] \in SessionSet /\ calls[d] \in Seq(CallSet) /\ stage[d] \in Stages
      /\ doneAt[d] \in Nat
  BY DEF Typed
<1>2. session[d].lines = <<>> => Elements(session[d].lines) = {}
  BY NothingLined
<1>3. session[d].lines = <<>> /\ calls[d] = <<>> => Left(d) = {}
  BY <1>2, NothingLined, LeftIs
<1>4. ~InFlight(d) => calls[d] = <<>> /\ session[d].attached = FALSE
  BY <1>1 DEF FlowInv, SessionSet
<1>5. stage[d] \in {"New", "Rejected", "Evaluate", "Done"} => session[d].lines = <<>> /\ calls[d] = <<>>
  BY <1>4 DEF FlowInv, Idle, InFlight
<1> QED BY <1>1, <1>2, <1>3, <1>4, <1>5

\* No stage is without commands.
LEMMA PlansExist ==
  \A d : /\ CallsOf(d, "Build") # <<>> /\ CallsOf(d, "Copy") # <<>> /\ CallsOf(d, "Done") = <<>>
         /\ Activates(request[d]) => CallsOf(d, "Activate") # <<>>
<1>1. \A d : CallsOf(d, "Done") = <<>>
  BY DEF CallsOf
<1> QED BY <1>1, BuildPlan, CopyPlan, ActivatePlan DEF GoodPlan, GoodActivation

\* A step of deployment d leaves the others.
OthersStay(d) == \A e \in Deployments \ {d} : Stays(e)

\* Entering a stage is a start of its commands or the end.
LEMMA Entering ==
  ASSUME Typed, NEW d \in Deployments, NEW s \in {"Build", "Copy", "Activate", "Done"},
         EnterStage(d, s), s \in {"Copy", "Activate"} => Activates(request[d]),
         stage[d] \in {"Evaluate", "Build", "Copy", "Activate"}, Left(d) = {},
         s = "Build" => stage[d] = "Evaluate",
         s = "Copy" => stage[d] = "Build",
         s = "Activate" => stage[d] = "Copy",
         s = "Done" => stage[d] # "Copy",
         reboots' = reboots
  PROVE  (IF s = "Done" THEN Concludes(d) ELSE Starts(d, s)) /\ OthersStay(d)
<1> DEFINE plan == CallsOf(d, s)
<1>1. s # "Done" => plan # <<>>
  BY PlansExist
<1>2. s = "Done" => plan = <<>>
  BY PlansExist
<1>3. /\ stage' = [stage EXCEPT ![d] = s]
      /\ calls' = [calls EXCEPT ![d] = IF plan = <<>> THEN <<>> ELSE Tail(plan)]
      /\ session' = [session EXCEPT ![d] = IF plan = <<>> THEN Idle ELSE Running(Head(plan))]
      /\ doneAt' = IF s = "Done" THEN [doneAt EXCEPT ![d] = reboots] ELSE doneAt
  BY DEF EnterStage
<1> HIDE DEF plan
<1>4. OthersStay(d)
  BY <1>3 DEF Typed, OthersStay, Stays
<1>5. CASE s = "Done"
  BY <1>2, <1>3, <1>4, <1>5 DEF Typed, Concludes
<1>6. CASE s # "Done"
  <2>1. stage'[d] = s /\ calls'[d] = Tail(plan) /\ session'[d] = Running(Head(plan)) /\ doneAt'[d] = doneAt[d]
    BY <1>1, <1>3, <1>6 DEF Typed
  <2> QED BY <1>4, <1>6, <2>1 DEF Starts, plan
<1> QED BY <1>5, <1>6

\* A submission.
LEMMA SubmitMoves ==
  ASSUME Typed, NEW d \in Deployments, Submit(d)
  PROVE  Submitted(d) /\ OthersStay(d)
BY DEF Typed, Submit, Submitted, OthersStay, Stays, ghosts

\* The end of an evaluation.
LEMMA EvaluatedMoves ==
  ASSUME Typed, NEW d \in Deployments, FlowInv(d), Evaluated(d)
  PROVE  (Starts(d, "Build") \/ Concludes(d)) /\ OthersStay(d)
<1>1. Left(d) = {}
  BY AttachedFlow DEF Evaluated
<1> QED BY <1>1, Entering DEF Evaluated, faults

\* A line.
LEMMA LineMoves ==
  ASSUME Typed, NEW d \in Deployments, FlowInv(d), Line(d)
  PROVE  Executes(d) /\ OthersStay(d)
<1>1. session' = [session EXCEPT ![d].lines = Tail(@)] /\ session[d] \in SessionSet
  BY DEF Line, Typed
<1>2. session'[d] = [session[d] EXCEPT !.lines = Tail(@)]
  BY <1>1 DEF Typed
<1> QED BY <1>1, <1>2 DEF Typed, Line, Executes, OthersStay, Stays

\* A line that fails.
LEMMA LineFailsMoves ==
  ASSUME Typed, NEW d \in Deployments, FlowInv(d), LineFails(d)
  PROVE  Halts(d) /\ OthersStay(d)
<1>1. session'[d] = Idle /\ doneAt'[d] = doneAt[d] /\ Live(d) /\ session[d] \in SessionSet
  BY DEF LineFails, Typed
<1>2. stage[d] \notin {"New", "Rejected", "Done"}
  BY <1>1 DEF FlowInv, Idle, Live
<1>3. OthersStay(d)
  BY DEF LineFails, Fail, Typed, OthersStay, Stays
<1>4. CASE session[d].attached
  BY <1>1, <1>2, <1>3, <1>4 DEF LineFails, Fail, Typed, Halts
<1>5. CASE ~session[d].attached
  <2>1. ~InFlight(d) /\ calls[d] = <<>>
    BY <1>5 DEF FlowInv
  <2> QED BY <1>1, <1>3, <1>5, <2>1 DEF LineFails, Typed, Halts
<1> QED BY <1>4, <1>5

\* An answer: the next command, the next stage or the end.
LEMMA AnswerMoves ==
  ASSUME Typed, NEW d \in Deployments, FlowInv(d), Answer(d)
  PROVE  /\ \/ Continues(d) \/ Starts(d, "Copy") \/ Starts(d, "Activate") \/ Concludes(d)
         /\ OthersStay(d)
<1>1. /\ Live(d) /\ session[d].lines = <<>> /\ session[d].attached /\ InFlight(d)
      /\ reboots' = reboots
  BY DEF Answer, FlowInv, faults
<1>2. CASE calls[d] # <<>>
  <2>1. OthersStay(d)
    BY <1>2 DEF Answer, Typed, OthersStay, Stays
  <2>2. session'[d] = Running(Head(calls[d])) /\ calls'[d] = Tail(calls[d])
    BY <1>2 DEF Answer, Typed
  <2> QED BY <1>1, <1>2, <2>1, <2>2 DEF Answer, Continues
<1>3. CASE calls[d] = <<>>
  <2>1. Left(d) = {} /\ EnterStage(d, After(d, stage[d]))
    BY <1>1, <1>3, AttachedFlow DEF Answer
  <2>2. stage[d] \in {"Build", "Copy", "Activate"}
    BY <1>1 DEF InFlight
  <2>3. CASE stage[d] = "Build"
    BY <1>1, <2>1, <2>3, Entering DEF After
  <2>4. CASE stage[d] = "Copy"
    <3>1. Activates(request[d])
      BY <2>4 DEF FlowInv
    <3> QED BY <1>1, <2>1, <2>4, <3>1, Entering DEF After
  <2>5. CASE stage[d] = "Activate"
    BY <1>1, <2>1, <2>5, Entering DEF After
  <2> QED BY <2>2, <2>3, <2>4, <2>5
<1> QED BY <1>2, <1>3

\* The end of a script nobody waits for, and the loss of a connection.
LEMMA DetachedMoves ==
  ASSUME Typed, NEW d \in Deployments, FlowInv(d), EndUnheard(d) \/ HangUp(d) \/ Lose(d)
  PROVE  Halts(d) /\ OthersStay(d)
<1>1. OthersStay(d)
  BY DEF EndUnheard, HangUp, Lose, Fail, Typed, OthersStay, Stays, ghosts
<1>2. CASE EndUnheard(d) \/ HangUp(d)
  <2>1. ~InFlight(d) /\ calls[d] = <<>>
    BY <1>2 DEF FlowInv, EndUnheard, HangUp
  <2> QED BY <1>1, <1>2, <2>1 DEF EndUnheard, HangUp, Typed, Halts
<1>3. CASE Lose(d)
  <2>1. Live(d) /\ session[d].owner # "Retained" /\ session[d] \in SessionSet
    BY <1>3 DEF Lose, Typed
  <2>2. stage[d] \notin {"New", "Rejected", "Done"}
    BY <2>1 DEF FlowInv, Idle, Live
  <2>3. session'[d] = [session[d] EXCEPT !.attached = FALSE]
    BY <1>3, <2>1 DEF Lose, Typed
  <2> QED BY <1>1, <1>3, <2>1, <2>2, <2>3 DEF Lose, Fail, Typed, Halts, ghosts
<1> QED BY <1>2, <1>3

\* A death of the daemon.
LEMMA CrashMoves ==
  ASSUME Typed, NEW d \in Deployments, FlowInv(d), Crash
  PROVE  \/ Starts(d, "Build") \/ Starts(d, "Copy") \/ Watches(d) \/ Halts(d)
<1>1. stage'[d] = Resumed(d) /\ doneAt'[d] = doneAt[d] /\ session[d] \in SessionSet
  BY DEF Crash, ghosts, Typed
<1>2. CASE stage[d] \in {"Build", "Copy"}
  <2>1. stage'[d] = stage[d]
    BY <1>1, <1>2 DEF Resumed
  <2>2. calls'[d] = Tail(CallsOf(d, stage[d])) /\ session'[d] = Running(Head(CallsOf(d, stage[d])))
    BY <1>2 DEF Crash
  <2>3. stage[d] = "Copy" => Activates(request[d])
    BY DEF FlowInv
  <2> QED BY <1>1, <1>2, <2>1, <2>2, <2>3 DEF Starts
<1>3. CASE session[d].owner = "Retained"
  <2>1. stage[d] = "Activate"
    BY <1>3 DEF FlowInv
  <2>2. Resumed(d) = stage[d]
    BY <1>3, <2>1 DEF Resumed
  <2>3. calls'[d] = <<>> /\ session'[d] = session[d]
    BY <1>3, <2>1 DEF Crash
  <2> QED BY <1>1, <1>3, <2>2, <2>3 DEF Watches
<1>4. CASE stage[d] \notin {"Build", "Copy"} /\ session[d].owner # "Retained"
  <2>1. calls'[d] = <<>> /\ session'[d] = [session[d] EXCEPT !.attached = FALSE]
    BY <1>4 DEF Crash
  <2>2. \/ ~InFlight(d) /\ stage'[d] = stage[d]
        \/ stage[d] = "Activate" /\ stage'[d] \in {"Orphaned", "Reconciled"}
    BY <1>1, <1>4 DEF Resumed, InFlight
  <2> QED BY <1>1, <1>4, <2>1, <2>2 DEF Halts
<1> QED BY <1>2, <1>3, <1>4

\* A restart of the target.
LEMMA RebootMoves ==
  ASSUME Typed, NEW d \in Deployments, FlowInv(d), Reboot \/ RebootSelf
  PROVE  Starts(d, "Build") \/ Starts(d, "Copy") \/ Halts(d)
<1>1. doneAt'[d] = doneAt[d] /\ session[d] \in SessionSet
  BY DEF Reboot, RebootSelf, Typed
<1>2. CASE Reboot
  <2>1. stage'[d] = (IF InFlight(d) THEN "Failed" ELSE stage[d]) /\ calls'[d] = <<>> /\ session'[d] = Idle
    BY <1>2 DEF Reboot, FlowInv
  <2> QED BY <1>1, <2>1 DEF Halts, InFlight
<1>3. CASE RebootSelf /\ stage[d] \in {"Build", "Copy"}
  <2>1. session[d].owner # "Retained"
    BY <1>3 DEF FlowInv
  <2>2. stage'[d] = stage[d]
    BY <1>3, <2>1 DEF RebootSelf, Resumed
  <2>3. calls'[d] = Tail(CallsOf(d, stage[d])) /\ session'[d] = Running(Head(CallsOf(d, stage[d])))
    BY <1>3 DEF RebootSelf
  <2>4. stage[d] = "Copy" => Activates(request[d])
    BY DEF FlowInv
  <2> QED BY <1>1, <1>3, <2>2, <2>3, <2>4 DEF Starts
<1>4. CASE RebootSelf /\ stage[d] \notin {"Build", "Copy"}
  <2>1. calls'[d] = <<>> /\ session'[d] = Idle
    BY <1>4 DEF RebootSelf
  <2>2. \/ ~InFlight(d) /\ stage'[d] = stage[d]
        \/ stage[d] = "Activate" /\ stage'[d] \in {"Orphaned", "Reconciled"}
    BY <1>4 DEF RebootSelf, Resumed, InFlight, FlowInv
  <2> QED BY <1>1, <2>1, <2>2 DEF Halts
<1> QED BY <1>2, <1>3, <1>4

\* A collection.
LEMMA CollectMoves ==
  ASSUME Collect
  PROVE  \A d : Stays(d)
BY DEF Collect, ghosts, Stays

-----------------------------------------------------------------------------
(* What the moves keep.                                                     *)

\* The commands of a stage that starts.
LEMMA StartPlan ==
  ASSUME NEW d, NEW s \in {"Build", "Copy", "Activate"}, Starts(d, s),
         s = "Activate" => Activates(request[d])
  PROVE  /\ GoodPlan(d, CallsOf(d, s))
         /\ s = "Activate" => GoodActivation(d, CallsOf(d, s))
         /\ s # "Activate" => /\ Lined(CallsOf(d, s)) \subseteq BuildLines
                              /\ \A call \in Elements(CallsOf(d, s)) : call.owner = "Ssh"
BY BuildPlan, CopyPlan, ActivatePlan DEF GoodActivation

\* The running command.
LEMMA RunningFields ==
  \A call : /\ Running(call).owner = call.owner /\ Running(call).lines = call.lines
            /\ Running(call).attached = TRUE
            /\ call \in CallSet => Running(call) \in SessionSet
BY DEF Running, CallSet, SessionSet

\* No command.
LEMMA IdleFields ==
  /\ Idle.owner = "None" /\ Idle.lines = <<>> /\ Idle.attached = FALSE /\ Idle \in SessionSet
  /\ Elements(Idle.lines) = {} /\ Sorted(Idle.lines)
<1>1. Idle.owner = "None" /\ Idle.lines = <<>> /\ Idle.attached = FALSE
  BY DEF Idle
<1>2. <<>> \in Seq(Lines)
  OBVIOUS
<1>3. Len(<<>>) = 0
  OBVIOUS
<1>4. Sorted(<<>>)
  BY <1>3 DEF Sorted
<1> QED BY <1>1, <1>2, <1>4, NothingLined DEF Idle, SessionSet

\* A start leaves the commands of its stage to do.
LEMMA StartsKeep ==
  ASSUME Typed, NEW d \in Deployments, FlowInv(d), LineInv(d), [Next]_vars,
         NEW s \in {"Build", "Copy", "Activate"}, Starts(d, s)
  PROVE  /\ session'[d] \in SessionSet /\ calls'[d] \in Seq(CallSet)
         /\ FlowInv(d)' /\ LineInv(d)'
         /\ Left(d)' = Lined(CallsOf(d, s))
<1> DEFINE plan == CallsOf(d, s)
<1>1. Activates(request[d]) \/ s = "Build"
  BY DEF Starts, FlowInv
<1>2. /\ GoodPlan(d, plan)
      /\ s # "Activate" => /\ Lined(plan) \subseteq BuildLines
                           /\ \A call \in Elements(plan) : call.owner = "Ssh"
  BY <1>1, StartPlan
<1>3. /\ stage'[d] = s /\ calls'[d] = Tail(plan) /\ session'[d] = Running(Head(plan))
      /\ doneAt'[d] = doneAt[d]
  BY DEF Starts
<1> HIDE DEF plan
<1>4. /\ Head(plan) \in CallSet /\ Tail(plan) \in Seq(CallSet)
      /\ Head(plan) \in Elements(plan) /\ Elements(Tail(plan)) \subseteq Elements(plan)
      /\ Lined(plan) = Elements(Head(plan).lines) \cup Lined(Tail(plan))
  BY <1>2, LinedTail DEF GoodPlan
<1>5. /\ session'[d] \in SessionSet /\ calls'[d] \in Seq(CallSet)
      /\ session'[d].owner = Head(plan).owner /\ session'[d].lines = Head(plan).lines
      /\ session'[d].attached = TRUE /\ Head(plan).owner \in Owners
  BY <1>3, <1>4, RunningFields DEF CallSet
<1>6. Left(d)' = Lined(plan)
  BY <1>3, <1>4, <1>5 DEF Left, Lined
<1>7. FlowInv(d)'
  BY <1>1, <1>2, <1>3, <1>4, <1>5, FixedWords DEF FlowInv, InFlight, Live, Owners
<1>8. LineInv(d)'
  <2>1. /\ DetachedSelf(d)' = DetachedSelf(d) /\ Detached(d)' = Detached(d)
        /\ Words(d)' = Words(d) /\ request' = request
    BY FixedWords
  <2>2. \A call \in Elements(plan) : GoodCall(d, call)
    BY <1>2 DEF GoodPlan
  <2>3. Issued(d, session[d].owner, session[d].lines)'
    BY <1>4, <1>5, <2>1, <2>2 DEF GoodCall, Issued
  <2>4. (\A call \in Elements(calls[d]) : GoodCall(d, call))'
    BY <1>3, <1>4, <2>1, <2>2 DEF GoodCall, Issued
  <2>5. (stage[d] \in {"Build", "Copy"} => Left(d) \subseteq BuildLines)'
    BY <1>2, <1>3, <1>6
  <2>6. (stage[d] \in {"Build", "Copy"} => \A call \in Elements(calls[d]) : call.owner = "Ssh")'
    BY <1>2, <1>3, <1>4
  <2> QED BY <2>3, <2>4, <2>5, <2>6 DEF LineInv
<1> QED BY <1>5, <1>6, <1>7, <1>8 DEF plan

\* A deployment that moves without a start has at most the lines it had.
LEMMA StaysKeep ==
  ASSUME Typed, NEW d \in Deployments, FlowInv(d), LineInv(d), [Next]_vars,
         Stays(d) \/ Submitted(d) \/ Watches(d)
  PROVE  /\ session'[d] \in SessionSet /\ calls'[d] \in Seq(CallSet) /\ stage'[d] \in Stages
         /\ FlowInv(d)' /\ LineInv(d)'
         /\ Left(d)' \subseteq Left(d)
         /\ session'[d].lines = session[d].lines
<1>1. /\ request' = request /\ DetachedSelf(d)' = DetachedSelf(d) /\ Detached(d)' = Detached(d)
      /\ Words(d)' = Words(d)
  BY FixedWords
<1>2. /\ session[d] \in SessionSet /\ calls[d] \in Seq(CallSet) /\ stage[d] \in Stages
  BY AttachedFlow
<1>3. session'[d] = session[d]
  BY DEF Stays, Submitted, Watches
<1>4. calls'[d] = calls[d] \/ calls'[d] = <<>>
  BY DEF Stays, Submitted, Watches
<1>5. /\ calls'[d] \in Seq(CallSet) /\ Elements(calls'[d]) \subseteq Elements(calls[d])
      /\ Lined(calls'[d]) \subseteq Lined(calls[d])
  BY <1>2, <1>4, NothingLined
<1>6. /\ stage'[d] = stage[d] \/ (stage[d] = "New" /\ stage'[d] \in {"Evaluate", "Rejected"})
      /\ stage'[d] \in Stages
  BY <1>2 DEF Stays, Submitted, Watches, Stages
<1>7. Left(d)' \subseteq Left(d)
  BY <1>3, <1>5 DEF Left, Lined
<1>8. FlowInv(d)'
  <2>1. InFlight(d)' = InFlight(d) /\ Live(d)' = Live(d)
    BY <1>3, <1>6 DEF InFlight, Live
  <2> QED BY <1>1, <1>3, <1>4, <1>6, <2>1 DEF FlowInv
<1>9. LineInv(d)'
  <2>1. Issued(d, session[d].owner, session[d].lines)'
    BY <1>1, <1>3 DEF LineInv, Issued
  <2>2. (\A call \in Elements(calls[d]) : GoodCall(d, call))'
    BY <1>1, <1>5 DEF LineInv, GoodCall, Issued
  <2>3. (stage[d] \in {"Build", "Copy"} => Left(d) \subseteq BuildLines)'
    BY <1>6, <1>7 DEF LineInv
  <2>4. (stage[d] \in {"Build", "Copy"} => \A call \in Elements(calls[d]) : call.owner = "Ssh")'
    BY <1>5, <1>6 DEF LineInv
  <2> QED BY <2>1, <2>2, <2>3, <2>4 DEF LineInv
<1> QED BY <1>2, <1>3, <1>5, <1>6, <1>7, <1>8, <1>9

\* A deployment that stops has at most the running script left.
LEMMA HaltsKeep ==
  ASSUME Typed, NEW d \in Deployments, FlowInv(d), LineInv(d), [Next]_vars,
         Halts(d) \/ Concludes(d)
  PROVE  /\ session'[d] \in SessionSet /\ calls'[d] \in Seq(CallSet) /\ stage'[d] \in Stages
         /\ FlowInv(d)' /\ LineInv(d)'
         /\ Left(d)' \subseteq Left(d)
         /\ session'[d].lines = session[d].lines \/ session'[d].lines = <<>>
<1>1. /\ request' = request /\ DetachedSelf(d)' = DetachedSelf(d) /\ Detached(d)' = Detached(d)
      /\ Words(d)' = Words(d)
  BY FixedWords
<1>2. /\ session[d] \in SessionSet /\ calls[d] \in Seq(CallSet) /\ stage[d] \in Stages
  BY AttachedFlow
<1>3. calls'[d] = <<>> /\ Elements(calls'[d]) = {} /\ Lined(calls'[d]) = {}
  BY NothingLined DEF Halts, Concludes
<1>4. /\ stage'[d] \in Stages \ {"Build", "Copy", "Activate"}
      /\ \/ stage'[d] = stage[d] \/ stage'[d] \in {"Failed", "Orphaned", "Reconciled"}
         \/ stage'[d] = "Done" /\ session'[d] = Idle
  BY <1>2 DEF Halts, Concludes, Stages, InFlight
<1>5. CASE session'[d] = Idle
  <2>1. Left(d)' = {} /\ session'[d] \in SessionSet /\ calls'[d] \in Seq(CallSet)
        /\ session'[d].lines = <<>>
    BY <1>3, <1>5, IdleFields, NothingLined DEF Left, Lined
  <2>2. FlowInv(d)'
    BY <1>3, <1>4, <1>5, IdleFields DEF FlowInv, InFlight, Live
  <2>3. LineInv(d)'
    BY <1>1, <1>3, <1>4, <1>5, IdleFields DEF LineInv, Issued
  <2> QED BY <1>4, <2>1, <2>2, <2>3
<1>6. CASE session'[d] # Idle
  <2>1. session'[d] = [session[d] EXCEPT !.attached = FALSE] /\ session[d].owner # "Retained"
    BY <1>6 DEF Halts, Concludes
  <2>2. /\ session'[d] \in SessionSet /\ session'[d].owner = session[d].owner
        /\ session'[d].lines = session[d].lines /\ session'[d].attached = FALSE
    BY <1>2, <2>1 DEF SessionSet
  <2>3. session[d] # Idle
    <3>1. session[d].attached = FALSE => [session[d] EXCEPT !.attached = FALSE] = session[d]
      BY <1>2 DEF SessionSet
    <3> QED BY <1>6, <2>1, <3>1, IdleFields
  <2>4. Left(d)' \subseteq Left(d)
    BY <1>3, <2>2 DEF Left, Lined
  <2>5. FlowInv(d)'
    BY <1>3, <1>4, <1>6, <2>1, <2>2, <2>3 DEF FlowInv, InFlight, Live
  <2>6. LineInv(d)'
    BY <1>1, <1>3, <1>4, <2>2 DEF LineInv, Issued
  <2> QED BY <1>3, <1>4, <2>2, <2>4, <2>5, <2>6, NothingLined
<1> QED BY <1>5, <1>6

\* A line leaves those after it.
LEMMA ExecutesKeep ==
  ASSUME Typed, NEW d \in Deployments, FlowInv(d), LineInv(d), [Next]_vars, Executes(d)
  PROVE  /\ session'[d] \in SessionSet /\ calls'[d] \in Seq(CallSet) /\ stage'[d] \in Stages
         /\ FlowInv(d)' /\ LineInv(d)'
         /\ Left(d) = {Head(session[d].lines)} \cup Left(d)'
         /\ Elements(session[d].lines) = {Head(session[d].lines)} \cup Elements(session'[d].lines)
         /\ \A line \in Elements(session'[d].lines) : Rank(Head(session[d].lines)) < Rank(line)
         /\ Head(session[d].lines) \in Words(d) /\ Head(session[d].lines) \in Lines
<1> DEFINE lines == session[d].lines
<1>1. /\ request' = request /\ DetachedSelf(d)' = DetachedSelf(d) /\ Detached(d)' = Detached(d)
      /\ Words(d)' = Words(d)
  BY FixedWords
<1>2. /\ session[d] \in SessionSet /\ calls[d] \in Seq(CallSet) /\ stage[d] \in Stages
      /\ lines \in Seq(Lines) /\ lines # <<>> /\ Sorted(lines)
  BY AttachedFlow DEF SessionSet, Executes, LineInv, Issued
<1>3. /\ calls'[d] = calls[d] /\ stage'[d] = stage[d]
      /\ session'[d].lines = Tail(lines) /\ session'[d].owner = session[d].owner
      /\ session'[d].attached = session[d].attached /\ session'[d].owner # "None"
  BY <1>2 DEF Executes, SessionSet, Live
<1>4. Head(lines) \in Lines /\ Tail(lines) \in Seq(Lines)
      /\ Elements(lines) = {Head(lines)} \cup Elements(Tail(lines))
  BY <1>2, HeadAndTail
<1>5. Sorted(Tail(lines)) /\ \A line \in Elements(Tail(lines)) : Rank(Head(lines)) < Rank(line)
  BY <1>2, SortedTail
<1>6. session'[d] \in SessionSet
  BY <1>2, <1>4 DEF Executes, SessionSet
<1>7. Left(d) = {Head(lines)} \cup Left(d)'
  BY <1>3, <1>4 DEF Left
<1>8. Elements(lines) \subseteq Words(d)
  BY DEF LineInv, Issued
<1> HIDE DEF lines
<1>9. FlowInv(d)'
  <2>1. InFlight(d)' = InFlight(d) /\ Live(d)' /\ Live(d)
    BY <1>3 DEF InFlight, Live
  <2>2. stage[d] \notin {"New", "Rejected", "Evaluate", "Done"}
    BY <2>1 DEF FlowInv, Idle, Live
  <2> QED BY <1>1, <1>3, <2>1, <2>2 DEF FlowInv
<1>10. LineInv(d)'
  <2>1. Issued(d, session[d].owner, lines)
    BY DEF LineInv, lines
  <2>2. Issued(d, session[d].owner, session[d].lines)'
    BY <1>1, <1>3, <1>4, <1>5, <2>1 DEF Issued
  <2>3. (\A call \in Elements(calls[d]) : GoodCall(d, call))'
    BY <1>1, <1>3 DEF LineInv, GoodCall, Issued
  <2>4. (stage[d] \in {"Build", "Copy"} => Left(d) \subseteq BuildLines)'
    BY <1>3, <1>7 DEF LineInv
  <2>5. (stage[d] \in {"Build", "Copy"} => \A call \in Elements(calls[d]) : call.owner = "Ssh")'
    BY <1>3 DEF LineInv
  <2> QED BY <2>2, <2>3, <2>4, <2>5 DEF LineInv
<1> QED BY <1>2, <1>3, <1>4, <1>5, <1>6, <1>7, <1>8, <1>9, <1>10 DEF lines

\* The next command of a stage.
LEMMA ContinuesKeep ==
  ASSUME Typed, NEW d \in Deployments, FlowInv(d), LineInv(d), [Next]_vars, Continues(d)
  PROVE  /\ session'[d] \in SessionSet /\ calls'[d] \in Seq(CallSet) /\ stage'[d] \in Stages
         /\ FlowInv(d)' /\ LineInv(d)'
         /\ Left(d)' = Left(d)
         /\ \E call \in Elements(calls[d]) :
              GoodCall(d, call) /\ session'[d].lines = call.lines
<1> DEFINE plan == calls[d]
<1>1. /\ request' = request /\ DetachedSelf(d)' = DetachedSelf(d) /\ Detached(d)' = Detached(d)
      /\ Words(d)' = Words(d)
  BY FixedWords
<1>2. /\ stage'[d] = stage[d] /\ calls'[d] = Tail(plan) /\ session'[d] = Running(Head(plan))
      /\ plan \in Seq(CallSet) /\ plan # <<>> /\ session[d].lines = <<>> /\ InFlight(d)
      /\ stage[d] \in Stages /\ Elements(session[d].lines) = {}
  BY AttachedFlow DEF Continues
<1>3. \A call \in Elements(plan) : GoodCall(d, call)
  BY DEF LineInv
<1>4. Left(d) = Lined(plan)
  BY <1>2, LeftIs
<1> HIDE DEF plan
<1>5. /\ Head(plan) \in CallSet /\ Tail(plan) \in Seq(CallSet)
      /\ Head(plan) \in Elements(plan) /\ Elements(Tail(plan)) \subseteq Elements(plan)
      /\ Lined(plan) = Elements(Head(plan).lines) \cup Lined(Tail(plan))
  BY <1>2, LinedTail
<1>6. /\ session'[d] \in SessionSet /\ calls'[d] \in Seq(CallSet)
      /\ session'[d].owner = Head(plan).owner /\ session'[d].lines = Head(plan).lines
      /\ session'[d].attached = TRUE /\ Head(plan).owner \in Owners
  BY <1>2, <1>5, RunningFields DEF CallSet
<1>7. Left(d)' = Lined(plan)
  BY <1>2, <1>5, <1>6 DEF Left, Lined
<1>8. stage[d] \in {"Build", "Copy"} => \A call \in Elements(plan) : call.owner = "Ssh"
  BY DEF LineInv, plan
<1>9. FlowInv(d)'
  BY <1>1, <1>2, <1>5, <1>6, <1>8 DEF FlowInv, InFlight, Live, Owners
<1>10. LineInv(d)'
  <2>1. Issued(d, session[d].owner, session[d].lines)'
    BY <1>1, <1>3, <1>5, <1>6 DEF GoodCall, Issued
  <2>2. (\A call \in Elements(calls[d]) : GoodCall(d, call))'
    BY <1>1, <1>2, <1>3, <1>5 DEF GoodCall, Issued
  <2>3. (stage[d] \in {"Build", "Copy"} => Left(d) \subseteq BuildLines)'
    BY <1>2, <1>4, <1>7 DEF LineInv
  <2>4. (stage[d] \in {"Build", "Copy"} => \A call \in Elements(calls[d]) : call.owner = "Ssh")'
    BY <1>2, <1>5, <1>8
  <2> QED BY <2>1, <2>2, <2>3, <2>4 DEF LineInv
<1> QED BY <1>2, <1>3, <1>4, <1>5, <1>6, <1>7, <1>9, <1>10 DEF plan

-----------------------------------------------------------------------------
(* How a step changes the target and the records of what happened.          *)

\* Commands run, answer, end, are lost or are refused without a trace on the
\* target.
Quiet == machine' = machine /\ scratch' = scratch /\ activated' = activated /\ reboots' = reboots

\* The restart of the target.
Restarts ==
    /\ reboots' = reboots + 1 /\ scratch' = scratch /\ activated' = activated
    /\ machine' = [machine EXCEPT !.booted = NextBoot(machine), !.running = NextBoot(machine),
                                  !.efiOneshot = ""]

\* A deployment that begins to activate.
BeginsActivation(d) ==
    /\ Quiet /\ Starts(d, "Activate") /\ OthersStay(d)
    /\ alone' = {e \in alone : request[e].kind # request[d].kind}
                  \cup (IF Contended(d) THEN {} ELSE {d})

\* A line of a script.
Performs(d) == Line(d) /\ Executes(d) /\ OthersStay(d) /\ alone' = alone

\* Any other step: what each deployment does, and what the target does.
Move(d) ==
    \/ Stays(d) \/ Submitted(d) \/ Concludes(d) \/ Continues(d) \/ Watches(d) \/ Halts(d)
    \/ Starts(d, "Build") \/ Starts(d, "Copy")

OtherStep ==
    /\ \A d \in Deployments : Move(d)
    /\ alone' = alone
    /\ \/ Quiet \/ Collect
       \/ Restarts /\ \A d \in Deployments : stage'[d] # "Activate"

\* Every step is one of these.
LEMMA EveryStep ==
  ASSUME Typed, \A d \in Deployments : FlowInv(d), [Next]_vars
  PROVE  \/ \E d \in Deployments : Performs(d) \/ BeginsActivation(d)
         \/ OtherStep
<1> DEFINE Goal == \/ \E d \in Deployments : Performs(d) \/ BeginsActivation(d)
                   \/ OtherStep
<1> SUFFICES Goal
  OBVIOUS
<1>1. ASSUME NEW d \in Deployments, OthersStay(d), Move(d), Quiet, alone' = alone PROVE Goal
  <2>1. \A e \in Deployments : Move(e)
    BY <1>1 DEF OthersStay, Move
  <2> QED BY <1>1, <2>1 DEF OtherStep
<1> HIDE DEF Goal
<1>2. ASSUME NEW d \in Deployments, Submit(d) PROVE Goal
  <2>1. Quiet /\ alone' = alone
    BY <1>2 DEF Submit, Quiet, ghosts, faults
  <2> QED BY <1>1, <1>2, <2>1, SubmitMoves DEF Move
<1>3. ASSUME NEW d \in Deployments, Evaluated(d) PROVE Goal
  <2>1. Quiet /\ alone' = alone
    BY <1>3 DEF Evaluated, EnterStage, Quiet, faults
  <2> QED BY <1>1, <1>3, <2>1, EvaluatedMoves DEF Move
<1>4. ASSUME NEW d \in Deployments, Line(d) PROVE Goal
  <2>1. alone' = alone
    BY <1>4 DEF Line
  <2> QED BY <1>4, <2>1, LineMoves DEF Performs, Goal
<1>5. ASSUME NEW d \in Deployments, LineFails(d) PROVE Goal
  <2>1. Quiet /\ alone' = alone
    BY <1>5 DEF LineFails, Quiet, faults
  <2> QED BY <1>1, <1>5, <2>1, LineFailsMoves DEF Move
<1>6. ASSUME NEW d \in Deployments, Answer(d) PROVE Goal
  <2>1. Quiet
    BY <1>6 DEF Answer, Quiet, faults
  <2>2. \/ calls[d] # <<>> /\ alone' = alone /\ stage'[d] = stage[d]
        \/ EnterStage(d, After(d, stage[d]))
    BY <1>6 DEF Answer
  <2>3. CASE alone' = alone /\ ~Starts(d, "Activate")
    BY <1>1, <1>6, <2>1, <2>3, AnswerMoves DEF Move
  <2>4. CASE calls[d] # <<>> /\ alone' = alone /\ stage'[d] = stage[d]
    <3>1. ~Starts(d, "Activate")
      BY <2>4 DEF Starts
    <3> QED BY <2>3, <2>4, <3>1
  <2>5. CASE EnterStage(d, After(d, stage[d])) /\ After(d, stage[d]) # "Activate"
    <3>1. alone' = alone /\ stage'[d] # "Activate"
      BY <2>5 DEF EnterStage, Typed
    <3> QED BY <2>3, <3>1 DEF Starts
  <2>6. CASE EnterStage(d, After(d, stage[d])) /\ After(d, stage[d]) = "Activate"
    <3>1. stage'[d] = "Activate"
      BY <2>6 DEF EnterStage, Typed
    <3>2. stage[d] = "Copy"
      <4>1. stage[d] \in {"Build", "Copy", "Activate"}
        BY <1>6 DEF Answer, FlowInv, InFlight
      <4> QED BY <2>6, <4>1 DEF After
    <3>3. Starts(d, "Activate") /\ OthersStay(d)
      BY <1>6, <3>1, <3>2, AnswerMoves DEF Starts, Continues, Concludes
    <3>4. alone' = {e \in alone : request[e].kind # request[d].kind}
                     \cup (IF Contended(d) THEN {} ELSE {d})
      BY <2>6 DEF EnterStage
    <3> QED BY <2>1, <3>3, <3>4 DEF BeginsActivation, Goal
  <2> QED BY <2>2, <2>4, <2>5, <2>6
<1>7. ASSUME NEW d \in Deployments, EndUnheard(d) \/ HangUp(d) \/ Lose(d) PROVE Goal
  <2>1. Quiet /\ alone' = alone
    BY <1>7 DEF EndUnheard, HangUp, Lose, Quiet, ghosts, faults
  <2> QED BY <1>1, <1>7, <2>1, DetachedMoves DEF Move
<1>8. ASSUME Crash PROVE Goal
  <2>1. Quiet /\ alone' = alone
    BY <1>8 DEF Crash, Quiet, ghosts
  <2> QED BY <1>8, <2>1, CrashMoves DEF Move, OtherStep, Goal
<1>9. ASSUME Reboot \/ RebootSelf PROVE Goal
  <2>1. Restarts /\ alone' = alone
    BY <1>9 DEF Reboot, RebootSelf, Restarts
  <2>2. \A d \in Deployments : Starts(d, "Build") \/ Starts(d, "Copy") \/ Halts(d)
    BY <1>9, RebootMoves
  <2>3. \A d \in Deployments : Move(d) /\ stage'[d] # "Activate"
    BY <2>2 DEF Move, Starts, Halts, InFlight
  <2> QED BY <2>1, <2>3 DEF OtherStep, Goal
<1>10. ASSUME Collect PROVE Goal
  <2>1. alone' = alone
    BY <1>10 DEF Collect, ghosts
  <2> QED BY <1>10, <2>1, CollectMoves DEF Move, OtherStep, Goal
<1>11. ASSUME UNCHANGED vars PROVE Goal
  <2>1. Quiet /\ alone' = alone /\ \A d : Stays(d)
    BY <1>11 DEF vars, Quiet, Stays
  <2> QED BY <2>1 DEF Move, OtherStep, Goal
<1> QED
  BY <1>2, <1>3, <1>4, <1>5, <1>6, <1>7, <1>8, <1>9, <1>10, <1>11 DEF Next

\* The fields of the target that a line does not name stay.
LEMMA EffectFields ==
  ASSUME Typed, NEW d \in Deployments, NEW line \in Lines, machine' = Effect(line, d, machine)
  PROVE  /\ machine' \in MachineSet
         /\ machine'.derivations =
              IF line = "CopyDerivation" THEN machine.derivations \cup {d} ELSE machine.derivations
         /\ machine'.store =
              IF line \in {"BuildInTarget", "BuildLocal"} THEN machine.store \cup {d}
                                                         ELSE machine.store
         /\ machine'.roots = IF line = "AddRoot" THEN machine.roots \cup {d} ELSE machine.roots
         /\ machine'.generations =
              IF line \in {"SetProfile", "HomeProfile"} THEN machine.generations \cup {d}
                                                       ELSE machine.generations
         /\ machine'.loader = IF line \in BootLines THEN d ELSE machine.loader
         /\ machine'.booted = machine.booted
         /\ machine'.efiDefault =
              IF line = "ClearDefault" THEN ""
              ELSE IF line = "DefaultOld" THEN scratch[d].old ELSE machine.efiDefault
         /\ machine'.efiOneshot =
              IF line = "ClearOneshot" THEN ""
              ELSE IF line = "OneshotNew" THEN scratch[d].new ELSE machine.efiOneshot
         /\ machine'.homeProfile = IF line = "HomeProfile" THEN d ELSE machine.homeProfile
<1>1. machine \in MachineSet /\ d \in Closures /\ d \in Entries /\ "" \in Entries
      /\ scratch[d] \in [old : Entries, new : Entries]
  BY DEF Typed, Closures, Entries
<1>2. CASE line \in {"CopyDerivation", "BuildInTarget", "BuildLocal", "AddRoot"}
  BY <1>1, <1>2 DEF Effect, MachineSet, BootLines
<1>3. CASE line \in {"SetProfile", "HomeProfile", "HomeActivate"}
  BY <1>1, <1>3 DEF Effect, MachineSet, BootLines
<1>4. CASE line \in {"BootConfiguration", "SwitchConfiguration", "TestConfiguration"}
  BY <1>1, <1>4 DEF Effect, MachineSet, BootLines
<1>5. CASE line \in {"ClearDefault", "ClearOneshot"}
  BY <1>1, <1>5 DEF Effect, MachineSet, BootLines
<1>6. CASE line \in {"DefaultOld", "OneshotNew"}
  BY <1>1, <1>6 DEF Effect, MachineSet, BootLines
<1>7. CASE line \in {"ReadOld", "ReadNew", "CopyClosure", "PathInfo"}
  BY <1>1, <1>7 DEF Effect, MachineSet, BootLines
<1> QED
  BY <1>2, <1>3, <1>4, <1>5, <1>6, <1>7 DEF Lines, BuildLines, SwitchLines, OnceLines, HomeLines

\* The shell variables after a line.
LEMMA ScratchFields ==
  ASSUME Typed, NEW d \in Deployments, NEW line \in Lines, scratch' = Scratch(line, d, machine)
  PROVE  /\ scratch' \in [Deployments -> [old : Entries, new : Entries]]
         /\ \A e \in Deployments : e # d => scratch'[e] = scratch[e]
         /\ scratch'[d].old = IF line = "ReadOld" THEN machine.booted ELSE scratch[d].old
         /\ scratch'[d].new = IF line = "ReadNew" THEN machine.loader ELSE scratch[d].new
<1>1. /\ scratch \in [Deployments -> [old : Entries, new : Entries]]
      /\ machine.booted \in Entries /\ machine.loader \in Entries
  BY DEF Typed, MachineSet, Entries
<1>2. CASE line = "ReadOld"
  BY <1>1, <1>2 DEF Scratch
<1>3. CASE line = "ReadNew"
  BY <1>1, <1>3 DEF Scratch
<1>4. CASE line \notin {"ReadOld", "ReadNew"}
  BY <1>1, <1>4 DEF Scratch
<1> QED BY <1>2, <1>3, <1>4

\* A line: what it needs and what it does.
LEMMA LineEffects ==
  ASSUME Typed, NEW d \in Deployments, FlowInv(d), LineInv(d), Line(d)
  PROVE  LET line == Head(session[d].lines) IN
         /\ line \in Lines /\ line \in Words(d) /\ line \in Elements(session[d].lines)
         /\ Ready(line, d, machine)
         /\ machine' = Effect(line, d, machine) /\ scratch' = Scratch(line, d, machine)
         /\ activated' = (IF line = "HomeActivate" THEN activated \cup {d} ELSE activated)
         /\ reboots' = reboots /\ alone' = alone
<1> DEFINE line == Head(session[d].lines)
<1>1. /\ Ready(line, d, machine)
      /\ machine' = Effect(line, d, machine) /\ scratch' = Scratch(line, d, machine)
      /\ activated' = (IF line = "HomeActivate" THEN activated \cup {d} ELSE activated)
      /\ reboots' = reboots /\ alone' = alone /\ session[d].lines # <<>>
  BY DEF Line, faults
<1>2. session[d].lines \in Seq(Lines) /\ Elements(session[d].lines) \subseteq Words(d)
  BY AttachedFlow DEF SessionSet, LineInv, Issued
<1>3. line \in Lines /\ line \in Elements(session[d].lines)
  BY <1>1, <1>2, HeadAndTail
<1> QED BY <1>1, <1>2, <1>3

\* What the loader starts is one of the three things it looks at.
LEMMA NextBootIs ==
  ASSUME Typed
  PROVE  /\ NextBoot(machine) \in Closures
         /\ NextBoot(machine) = machine.loader
              \/ NextBoot(machine) \in {machine.efiDefault, machine.efiOneshot} \ {""}
BY DEF Typed, MachineSet, NextBoot, Entries

\* The fields of the target after a restart.
LEMMA RestartFields ==
  ASSUME Typed, Restarts
  PROVE  /\ machine' \in MachineSet
         /\ machine'.store = machine.store /\ machine'.roots = machine.roots
         /\ machine'.generations = machine.generations /\ machine'.loader = machine.loader
         /\ machine'.homeProfile = machine.homeProfile
         /\ machine'.booted = NextBoot(machine) /\ machine'.efiOneshot = ""
         /\ machine'.efiDefault = machine.efiDefault
<1>1. machine \in MachineSet /\ NextBoot(machine) \in Closures /\ "" \in Entries
  BY NextBootIs DEF Typed, Entries
<1> QED BY <1>1 DEF Restarts, MachineSet

\* The fields of the target after a collection.
LEMMA CollectFields ==
  ASSUME Typed, Collect
  PROVE  /\ machine' \in MachineSet
         /\ machine'.store = machine.store \cap Kept(machine)
         /\ machine'.roots = machine.roots
         /\ machine'.generations = machine.generations /\ machine'.loader = machine.loader
         /\ machine'.homeProfile = machine.homeProfile /\ machine'.booted = machine.booted
         /\ machine'.efiOneshot = machine.efiOneshot /\ machine'.efiDefault = machine.efiDefault
<1>1. machine \in MachineSet
  BY DEF Typed
<1>2. machine' = [machine EXCEPT !.store = machine.store \cap Kept(machine), !.derivations = {}]
  BY <1>1 DEF Collect, MachineSet
<1> QED BY <1>1, <1>2 DEF MachineSet

-----------------------------------------------------------------------------
(* The invariant: types and the control of each deployment.                 *)

\* Where a step leaves a deployment.
LEMMA StepKeeps ==
  ASSUME Typed, \A e \in Deployments : FlowInv(e) /\ LineInv(e), [Next]_vars, NEW d \in Deployments
  PROVE  /\ session'[d] \in SessionSet /\ calls'[d] \in Seq(CallSet) /\ stage'[d] \in Stages
         /\ doneAt'[d] \in Nat /\ doneAt'[d] <= reboots'
         /\ FlowInv(d)' /\ LineInv(d)'
<1>1. /\ stage[d] \in Stages /\ doneAt[d] \in Nat /\ reboots \in Nat /\ doneAt[d] <= reboots
  BY DEF Typed
<1>2. reboots' = reboots \/ reboots' = reboots + 1
  BY EveryStep DEF Performs, BeginsActivation, OtherStep, Line, faults, Quiet, Restarts, Collect
<1>3. CASE Stays(d) \/ Submitted(d) \/ Watches(d)
  BY <1>1, <1>2, <1>3, StaysKeep DEF Stays, Submitted, Watches
<1>4. CASE Halts(d) \/ Concludes(d)
  <2>1. /\ session'[d] \in SessionSet /\ calls'[d] \in Seq(CallSet) /\ stage'[d] \in Stages
        /\ FlowInv(d)' /\ LineInv(d)'
    BY <1>4, HaltsKeep
  <2>2. doneAt'[d] = doneAt[d] \/ doneAt'[d] = reboots
    BY <1>4 DEF Halts, Concludes
  <2>3. doneAt'[d] \in Nat /\ doneAt'[d] <= reboots'
    BY <1>1, <1>2, <2>2
  <2> QED BY <2>1, <2>3
<1>5. CASE Continues(d)
  <2>1. doneAt'[d] = doneAt[d]
    BY <1>5 DEF Continues
  <2> QED BY <1>1, <1>2, <1>5, <2>1, ContinuesKeep
<1>6. CASE Executes(d)
  BY <1>1, <1>2, <1>6, ExecutesKeep DEF Executes
<1>7. ASSUME NEW s \in {"Build", "Copy", "Activate"}, Starts(d, s)
      PROVE  /\ session'[d] \in SessionSet /\ calls'[d] \in Seq(CallSet) /\ stage'[d] \in Stages
             /\ doneAt'[d] \in Nat /\ doneAt'[d] <= reboots'
             /\ FlowInv(d)' /\ LineInv(d)'
  <2>1. stage'[d] = s /\ doneAt'[d] = doneAt[d]
    BY <1>7 DEF Starts
  <2> QED BY <1>1, <1>2, <1>7, <2>1, StartsKeep DEF Stages
<1>8. ASSUME NEW e \in Deployments, Performs(e) \/ BeginsActivation(e)
      PROVE  Stays(d) \/ Executes(d) \/ Starts(d, "Activate")
  BY <1>8 DEF Performs, BeginsActivation, OthersStay
<1>9. ASSUME OtherStep PROVE Move(d)
  BY <1>9 DEF OtherStep
<1> QED
  BY <1>3, <1>4, <1>5, <1>6, <1>7, <1>8, <1>9, EveryStep DEF Move

\* The tables keep their domain.
LEMMA TablesKept ==
  ASSUME Typed, [Next]_vars
  PROVE  /\ stage' = [d \in Deployments |-> stage'[d]]
         /\ calls' = [d \in Deployments |-> calls'[d]]
         /\ session' = [d \in Deployments |-> session'[d]]
         /\ doneAt' = [d \in Deployments |-> doneAt'[d]]
         /\ outcome' \in [Deployments -> {"None", "Ran", "LineFailed", "Cut", "Rebooted"}]
<1> DEFINE Tables == /\ stage' = [d \in Deployments |-> stage'[d]]
                   /\ calls' = [d \in Deployments |-> calls'[d]]
                   /\ session' = [d \in Deployments |-> session'[d]]
                   /\ doneAt' = [d \in Deployments |-> doneAt'[d]]
                   /\ outcome' \in [Deployments -> {"None", "Ran", "LineFailed", "Cut", "Rebooted"}]
<1> SUFFICES Tables
  OBVIOUS
<1>1. ASSUME NEW d \in Deployments, Submit(d) \/ Line(d) PROVE Tables
  BY <1>1 DEF Submit, Line, Typed, ghosts
<1>2. ASSUME NEW d \in Deployments, Evaluated(d) PROVE Tables
  BY <1>2 DEF Evaluated, EnterStage, Typed
<1>3. ASSUME NEW d \in Deployments, LineFails(d) \/ EndUnheard(d) PROVE Tables
  BY <1>3 DEF LineFails, Fail, EndUnheard, Typed
<1>4. ASSUME NEW d \in Deployments, Answer(d) PROVE Tables
  BY <1>4 DEF Answer, EnterStage, Typed
<1>5. ASSUME NEW d \in Deployments, Lose(d) \/ HangUp(d) PROVE Tables
  BY <1>5 DEF Lose, HangUp, Fail, Typed, ghosts
<1>6. ASSUME Crash PROVE Tables
  BY <1>6 DEF Crash, Typed, ghosts
<1>7. ASSUME Reboot \/ RebootSelf PROVE Tables
  BY <1>7 DEF Reboot, RebootSelf, Typed
<1>8. ASSUME Collect \/ UNCHANGED vars PROVE Tables
  BY <1>8 DEF Collect, Typed, ghosts, vars
<1> QED BY <1>1, <1>2, <1>3, <1>4, <1>5, <1>6, <1>7, <1>8 DEF Next

\* The types and the control.
LEMMA ControlKept ==
  ASSUME Typed, \A d \in Deployments : FlowInv(d) /\ LineInv(d), [Next]_vars
  PROVE  Typed' /\ \A d \in Deployments : FlowInv(d)' /\ LineInv(d)'
<1>1. \A d \in Deployments :
        /\ session'[d] \in SessionSet /\ calls'[d] \in Seq(CallSet) /\ stage'[d] \in Stages
        /\ doneAt'[d] \in Nat /\ doneAt'[d] <= reboots'
        /\ FlowInv(d)' /\ LineInv(d)'
  BY StepKeeps
<1>2. daemonHost' = daemonHost
  BY FixedWords
<1>3. /\ machine' \in MachineSet /\ scratch' \in [Deployments -> [old : Entries, new : Entries]]
      /\ activated' \subseteq Deployments /\ alone' \subseteq Deployments /\ reboots' \in Nat
  <2>1. /\ machine \in MachineSet /\ scratch \in [Deployments -> [old : Entries, new : Entries]]
        /\ activated \subseteq Deployments /\ alone \subseteq Deployments /\ reboots \in Nat
    BY DEF Typed
  <2>2. ASSUME NEW d \in Deployments, Performs(d)
        PROVE  /\ machine' \in MachineSet
               /\ scratch' \in [Deployments -> [old : Entries, new : Entries]]
               /\ activated' \subseteq Deployments /\ alone' \subseteq Deployments
               /\ reboots' \in Nat
    <3> DEFINE line == Head(session[d].lines)
    <3>1. /\ line \in Lines
          /\ machine' = Effect(line, d, machine) /\ scratch' = Scratch(line, d, machine)
          /\ activated' = (IF line = "HomeActivate" THEN activated \cup {d} ELSE activated)
          /\ reboots' = reboots /\ alone' = alone
      BY <2>2, LineEffects DEF Performs
    <3> HIDE DEF line
    <3> QED BY <2>1, <3>1, EffectFields, ScratchFields
  <2>3. alone' \subseteq Deployments
    BY <2>1, EveryStep DEF Performs, BeginsActivation, OtherStep
  <2>4. (\E d \in Deployments : Performs(d)) \/ Restarts \/ Collect \/ Quiet
    BY EveryStep DEF BeginsActivation, OtherStep
  <2>5. CASE Restarts \/ Collect
    <3>1. machine' \in MachineSet
      BY <2>5, RestartFields, CollectFields
    <3>2. scratch' = scratch /\ activated' = activated /\ reboots' \in Nat
      BY <2>1, <2>5 DEF Restarts, Collect, ghosts, faults
    <3> QED BY <2>1, <2>3, <3>1, <3>2
  <2>6. CASE Quiet
    BY <2>1, <2>3, <2>6 DEF Quiet
  <2> QED BY <2>2, <2>4, <2>5, <2>6
<1>4. /\ stage' \in [Deployments -> Stages] /\ calls' \in [Deployments -> Seq(CallSet)]
      /\ session' \in [Deployments -> SessionSet] /\ doneAt' \in [Deployments -> Nat]
  BY <1>1, TablesKept
<1>5. outcome' \in [Deployments -> {"None", "Ran", "LineFailed", "Cut", "Rebooted"}]
  BY TablesKept
<1>6. Typed'
  BY <1>1, <1>2, <1>3, <1>4, <1>5 DEF Typed, MachineSet, Closures, Entries
<1> QED BY <1>1, <1>6

-----------------------------------------------------------------------------
(* The invariant: roots and generations.                                    *)

\* A deployment that stays has left what it had.
LEMMA SameLeft ==
  ASSUME NEW d, Stays(d)
  PROVE  Left(d)' = Left(d)
BY DEF Stays, Left

\* What a step can do to the roots, the store and the generations.
LEMMA StoreSteps ==
  ASSUME IInv, [Next]_vars
  PROVE  /\ machine.roots \subseteq machine'.roots
         /\ machine.generations \subseteq machine'.generations
         /\ RootInv => machine'.roots \subseteq machine'.store
         /\ GenerationInv => machine'.generations \subseteq machine'.store
<1>1. Typed /\ \A d \in Deployments : FlowInv(d) /\ LineInv(d)
  BY DEF IInv
<1>2. ASSUME NEW d \in Deployments, Performs(d)
      PROVE  /\ machine.roots \subseteq machine'.roots
             /\ machine.generations \subseteq machine'.generations
             /\ RootInv => machine'.roots \subseteq machine'.store
             /\ GenerationInv => machine'.generations \subseteq machine'.store
  <2> DEFINE line == Head(session[d].lines)
  <2>1. line \in Lines /\ Ready(line, d, machine) /\ machine' = Effect(line, d, machine)
    BY <1>1, <1>2, LineEffects DEF Performs
  <2> HIDE DEF line
  <2>2. line \in {"AddRoot", "SetProfile", "HomeProfile"} => d \in machine.store
    BY <2>1 DEF Ready
  <2>3. machine.store \subseteq machine'.store
    BY <1>1, <2>1, EffectFields
  <2>4. machine'.roots = IF line = "AddRoot" THEN machine.roots \cup {d} ELSE machine.roots
    BY <1>1, <2>1, EffectFields
  <2>0. machine'.generations =
          IF line \in {"SetProfile", "HomeProfile"} THEN machine.generations \cup {d}
                                                   ELSE machine.generations
    BY <1>1, <2>1, EffectFields
  <2>5. RootInv => machine'.roots \subseteq machine'.store
    BY <2>2, <2>3, <2>4 DEF RootInv
  <2>6. GenerationInv => machine'.generations \subseteq machine'.store
    BY <2>2, <2>3, <2>0 DEF GenerationInv
  <2> QED BY <2>4, <2>5, <2>6, <2>0
<1>3. CASE Quiet
  BY <1>3 DEF Quiet, RootInv, GenerationInv
<1>4. CASE Restarts
  BY <1>1, <1>4, RestartFields DEF RootInv, GenerationInv
<1>5. CASE Collect
  BY <1>1, <1>5, CollectFields DEF RootInv, GenerationInv, Kept
<1> QED BY <1>1, <1>2, <1>3, <1>4, <1>5, EveryStep DEF BeginsActivation, OtherStep

\* The roots of the builds.
LEMMA RootKept ==
  ASSUME IInv, [Next]_vars
  PROVE  RootInv'
<1>1. /\ Typed /\ (\A d \in Deployments : FlowInv(d) /\ LineInv(d)) /\ RootInv
      /\ daemonHost' = daemonHost
  BY FixedWords DEF IInv
<1>2. ASSUME NEW d \in Deployments, ~daemonHost
      PROVE  /\ stage'[d] = "Build" => "AddRoot" \in Left(d)' \/ d \in machine'.roots
             /\ stage'[d] \in {"Copy", "Activate"} => d \in machine'.roots
  <2>1. /\ stage[d] = "Build" => "AddRoot" \in Left(d) \/ d \in machine.roots
        /\ stage[d] \in {"Copy", "Activate"} => d \in machine.roots
        /\ machine.roots \subseteq machine'.roots
    BY <1>1, <1>2, StoreSteps DEF RootInv
  <2>2. CASE Stays(d)
    BY <2>1, <2>2, SameLeft DEF Stays
  <2>3. CASE Submitted(d) \/ Concludes(d) \/ Halts(d)
    BY <2>3 DEF Submitted, Concludes, Halts, InFlight
  <2>4. CASE Continues(d)
    <3>1. Left(d)' = Left(d) /\ stage'[d] = stage[d]
      BY <1>1, <2>4, ContinuesKeep DEF Continues
    <3> QED BY <2>1, <3>1
  <2>5. CASE Watches(d)
    <3>1. stage[d] = "Activate" /\ stage'[d] = "Activate"
      BY <1>1, <2>5 DEF Watches, FlowInv
    <3> QED BY <2>1, <3>1
  <2>6. CASE Starts(d, "Build")
    <3>1. Left(d)' = Lined(CallsOf(d, "Build")) /\ stage'[d] = "Build"
      BY <1>1, <2>6, StartsKeep DEF Starts
    <3> QED BY <1>2, <3>1, BuildPlan
  <2>7. CASE Starts(d, "Copy") \/ Starts(d, "Activate")
    <3>1. stage'[d] \in {"Copy", "Activate"}
      BY <2>7 DEF Starts
    <3>2. stage[d] = "Copy" \/ (stage[d] = "Build" /\ Left(d) = {})
      BY <2>7 DEF Starts
    <3> QED BY <2>1, <3>1, <3>2
  <2>8. CASE Performs(d)
    <3> DEFINE line == Head(session[d].lines)
    <3>1. line \in Lines /\ machine' = Effect(line, d, machine)
      BY <1>1, <2>8, LineEffects DEF Performs
    <3>2. Left(d) = {line} \cup Left(d)' /\ stage'[d] = stage[d]
      BY <1>1, <2>8, ExecutesKeep DEF Performs, Executes
    <3> HIDE DEF line
    <3>3. line = "AddRoot" => d \in machine'.roots
      BY <1>1, <3>1, EffectFields
    <3> QED BY <2>1, <3>2, <3>3
  <2> QED
    BY <1>1, <2>2, <2>3, <2>4, <2>5, <2>6, <2>7, <2>8, EveryStep
    DEF Performs, BeginsActivation, OthersStay, OtherStep, Move
<1>3. machine'.roots \subseteq machine'.store
  BY <1>1, StoreSteps
<1> QED BY <1>1, <1>2, <1>3 DEF RootInv

\* The running script of a deployment sets the profile before the boot entry.
LEMMA ScriptKept ==
  ASSUME IInv, [Next]_vars, NEW d \in Deployments
  PROVE  Elements(session'[d].lines) \cap BootLines # {} =>
           "SetProfile" \in Elements(session'[d].lines) \/ d \in machine'.generations
<1>1. /\ Typed /\ (\A e \in Deployments : FlowInv(e) /\ LineInv(e))
      /\ Elements(session[d].lines) \cap BootLines # {} =>
           "SetProfile" \in Elements(session[d].lines) \/ d \in machine.generations
      /\ machine.generations \subseteq machine'.generations
  BY StoreSteps DEF IInv, GenerationInv
<1>2. CASE session'[d].lines = session[d].lines
  BY <1>1, <1>2
<1>3. CASE session'[d].lines = <<>>
  BY <1>3, NothingLined
<1>4. CASE Continues(d)
  BY <1>1, <1>4, ContinuesKeep DEF GoodCall
<1>5. ASSUME NEW s \in {"Build", "Copy", "Activate"}, Starts(d, s)
      PROVE  Elements(session'[d].lines) \cap BootLines # {} =>
               "SetProfile" \in Elements(session'[d].lines)
  <2> DEFINE plan == CallsOf(d, s)
  <2>1. s = "Activate" => Activates(request[d])
    BY <1>1, <1>5 DEF Starts, FlowInv
  <2>2. GoodPlan(d, plan)
    BY <1>5, <2>1, StartPlan
  <2>3. session'[d].lines = Head(plan).lines
    BY <1>5, RunningFields DEF Starts
  <2> HIDE DEF plan
  <2> QED BY <2>2, <2>3, LinedTail DEF GoodPlan, GoodCall
<1>6. CASE Performs(d)
  <2> DEFINE line == Head(session[d].lines)
  <2>1. line \in Lines /\ machine' = Effect(line, d, machine)
    BY <1>1, <1>6, LineEffects DEF Performs
  <2>2. Elements(session[d].lines) = {line} \cup Elements(session'[d].lines)
    BY <1>1, <1>6, ExecutesKeep DEF Performs
  <2> HIDE DEF line
  <2>3. line = "SetProfile" => d \in machine'.generations
    BY <1>1, <2>1, EffectFields
  <2> QED BY <1>1, <2>2, <2>3
<1>7. CASE Stays(d) \/ Submitted(d) \/ Watches(d)
  BY <1>2, <1>7 DEF Stays, Submitted, Watches
<1>8. CASE Halts(d) \/ Concludes(d)
  BY <1>1, <1>2, <1>3, <1>8, HaltsKeep
<1> QED
  BY <1>1, <1>4, <1>5, <1>6, <1>7, <1>8, EveryStep
  DEF Performs, BeginsActivation, OthersStay, OtherStep, Move

\* A line that names a closure names one that has been a generation.
LEMMA NamesKept ==
  ASSUME IInv, NEW d \in Deployments, Performs(d)
  PROVE  /\ {machine'.loader, machine'.booted} \subseteq machine'.generations
         /\ {machine'.efiDefault, machine'.efiOneshot} \subseteq machine'.generations \cup {""}
         /\ \A e \in Deployments :
              {scratch'[e].old, scratch'[e].new} \subseteq machine'.generations \cup {""}
<1> DEFINE line == Head(session[d].lines)
           rest == Elements(session'[d].lines)
<1>1. /\ Typed /\ (\A e \in Deployments : FlowInv(e) /\ LineInv(e)) /\ GenerationInv
      /\ [Next]_vars
  BY DEF IInv, Performs, Next
<1>2. /\ line \in Lines /\ machine' = Effect(line, d, machine)
      /\ scratch' = Scratch(line, d, machine)
  BY <1>1, LineEffects DEF Performs
<1>3. /\ Elements(session[d].lines) = {line} \cup rest
      /\ \A l \in rest : Rank(line) < Rank(l)
  BY <1>1, ExecutesKeep DEF Performs
<1> HIDE DEF line, rest
<1>4. line \in BootLines => d \in machine.generations
  <2>1. line \in BootLines => "SetProfile" \notin rest /\ line # "SetProfile"
    BY <1>3 DEF Rank, BootLines
  <2> QED BY <1>1, <1>3, <2>1 DEF GenerationInv
<1>5. machine.generations \subseteq machine'.generations
  BY <1>1, <1>2, EffectFields
<1>6. /\ {machine.loader, machine.booted} \subseteq machine.generations
      /\ {machine.efiDefault, machine.efiOneshot} \subseteq machine.generations \cup {""}
      /\ \A e \in Deployments :
           {scratch[e].old, scratch[e].new} \subseteq machine.generations \cup {""}
  BY <1>1 DEF GenerationInv
<1>7. {machine'.loader, machine'.booted} \subseteq machine'.generations
  <2>1. /\ machine'.loader = IF line \in BootLines THEN d ELSE machine.loader
        /\ machine'.booted = machine.booted
    BY <1>1, <1>2, EffectFields
  <2> QED BY <1>4, <1>5, <1>6, <2>1
<1>8. {machine'.efiDefault, machine'.efiOneshot} \subseteq machine'.generations \cup {""}
  <2> DEFINE names == machine'.generations \cup {""}
  <2>1. /\ scratch[d].old \in names /\ scratch[d].new \in names /\ "" \in names
        /\ machine.efiDefault \in names /\ machine.efiOneshot \in names
    BY <1>5, <1>6
  <2>2. \/ machine'.efiDefault = "" \/ machine'.efiDefault = scratch[d].old
        \/ machine'.efiDefault = machine.efiDefault
    BY <1>1, <1>2, EffectFields
  <2>3. \/ machine'.efiOneshot = "" \/ machine'.efiOneshot = scratch[d].new
        \/ machine'.efiOneshot = machine.efiOneshot
    BY <1>1, <1>2, EffectFields
  <2> HIDE DEF names
  <2>4. machine'.efiDefault \in names /\ machine'.efiOneshot \in names
    BY <2>1, <2>2, <2>3
  <2> QED BY <2>4 DEF names
<1>9. ASSUME NEW e \in Deployments
      PROVE  {scratch'[e].old, scratch'[e].new} \subseteq machine'.generations \cup {""}
  <2>1. /\ scratch'[e].old \in {scratch[e].old, machine.booted}
        /\ scratch'[e].new \in {scratch[e].new, machine.loader}
    <3>1. CASE e = d
      BY <1>1, <1>2, <3>1, ScratchFields
    <3>2. CASE e # d
      BY <1>1, <1>2, <3>2, ScratchFields
    <3> QED BY <3>1, <3>2
  <2>2. /\ scratch[e].old \in machine'.generations \cup {""}
        /\ scratch[e].new \in machine'.generations \cup {""}
    BY <1>5, <1>6
  <2>3. machine.booted \in machine'.generations /\ machine.loader \in machine'.generations
    BY <1>5, <1>6
  <2> QED BY <2>1, <2>2, <2>3
<1> QED BY <1>7, <1>8, <1>9

\* The generations.
LEMMA GenerationKept ==
  ASSUME IInv, [Next]_vars
  PROVE  GenerationInv'
<1>1. /\ Typed /\ (\A e \in Deployments : FlowInv(e) /\ LineInv(e)) /\ GenerationInv
  BY DEF IInv
<1>2. machine'.generations \subseteq machine'.store
  BY <1>1, StoreSteps
<1>3. /\ {machine'.loader, machine'.booted} \subseteq machine'.generations
      /\ {machine'.efiDefault, machine'.efiOneshot} \subseteq machine'.generations \cup {""}
      /\ \A e \in Deployments :
           {scratch'[e].old, scratch'[e].new} \subseteq machine'.generations \cup {""}
  <2>1. CASE \E d \in Deployments : Performs(d)
    BY <2>1, NamesKept
  <2>2. CASE Quiet
    BY <1>1, <2>2 DEF Quiet, GenerationInv
  <2>3. CASE Restarts
    <3>1. scratch' = scratch
      BY <2>3 DEF Restarts
    <3> QED BY <1>1, <2>3, <3>1, RestartFields, NextBootIs DEF GenerationInv
  <2>4. CASE Collect
    <3>1. scratch' = scratch
      BY <2>4 DEF Collect
    <3> QED BY <1>1, <2>4, <3>1, CollectFields DEF GenerationInv
  <2> QED BY <1>1, <2>1, <2>2, <2>3, <2>4, EveryStep DEF BeginsActivation, OtherStep
<1> QED BY <1>2, <1>3, ScriptKept DEF GenerationInv

-----------------------------------------------------------------------------
(* The invariant: homes.                                                    *)

\* The home profile is set after the activation.
LEMMA HomeKept ==
  ASSUME IInv, [Next]_vars
  PROVE  HomeInv'
<1>1. /\ Typed /\ (\A e \in Deployments : FlowInv(e) /\ LineInv(e)) /\ HomeInv
      /\ request' = request
  BY FixedWords DEF IInv
<1>2. activated \subseteq activated'
  <2>1. ASSUME NEW d \in Deployments, Performs(d) PROVE activated \subseteq activated'
    BY <1>1, <2>1, LineEffects DEF Performs
  <2> QED BY <1>1, <2>1, EveryStep DEF BeginsActivation, OtherStep, Quiet, Restarts, Collect, ghosts
<1>3. ASSUME NEW d \in Deployments, request[d].action = "ActivateNow"
      PROVE  /\ "HomeProfile" \in Elements(session'[d].lines) => d \in activated'
             /\ "HomeProfile" \in Left(d)' =>
                  d \in activated' \/ "HomeActivate" \in Elements(session'[d].lines)
  <2>1. /\ "HomeProfile" \in Elements(session[d].lines) => d \in activated
        /\ "HomeProfile" \in Left(d) =>
             d \in activated \/ "HomeActivate" \in Elements(session[d].lines)
    BY <1>1, <1>3 DEF HomeInv
  <2>2. CASE Stays(d) \/ Submitted(d) \/ Watches(d)
    <3>1. session'[d].lines = session[d].lines /\ Left(d)' \subseteq Left(d)
      BY <1>1, <2>2, StaysKeep
    <3> QED BY <1>2, <2>1, <3>1
  <2>3. CASE Halts(d) \/ Concludes(d)
    <3>1. /\ session'[d].lines = session[d].lines \/ session'[d].lines = <<>>
          /\ calls'[d] = <<>>
      BY <1>1, <2>3, HaltsKeep DEF Halts, Concludes
    <3>2. Left(d)' = Elements(session'[d].lines)
      BY <3>1, NothingLined DEF Left, Lined
    <3> QED BY <1>2, <2>1, <3>1, <3>2, NothingLined
  <2>4. CASE Continues(d)
    <3>1. Left(d)' = Left(d) /\ Elements(session[d].lines) = {}
      BY <1>1, <2>4, ContinuesKeep, NothingLined DEF Continues
    <3>2. Elements(session'[d].lines) \subseteq Left(d)'
      BY DEF Left
    <3> QED BY <1>2, <2>1, <3>1, <3>2
  <2>5. CASE Starts(d, "Build") \/ Starts(d, "Copy")
    <3>1. Left(d)' \subseteq BuildLines
      BY <1>1, <2>5, StartsKeep, BuildPlan, CopyPlan
    <3>2. Elements(session'[d].lines) \subseteq Left(d)' /\ "HomeProfile" \notin BuildLines
      BY DEF Left, BuildLines
    <3> QED BY <3>1, <3>2
  <2>6. CASE Starts(d, "Activate")
    <3> DEFINE plan == CallsOf(d, "Activate")
    <3>1. Activates(request[d])
      BY <1>1, <2>6 DEF Starts, FlowInv
    <3>2. GoodActivation(d, plan)
      BY <3>1, ActivatePlan
    <3>3. session'[d].lines = Head(plan).lines /\ LineInv(d)' /\ Left(d)' = Lined(plan)
      BY <1>1, <2>6, RunningFields, StartsKeep DEF Starts
    <3> HIDE DEF plan
    <3>4. CASE Host(d)
      <4>1. "HomeProfile" \notin Words(d)
        BY <3>4 DEF Words, BuildLines, SwitchLines, OnceLines
      <4>2. Lined(plan) \subseteq Words(d)
        BY <3>2 DEF GoodActivation, GoodPlan, GoodCall, Issued, Lined
      <4>3. Elements(session'[d].lines) \subseteq Left(d)'
        BY DEF Left
      <4> QED BY <3>3, <4>1, <4>2, <4>3
    <3>5. CASE ~Host(d)
      <4>1. Elements(session'[d].lines) = {"HomeActivate"}
        BY <1>3, <3>2, <3>3, <3>5 DEF GoodActivation
      <4> QED BY <4>1
    <3> QED BY <3>4, <3>5
  <2>7. CASE Performs(d)
    <3> DEFINE line == Head(session[d].lines)
    <3>1. activated' = (IF line = "HomeActivate" THEN activated \cup {d} ELSE activated)
      BY <1>1, <2>7, LineEffects DEF Performs
    <3>2. /\ Left(d) = {line} \cup Left(d)'
          /\ Elements(session[d].lines) = {line} \cup Elements(session'[d].lines)
      BY <1>1, <2>7, ExecutesKeep DEF Performs
    <3> HIDE DEF line
    <3> QED BY <1>2, <2>1, <3>1, <3>2
  <2> QED
    BY <1>1, <2>2, <2>3, <2>4, <2>5, <2>6, <2>7, EveryStep
    DEF Performs, BeginsActivation, OthersStay, OtherStep, Move
<1>4. HomeProfileWasActivated'
  <2>1. machine'.homeProfile = machine.homeProfile => HomeProfileWasActivated'
    BY <1>1, <1>2 DEF HomeInv, HomeProfileWasActivated
  <2>2. ASSUME NEW d \in Deployments, Performs(d) PROVE HomeProfileWasActivated'
    <3> DEFINE line == Head(session[d].lines)
    <3>1. /\ line \in Lines /\ machine' = Effect(line, d, machine)
          /\ line \in Elements(session[d].lines)
      BY <1>1, <2>2, LineEffects DEF Performs
    <3> HIDE DEF line
    <3>2. CASE line # "HomeProfile"
      BY <1>1, <2>1, <3>1, <3>2, EffectFields
    <3>3. CASE line = "HomeProfile"
      <4>1. machine'.homeProfile = d
        BY <1>1, <3>1, <3>3, EffectFields
      <4>2. request[d].action = "ActivateNow" => d \in activated
        BY <1>1, <3>1, <3>3 DEF HomeInv
      <4> QED BY <1>1, <1>2, <4>1, <4>2 DEF HomeProfileWasActivated
    <3> QED BY <3>2, <3>3
  <2> QED
    BY <1>1, <2>1, <2>2, EveryStep, RestartFields, CollectFields
    DEF BeginsActivation, OtherStep, Quiet
<1> QED BY <1>1, <1>3, <1>4 DEF HomeInv

-----------------------------------------------------------------------------
(* The invariant: activations that nothing overlapped.                      *)

\* Outside an activation, nothing that activates is added to what is left.
LEMMA MoveLeft ==
  ASSUME Typed, NEW d \in Deployments, FlowInv(d), LineInv(d), [Next]_vars, Move(d)
  PROVE  /\ stage'[d] = "Activate" => stage[d] = "Activate"
         /\ Left(d)' \subseteq Left(d) \/ Left(d)' \subseteq BuildLines
<1>1. CASE Stays(d) \/ Submitted(d) \/ Watches(d)
  <2>1. Left(d)' \subseteq Left(d)
    BY <1>1, StaysKeep
  <2> QED BY <1>1, <2>1 DEF Stays, Submitted, Watches
<1>2. CASE Halts(d) \/ Concludes(d)
  <2>1. Left(d)' \subseteq Left(d)
    BY <1>2, HaltsKeep
  <2> QED BY <1>2, <2>1 DEF Halts, Concludes, InFlight
<1>3. CASE Continues(d)
  <2>1. Left(d)' = Left(d)
    BY <1>3, ContinuesKeep
  <2> QED BY <1>3, <2>1 DEF Continues
<1>4. CASE Starts(d, "Build") \/ Starts(d, "Copy")
  <2>1. Left(d)' \subseteq BuildLines
    BY <1>4, StartsKeep, BuildPlan, CopyPlan
  <2> QED BY <1>4, <2>1 DEF Starts
<1> QED BY <1>1, <1>2, <1>3, <1>4 DEF Move

\* A deployment that is alone does nothing but go on or end.
LEMMA AloneMoves ==
  ASSUME IInv, [Next]_vars, OtherStep, NEW d \in alone
  PROVE  /\ stage'[d] \notin {"New", "Rejected", "Evaluate", "Build", "Copy"}
         /\ stage'[d] \in {"Activate", "Done"} /\ session[d].owner # "Retained" =>
              /\ stage[d] \in {"Activate", "Done"}
              /\ Left(d)' = Left(d)
              /\ calls[d] = <<>> => calls'[d] = <<>>
              /\ \/ stage'[d] = stage[d] /\ doneAt'[d] = doneAt[d]
                 \/ Concludes(d)
<1>1. /\ Typed /\ d \in Deployments /\ FlowInv(d) /\ LineInv(d)
      /\ stage[d] \notin {"New", "Rejected", "Evaluate", "Build", "Copy"}
  BY DEF IInv, AloneInv, Typed
<1>2. Stays(d) \/ Concludes(d) \/ Continues(d) \/ Watches(d) \/ Halts(d)
  BY <1>1 DEF OtherStep, Move, Submitted, Starts
<1>3. CASE Stays(d)
  BY <1>1, <1>3, SameLeft DEF Stays
<1>4. CASE Concludes(d)
  <2>1. Left(d)' = Left(d)
    BY <1>1, <1>4, HaltsKeep DEF Concludes
  <2> QED BY <1>1, <1>4, <2>1 DEF Concludes
<1>5. CASE Continues(d)
  <2>1. Left(d)' = Left(d)
    BY <1>1, <1>5, ContinuesKeep
  <2> QED BY <1>1, <1>5, <2>1 DEF Continues, InFlight
<1>6. CASE Watches(d)
  BY <1>1, <1>6 DEF Watches
<1>7. CASE Halts(d)
  <2>1. stage'[d] \in {"Activate", "Done"} => stage[d] = "Done" /\ stage'[d] = "Done"
    BY <1>7 DEF Halts, InFlight
  <2>2. Left(d)' \subseteq Left(d) /\ (stage[d] = "Done" => Left(d) = {})
    BY <1>1, <1>7, HaltsKeep, AttachedFlow
  <2>3. /\ stage'[d] \notin {"New", "Rejected", "Evaluate", "Build", "Copy"}
        /\ calls'[d] = <<>> /\ doneAt'[d] = doneAt[d]
    BY <1>1, <1>7 DEF Halts
  <2> QED BY <2>1, <2>2, <2>3
<1> QED BY <1>2, <1>3, <1>4, <1>5, <1>6, <1>7

\* Who is alone.
LEMMA AloneKept ==
  ASSUME IInv, [Next]_vars
  PROVE  AloneInv'
<1>1. /\ Typed /\ (\A d \in Deployments : FlowInv(d) /\ LineInv(d)) /\ AloneInv
      /\ request' = request
  BY FixedWords DEF IInv
<1>2. ASSUME NEW b \in Deployments, Performs(b) PROVE AloneInv'
  <2>1. \A e \in Deployments : stage'[e] = stage[e] /\ Left(e)' \subseteq Left(e)
    BY <1>1, <1>2, ExecutesKeep, SameLeft DEF Performs, OthersStay, Executes, Stays
  <2>2. alone' = alone
    BY <1>2 DEF Performs
  <2>3. \A d \in alone : d \in Deployments
    BY <1>1 DEF Typed
  <2> QED BY <1>1, <2>1, <2>2, <2>3 DEF AloneInv
<1>3. ASSUME OtherStep PROVE AloneInv'
  <2>1. ASSUME NEW e \in Deployments
        PROVE  /\ stage'[e] = "Activate" => stage[e] = "Activate"
               /\ Left(e)' \subseteq Left(e) \/ Left(e)' \subseteq BuildLines
    BY <1>1, <1>3, MoveLeft DEF OtherStep
  <2>2. alone' = alone
    BY <1>3 DEF OtherStep
  <2>3. \A d \in alone : stage'[d] \notin {"New", "Rejected", "Evaluate", "Build", "Copy"}
    BY <1>3, AloneMoves
  <2> QED BY <1>1, <2>1, <2>2, <2>3 DEF AloneInv
<1>4. ASSUME NEW b \in Deployments, BeginsActivation(b) PROVE AloneInv'
  <2>1. /\ stage'[b] = "Activate" /\ Activates(request[b])
        /\ \A e \in Deployments \ {b} : stage'[e] = stage[e] /\ Left(e)' = Left(e)
    BY <1>1, <1>4, SameLeft DEF BeginsActivation, Starts, OthersStay, Stays, FlowInv
  <2>2. ASSUME NEW d \in alone', d # b
        PROVE  d \in alone /\ d \in Deployments /\ request[d].kind # request[b].kind
    BY <1>1, <1>4, <2>2 DEF BeginsActivation, Typed
  <2>3. ASSUME b \in alone', NEW e \in Deployments, e # b, request[e].kind = request[b].kind
        PROVE  stage[e] # "Activate" /\ Left(e) = {}
    <3>1. ~Contended(b)
      BY <1>4, <2>3 DEF BeginsActivation
    <3>2. stage[e] # "Activate" /\ ~Live(e)
      BY <2>3, <3>1 DEF Contended
    <3>3. session[e].lines = <<>> /\ calls[e] = <<>>
      BY <1>1, <3>2, IdleFields DEF FlowInv
    <3> QED BY <1>1, <3>2, <3>3, AttachedFlow
  <2>4. ASSUME NEW d \in alone'
        PROVE  /\ Activates(request[d])
               /\ stage'[d] \notin {"New", "Rejected", "Evaluate", "Build", "Copy"}
               /\ \A e \in Deployments : e # d /\ request[e].kind = request[d].kind =>
                    stage'[e] # "Activate" /\ Left(e)' \subseteq BuildLines
    <3>1. CASE d = b
      BY <2>1, <2>3, <3>1
    <3>2. CASE d # b
      BY <1>1, <2>1, <2>2, <3>2 DEF AloneInv
    <3> QED BY <3>1, <3>2
  <2> QED BY <1>1, <2>4 DEF AloneInv
<1> QED BY <1>1, <1>2, <1>3, <1>4, EveryStep

\* Beside a host activation that is alone, no line of another deployment
\* touches the loader, the firmware or its shell variables.
LEMMA OtherLines ==
  ASSUME IInv, NEW d \in alone, Host(d), NEW e \in Deployments, e # d, Performs(e)
  PROVE  /\ machine'.loader = machine.loader /\ machine'.efiDefault = machine.efiDefault
         /\ machine'.efiOneshot = machine.efiOneshot /\ scratch'[d] = scratch[d]
         /\ reboots' = reboots /\ Stays(d) /\ Left(d)' = Left(d) /\ alone' = alone
<1> DEFINE line == Head(session[e].lines)
<1>1. /\ Typed /\ d \in Deployments /\ FlowInv(e) /\ LineInv(e)
      /\ request[e].kind = request[d].kind => Left(e) \subseteq BuildLines
  BY DEF IInv, AloneInv, Typed
<1>2. /\ line \in Lines /\ line \in Words(e) /\ line \in Elements(session[e].lines)
      /\ machine' = Effect(line, e, machine) /\ scratch' = Scratch(line, e, machine)
      /\ reboots' = reboots /\ alone' = alone
  BY <1>1, LineEffects DEF Performs
<1>3. line \in Left(e)
  BY <1>2 DEF Left
<1> HIDE DEF line
<1>4. line \in BuildLines \cup HomeLines
  BY <1>1, <1>2, <1>3 DEF Words, Host
<1>5. line \notin BootLines \cup {"ClearDefault", "DefaultOld", "ClearOneshot", "OneshotNew"}
  BY <1>4 DEF BuildLines, HomeLines, BootLines
<1>6. /\ machine'.loader = machine.loader /\ machine'.efiDefault = machine.efiDefault
      /\ machine'.efiOneshot = machine.efiOneshot
  BY <1>1, <1>2, <1>5, EffectFields
<1>7. scratch'[d] = scratch[d]
  BY <1>1, <1>2, ScratchFields
<1>8. Stays(d)
  BY <1>1 DEF Performs, OthersStay
<1> QED BY <1>2, <1>6, <1>7, <1>8, SameLeft

\* What the target does in the other steps to what a host activation set.
LEMMA OtherFields ==
  ASSUME Typed, OtherStep
  PROVE  /\ machine'.loader = machine.loader /\ machine'.efiDefault = machine.efiDefault
         /\ scratch' = scratch
         /\ \/ machine'.efiOneshot = machine.efiOneshot /\ reboots' = reboots
            \/ /\ machine'.efiOneshot = "" /\ reboots' = reboots + 1
               /\ \A d \in Deployments : stage'[d] # "Activate"
<1>1. CASE Quiet
  BY <1>1 DEF Quiet
<1>2. CASE Collect
  BY <1>2, CollectFields DEF Collect, faults
<1>3. CASE Restarts /\ \A d \in Deployments : stage'[d] # "Activate"
  <2>1. scratch' = scratch /\ reboots' = reboots + 1
    BY <1>3 DEF Restarts
  <2> QED BY <1>3, <2>1, RestartFields
<1> QED BY <1>1, <1>2, <1>3 DEF OtherStep

-----------------------------------------------------------------------------
(* The invariant: switches.                                                 *)

SwitchOf(d) ==
    /\ Left(d) \cap BootLines # {} \/ machine.loader = d
    /\ "ClearDefault" \in Left(d) \/ machine.efiDefault = ""
    /\ "ClearOneshot" \in Left(d) \/ machine.efiOneshot = ""

\* A line of the switch itself.
LEMMA SwitchLine ==
  ASSUME IInv, [Next]_vars, NEW d \in Deployments, Switches(d), SwitchOf(d), Performs(d)
  PROVE  SwitchOf(d)'
<1> DEFINE line == Head(session[d].lines)
           rest == Left(d)'
<1>1. Typed /\ FlowInv(d) /\ LineInv(d)
  BY DEF IInv
<1>2. /\ line \in Lines /\ line \in Words(d) /\ machine' = Effect(line, d, machine)
  BY <1>1, LineEffects DEF Performs
<1>3. Left(d) = {line} \cup rest
  BY <1>1, ExecutesKeep DEF Performs
<1> HIDE DEF line, rest
<1>4. line # "DefaultOld" /\ line # "OneshotNew"
  BY <1>2 DEF Switches, Host, Words, BuildLines, SwitchLines
<1>5. rest \cap BootLines # {} \/ machine'.loader = d
  <2>1. machine'.loader = IF line \in BootLines THEN d ELSE machine.loader
    BY <1>1, <1>2, EffectFields
  <2> QED BY <1>3, <2>1 DEF SwitchOf
<1>6. "ClearDefault" \in rest \/ machine'.efiDefault = ""
  <2>1. machine'.efiDefault = IF line = "ClearDefault" THEN "" ELSE machine.efiDefault
    BY <1>1, <1>2, <1>4, EffectFields
  <2> QED BY <1>3, <2>1 DEF SwitchOf
<1>7. "ClearOneshot" \in rest \/ machine'.efiOneshot = ""
  <2>1. machine'.efiOneshot = IF line = "ClearOneshot" THEN "" ELSE machine.efiOneshot
    BY <1>1, <1>2, <1>4, EffectFields
  <2> QED BY <1>3, <2>1 DEF SwitchOf
<1> QED BY <1>5, <1>6, <1>7 DEF SwitchOf, rest

\* A switch that is alone has done what it has not left to do.
LEMMA SwitchKept ==
  ASSUME IInv, [Next]_vars
  PROVE  SwitchInv'
<1>1. /\ Typed /\ (\A e \in Deployments : FlowInv(e) /\ LineInv(e)) /\ SwitchInv
      /\ \A e : Switches(e)' = Switches(e)
  BY FixedWords DEF IInv
<1>2. SUFFICES ASSUME NEW d \in alone', Switches(d), stage'[d] \in {"Activate", "Done"}
               PROVE  SwitchOf(d)'
  BY <1>1 DEF SwitchInv, SwitchOf
<1>3. d \in alone /\ stage[d] \in {"Activate", "Done"} => SwitchOf(d)
  BY <1>1, <1>2 DEF SwitchInv, SwitchOf
<1>4. Host(d) /\ d \in Deployments
  <2>1. Typed'
    BY <1>1, ControlKept
  <2> QED BY <1>2, <2>1 DEF Switches, Typed
<1>5. ASSUME Performs(d) PROVE SwitchOf(d)'
  <2>1. d \in alone /\ stage[d] = stage'[d]
    BY <1>2, <1>5 DEF Performs, Executes
  <2> QED BY <1>2, <1>3, <1>4, <1>5, <2>1, SwitchLine
<1>6. ASSUME NEW e \in Deployments, e # d, Performs(e) PROVE SwitchOf(d)'
  <2>1. d \in alone
    BY <1>2, <1>6 DEF Performs
  <2>2. /\ machine'.loader = machine.loader /\ machine'.efiDefault = machine.efiDefault
        /\ machine'.efiOneshot = machine.efiOneshot /\ Left(d)' = Left(d)
        /\ stage'[d] = stage[d]
    BY <1>4, <1>6, <2>1, OtherLines DEF Stays
  <2> QED BY <1>2, <1>3, <2>1, <2>2 DEF SwitchOf
<1>7. ASSUME BeginsActivation(d) PROVE SwitchOf(d)'
  <2> DEFINE plan == CallsOf(d, "Activate")
  <2>1. Activates(request[d])
    BY <1>1, <1>4, <1>7 DEF BeginsActivation, Starts, FlowInv
  <2>2. GoodActivation(d, plan) /\ Left(d)' = Lined(plan)
    BY <1>1, <1>4, <1>7, <2>1, ActivatePlan, StartsKeep DEF BeginsActivation
  <2> HIDE DEF plan
  <2> QED BY <1>2, <2>2 DEF GoodActivation, SwitchOf
<1>8. ASSUME NEW e \in Deployments, e # d, BeginsActivation(e) PROVE SwitchOf(d)'
  <2>1. d \in alone /\ Stays(d) /\ machine' = machine
    BY <1>2, <1>4, <1>8 DEF BeginsActivation, OthersStay, Quiet
  <2>2. stage'[d] = stage[d] /\ Left(d)' = Left(d)
    BY <2>1, SameLeft DEF Stays
  <2> QED BY <1>2, <1>3, <2>1, <2>2 DEF SwitchOf
<1>9. ASSUME OtherStep PROVE SwitchOf(d)'
  <2>1. d \in alone
    BY <1>2, <1>9 DEF OtherStep
  <2>2. session[d].owner # "Retained"
    BY <1>1, <1>2, <1>4 DEF LineInv, Issued, Switches
  <2>3. stage[d] \in {"Activate", "Done"} /\ Left(d)' = Left(d)
    BY <1>2, <1>9, <2>1, <2>2, AloneMoves
  <2>4. /\ machine'.loader = machine.loader /\ machine'.efiDefault = machine.efiDefault
        /\ machine'.efiOneshot = machine.efiOneshot \/ machine'.efiOneshot = ""
    BY <1>1, <1>9, OtherFields
  <2> QED BY <1>3, <2>1, <2>3, <2>4 DEF SwitchOf
<1> QED BY <1>1, <1>5, <1>6, <1>7, <1>8, <1>9, EveryStep

-----------------------------------------------------------------------------
(* The invariant: boot-once.                                                *)

OnceOf(d) ==
    /\ calls[d] = <<>>
    /\ \A a \in Left(d), b \in OnceLines : Rank(a) < Rank(b) => b \in Left(d)
    /\ "ReadOld" \in Left(d) \/ scratch[d].old # ""
    /\ "BootConfiguration" \in Left(d) \/ machine.loader = d
    /\ "ReadNew" \in Left(d) \/ scratch[d].new = d
    /\ "DefaultOld" \in Left(d) \/ machine.efiDefault = scratch[d].old
    /\ "OneshotNew" \in Left(d)
         \/ machine.efiOneshot = (IF stage[d] = "Done" /\ doneAt[d] # reboots THEN "" ELSE d)

\* The order of a boot-once.
LEMMA OnceRanks ==
  /\ Rank("ReadOld") = 1 /\ Rank("SetProfile") = 2 /\ Rank("BootConfiguration") = 3
  /\ Rank("ReadNew") = 4 /\ Rank("DefaultOld") = 5 /\ Rank("OneshotNew") = 6
  /\ \A line : Rank(line) \in Nat
BY DEF Rank

\* A line of the boot-once itself.
LEMMA OnceLine ==
  ASSUME IInv, [Next]_vars, NEW d \in Deployments, BootsOnce(d), stage[d] = "Activate", OnceOf(d),
         Performs(d)
  PROVE  OnceOf(d)'
<1> DEFINE line == Head(session[d].lines)
           rest == Left(d)'
<1>1. Typed /\ FlowInv(d) /\ LineInv(d) /\ GenerationInv
  BY DEF IInv
<1>2. /\ line \in Lines /\ line \in Words(d) /\ machine' = Effect(line, d, machine)
      /\ scratch' = Scratch(line, d, machine)
  BY <1>1, LineEffects DEF Performs
<1>3. /\ calls'[d] = calls[d] /\ stage'[d] = stage[d] /\ Left(d) = {line} \cup rest
      /\ \A l \in Elements(session'[d].lines) : Rank(line) < Rank(l)
  BY <1>1, ExecutesKeep DEF Performs, Executes
<1>4. calls[d] = <<>>
  BY DEF OnceOf
<1>5. rest = Elements(session'[d].lines)
  BY <1>3, <1>4, NothingLined DEF Left, Lined
<1> HIDE DEF line, rest
<1>6. /\ \A l \in rest : Rank(line) < Rank(l)
      /\ line \notin rest
  <2>1. \A l \in rest : Rank(line) < Rank(l)
    BY <1>3, <1>5
  <2> QED BY <2>1, OnceRanks
<1>7. line \notin {"ClearDefault", "ClearOneshot", "SwitchConfiguration"}
  BY <1>2 DEF BootsOnce, Host, Words, BuildLines, OnceLines
<1>8. \A a \in rest, b \in OnceLines : Rank(a) < Rank(b) => b \in rest
  <2> SUFFICES ASSUME NEW a \in rest, NEW b \in OnceLines, Rank(a) < Rank(b) PROVE b \in rest
    OBVIOUS
  <2>1. b \in Left(d)
    BY <1>3 DEF OnceOf
  <2>2. b # line
    BY <1>6, OnceRanks
  <2> QED BY <1>3, <2>1, <2>2
<1>9. "ReadOld" \in rest \/ scratch'[d].old # ""
  <2>1. scratch'[d].old = IF line = "ReadOld" THEN machine.booted ELSE scratch[d].old
    BY <1>1, <1>2, ScratchFields
  <2>2. machine.booted # ""
    BY <1>1, HostAssumption DEF Typed, MachineSet, Closures
  <2> QED BY <1>3, <2>1, <2>2 DEF OnceOf
<1>10. "BootConfiguration" \in rest \/ machine'.loader = d
  <2>1. machine'.loader = IF line = "BootConfiguration" THEN d ELSE machine.loader
    BY <1>1, <1>2, <1>7, EffectFields DEF BootLines
  <2> QED BY <1>3, <2>1 DEF OnceOf
<1>11. "ReadNew" \in rest \/ scratch'[d].new = d
  <2>1. scratch'[d].new = IF line = "ReadNew" THEN machine.loader ELSE scratch[d].new
    BY <1>1, <1>2, ScratchFields
  <2>2. line = "ReadNew" => "BootConfiguration" \notin Left(d)
    BY <1>3, <1>6, OnceRanks
  <2> QED BY <1>3, <2>1, <2>2 DEF OnceOf
<1>12. "DefaultOld" \in rest \/ machine'.efiDefault = scratch'[d].old
  <2>1. /\ machine'.efiDefault = IF line = "DefaultOld" THEN scratch[d].old ELSE machine.efiDefault
        /\ scratch'[d].old = IF line = "ReadOld" THEN machine.booted ELSE scratch[d].old
    BY <1>1, <1>2, <1>7, EffectFields, ScratchFields
  <2>2. line = "ReadOld" => "DefaultOld" \in rest
    <3>1. line = "ReadOld" => "DefaultOld" \in Left(d)
      BY <1>3, OnceRanks DEF OnceOf, OnceLines
    <3> QED BY <1>3, <3>1
  <2> QED BY <1>3, <2>1, <2>2 DEF OnceOf
<1>13. "OneshotNew" \in rest \/ machine'.efiOneshot = d
  <2>1. machine'.efiOneshot = IF line = "OneshotNew" THEN scratch[d].new ELSE machine.efiOneshot
    BY <1>1, <1>2, <1>7, EffectFields
  <2>2. line = "OneshotNew" => "ReadNew" \notin Left(d)
    BY <1>3, <1>6, OnceRanks
  <2> QED BY <1>3, <2>1, <2>2 DEF OnceOf
<1> QED
  BY <1>3, <1>4, <1>8, <1>9, <1>10, <1>11, <1>12, <1>13 DEF OnceOf, rest

\* Another step of a boot-once that is alone.
LEMMA OnceMoves ==
  ASSUME IInv, [Next]_vars, OtherStep, NEW d \in alone, BootsOnce(d), OnceOf(d),
         stage'[d] \in {"Activate", "Done"}, session[d].owner # "Retained"
  PROVE  OnceOf(d)'
<1>1. /\ stage[d] \in {"Activate", "Done"} /\ Left(d)' = Left(d) /\ calls'[d] = <<>>
      /\ \/ stage'[d] = stage[d] /\ doneAt'[d] = doneAt[d]
         \/ Concludes(d)
  BY AloneMoves DEF OnceOf
<1>2. /\ machine'.loader = machine.loader /\ machine'.efiDefault = machine.efiDefault
      /\ scratch' = scratch
      /\ \/ machine'.efiOneshot = machine.efiOneshot /\ reboots' = reboots
         \/ machine'.efiOneshot = "" /\ reboots' = reboots + 1 /\ stage'[d] # "Activate"
  BY OtherFields DEF IInv, Typed
<1>3. doneAt[d] # reboots + 1 /\ reboots # reboots + 1
  <2>1. doneAt[d] \in Nat /\ reboots \in Nat /\ doneAt[d] <= reboots
    BY DEF IInv, Typed
  <2> QED BY <2>1
<1>4. "OneshotNew" \in Left(d)'
        \/ machine'.efiOneshot = (IF stage'[d] = "Done" /\ doneAt'[d] # reboots' THEN "" ELSE d)
  <2>1. "OneshotNew" \in Left(d)
          \/ machine.efiOneshot = (IF stage[d] = "Done" /\ doneAt[d] # reboots THEN "" ELSE d)
    BY DEF OnceOf
  <2>2. CASE Concludes(d)
    <3>1. /\ stage[d] # "Done" /\ stage'[d] = "Done" /\ doneAt'[d] = reboots
          /\ reboots' = reboots
      BY <1>1, <2>2 DEF Concludes
    <3>2. "OneshotNew" \in Left(d)' \/ machine.efiOneshot = d
      BY <1>1, <2>1, <3>1
    <3>3. machine'.efiOneshot = machine.efiOneshot
      BY <1>2, <1>3, <3>1
    <3> QED BY <3>1, <3>2, <3>3
  <2>3. CASE stage'[d] = stage[d] /\ doneAt'[d] = doneAt[d]
    <3>1. CASE machine'.efiOneshot = machine.efiOneshot /\ reboots' = reboots
      BY <1>1, <2>1, <2>3, <3>1
    <3>2. CASE machine'.efiOneshot = "" /\ reboots' = reboots + 1 /\ stage'[d] # "Activate"
      <4>1. stage'[d] = "Done"
        BY <1>1, <2>3, <3>2
      <4>2. doneAt'[d] # reboots'
        BY <1>3, <2>3, <3>2
      <4> QED BY <3>2, <4>1, <4>2
    <3> QED BY <1>2, <3>1, <3>2
  <2> QED BY <1>1, <2>2, <2>3
<1> QED BY <1>1, <1>2, <1>4 DEF OnceOf

\* A boot-once that is alone has done what it has not left to do.
LEMMA OnceKept ==
  ASSUME IInv, [Next]_vars
  PROVE  OnceInv'
<1>1. /\ Typed /\ (\A e \in Deployments : FlowInv(e) /\ LineInv(e)) /\ OnceInv
      /\ \A e : BootsOnce(e)' = BootsOnce(e)
  BY FixedWords DEF IInv
<1>2. SUFFICES ASSUME NEW d \in alone', BootsOnce(d), stage'[d] \in {"Activate", "Done"}
               PROVE  OnceOf(d)'
  BY <1>1 DEF OnceInv, OnceOf
<1>3. d \in alone /\ stage[d] \in {"Activate", "Done"} => OnceOf(d)
  BY <1>1, <1>2 DEF OnceInv, OnceOf
<1>4. Host(d) /\ d \in Deployments
  <2>1. Typed'
    BY <1>1, ControlKept
  <2> QED BY <1>2, <2>1 DEF BootsOnce, Typed
<1>5. ASSUME Performs(d) PROVE OnceOf(d)'
  <2>1. d \in alone /\ stage[d] = stage'[d] /\ Live(d)
    BY <1>2, <1>5 DEF Performs, Executes
  <2>2. stage[d] = "Activate"
    BY <1>1, <1>2, <1>4, <2>1, IdleFields DEF FlowInv, Live
  <2> QED BY <1>2, <1>3, <1>4, <1>5, <2>1, <2>2, OnceLine
<1>6. ASSUME NEW e \in Deployments, e # d, Performs(e) PROVE OnceOf(d)'
  <2>1. d \in alone
    BY <1>2, <1>6 DEF Performs
  <2>2. /\ machine'.loader = machine.loader /\ machine'.efiDefault = machine.efiDefault
        /\ machine'.efiOneshot = machine.efiOneshot /\ scratch'[d] = scratch[d]
        /\ reboots' = reboots /\ Left(d)' = Left(d)
        /\ stage'[d] = stage[d] /\ calls'[d] = calls[d] /\ doneAt'[d] = doneAt[d]
    BY <1>4, <1>6, <2>1, OtherLines DEF Stays
  <2>3. OnceOf(d)
    BY <1>2, <1>3, <2>1, <2>2
  <2>4. \A a \in Left(d)', b \in OnceLines : Rank(a) < Rank(b) => b \in Left(d)'
    BY <2>2, <2>3 DEF OnceOf
  <2> QED BY <2>2, <2>3, <2>4 DEF OnceOf
<1>7. ASSUME BeginsActivation(d) PROVE OnceOf(d)'
  <2> DEFINE plan == CallsOf(d, "Activate")
  <2>1. Activates(request[d])
    BY <1>1, <1>4, <1>7 DEF BeginsActivation, Starts, FlowInv
  <2>2. GoodActivation(d, plan) /\ Left(d)' = Lined(plan)
    BY <1>1, <1>4, <1>7, <2>1, ActivatePlan, StartsKeep DEF BeginsActivation
  <2>3. calls'[d] = Tail(plan)
    BY <1>7 DEF BeginsActivation, Starts
  <2> HIDE DEF plan
  <2>4. /\ Tail(plan) = <<>> /\ Head(plan).lines = BootOnceScript
        /\ plan \in Seq(CallSet) /\ plan # <<>>
    BY <1>2, <2>2 DEF GoodActivation, GoodPlan
  <2>5. Lined(plan) = OnceLines
    BY <2>4, LinedTail, NothingLined, OnceScript
  <2>6. {"ReadOld", "BootConfiguration", "ReadNew", "DefaultOld", "OneshotNew"} \subseteq OnceLines
    BY DEF OnceLines
  <2> QED BY <2>2, <2>3, <2>4, <2>5, <2>6 DEF OnceOf
<1>8. ASSUME NEW e \in Deployments, e # d, BeginsActivation(e) PROVE OnceOf(d)'
  <2>1. d \in alone /\ Stays(d) /\ machine' = machine /\ scratch' = scratch /\ reboots' = reboots
    BY <1>2, <1>4, <1>8 DEF BeginsActivation, OthersStay, Quiet
  <2>2. /\ stage'[d] = stage[d] /\ Left(d)' = Left(d) /\ calls'[d] = calls[d]
        /\ doneAt'[d] = doneAt[d]
    BY <2>1, SameLeft DEF Stays
  <2> QED BY <1>2, <1>3, <2>1, <2>2 DEF OnceOf
<1>9. ASSUME OtherStep PROVE OnceOf(d)'
  <2>1. d \in alone
    BY <1>2, <1>9 DEF OtherStep
  <2>2. session[d].owner # "Retained"
    BY <1>1, <1>2, <1>4 DEF LineInv, Issued, BootsOnce
  <2>3. stage[d] \in {"Activate", "Done"}
    BY <1>2, <1>9, <2>1, <2>2, AloneMoves
  <2> QED BY <1>2, <1>3, <1>9, <2>1, <2>2, <2>3, OnceMoves
<1> QED BY <1>1, <1>5, <1>6, <1>7, <1>8, <1>9, EveryStep

-----------------------------------------------------------------------------
(* The invariant holds.                                                     *)

\* Nothing has happened at first.
LEMMA InitInv == Init => IInv
<1> SUFFICES ASSUME Init PROVE IInv
  OBVIOUS
<1>1. /\ \A d \in Deployments :
           /\ stage[d] = "New" /\ calls[d] = <<>> /\ session[d] = Idle /\ doneAt[d] = 0
           /\ scratch[d].old = "" /\ scratch[d].new = ""
           /\ Left(d) = {} /\ Elements(session[d].lines) = {}
      /\ machine = FirstMachine /\ alone = {} /\ activated = {}
  <2>1. \A d \in Deployments :
          /\ stage[d] = "New" /\ calls[d] = <<>> /\ session[d] = Idle /\ doneAt[d] = 0
          /\ scratch[d].old = "" /\ scratch[d].new = ""
    BY DEF Init
  <2>2. ASSUME NEW d \in Deployments
        PROVE  Left(d) = {} /\ Elements(session[d].lines) = {}
    BY <2>1, IdleFields, NothingLined DEF Left
  <2> QED BY <2>1, <2>2 DEF Init
<1>2. Typed
  <2>1. /\ stage \in [Deployments -> Stages] /\ scratch \in [Deployments -> [old : Entries, new : Entries]]
        /\ outcome \in [Deployments -> {"None", "Ran", "LineFailed", "Cut", "Rebooted"}]
        /\ doneAt \in [Deployments -> Nat] /\ reboots \in Nat
    BY DEF Init, Stages, Entries
  <2>2. calls \in [Deployments -> Seq(CallSet)] /\ session \in [Deployments -> SessionSet]
    BY IdleFields, NothingLined DEF Init
  <2>3. machine \in MachineSet
    BY <1>1 DEF FirstMachine, MachineSet, Closures, Entries
  <2>4. daemonHost \in BOOLEAN /\ alone \subseteq Deployments /\ activated \subseteq Deployments
    BY DEF Init
  <2>5. ASSUME NEW d \in Deployments PROVE doneAt[d] <= reboots
    <3>1. doneAt[d] = 0 /\ reboots = 0
      BY DEF Init
    <3> QED BY <3>1
  <2> QED BY <2>1, <2>2, <2>3, <2>4, <2>5 DEF Typed
<1>3. ASSUME NEW d \in Deployments PROVE FlowInv(d) /\ LineInv(d)
  <2>1. FlowInv(d)
    BY <1>1, IdleFields DEF FlowInv, InFlight, Live
  <2>2. Issued(d, session[d].owner, session[d].lines)
    BY <1>1, IdleFields DEF Issued
  <2>3. Elements(calls[d]) = {}
    BY <1>1, NothingLined
  <2> QED BY <1>1, <2>1, <2>2, <2>3 DEF LineInv
<1>4. RootInv
  BY <1>1 DEF RootInv, FirstMachine
<1>5. GenerationInv
  <2>1. /\ machine.generations = {Base} /\ machine.store = {Base}
        /\ machine.loader = Base /\ machine.booted = Base
        /\ machine.efiDefault = "" /\ machine.efiOneshot = ""
    BY <1>1 DEF FirstMachine
  <2>2. ASSUME NEW d \in Deployments
        PROVE  /\ scratch[d].old = "" /\ scratch[d].new = ""
               /\ Elements(session[d].lines) = {}
    BY <1>1
  <2> QED BY <2>1, <2>2 DEF GenerationInv
<1>6. HomeInv
  BY <1>1, HostAssumption DEF HomeInv, HomeProfileWasActivated, FirstMachine
<1>7. AloneInv /\ SwitchInv /\ OnceInv
  BY <1>1 DEF AloneInv, SwitchInv, OnceInv
<1> QED BY <1>2, <1>3, <1>4, <1>5, <1>6, <1>7 DEF IInv

\* The invariant is inductive, and holds in every reachable state.
THEOREM Invariant == Spec => []IInv
<1>1. IInv /\ [Next]_vars => IInv'
  <2> SUFFICES ASSUME IInv, [Next]_vars PROVE IInv'
    OBVIOUS
  <2>1. Typed /\ \A d \in Deployments : FlowInv(d) /\ LineInv(d)
    BY DEF IInv
  <2>2. Typed' /\ \A d \in Deployments : FlowInv(d)' /\ LineInv(d)'
    BY <2>1, ControlKept
  <2>3. RootInv' /\ GenerationInv' /\ HomeInv' /\ AloneInv' /\ SwitchInv' /\ OnceInv'
    BY RootKept, GenerationKept, HomeKept, AloneKept, SwitchKept, OnceKept
  <2> QED BY <2>2, <2>3 DEF IInv
<1> QED BY <1>1, InitInv, PTL DEF Spec

-----------------------------------------------------------------------------
(* What it is worth.                                                        *)

\* Every variable keeps its type, and a command is attached exactly while its
\* deployment is in a stage that waits for it.
THEOREM TypeCorrect == Spec => []TypeOK
<1>1. IInv => TypeOK
  <2> SUFFICES ASSUME IInv PROVE TypeOK
    OBVIOUS
  <2>1. stage \in [Deployments -> Stages]
    BY DEF IInv, Typed
  <2>2. \A d \in Deployments :
          /\ session[d].attached <=> InFlight(d)
          /\ calls[d] # <<>> => InFlight(d)
    BY DEF IInv, FlowInv
  <2>3. \A d \in Deployments :
          /\ scratch[d] \in [old : Entries, new : Entries]
          /\ outcome[d] \in {"None", "Ran", "LineFailed", "Cut", "Rebooted"}
    BY DEF IInv, Typed
  <2>4. machine \in MachineSet /\ alone \subseteq Deployments /\ activated \subseteq Deployments
    BY DEF IInv, Typed
  <2>5. /\ machine.store \subseteq Closures /\ machine.derivations \subseteq Deployments
        /\ machine.roots \subseteq Deployments /\ machine.generations \subseteq Closures
        /\ {machine.profile, machine.running, machine.booted, machine.loader, machine.home,
            machine.homeProfile} \subseteq Closures
        /\ {machine.efiDefault, machine.efiOneshot} \subseteq Entries
    BY <2>4 DEF MachineSet
  <2> QED BY <2>1, <2>2, <2>3, <2>4, <2>5 DEF TypeOK, Stages
<1> QED BY <1>1, Invariant, PTL

\* The root that a build on the target leaves keeps its closure until the
\* activation, whatever other deployments, faults and collections come between
\* (TargetStoreRealization: the root is added before the build is reported).
THEOREM Rooted == Spec => []RootedUntilActivated
<1>1. IInv => RootedUntilActivated
  BY DEF IInv, RootInv, RootedUntilActivated
<1> QED BY <1>1, Invariant, PTL

\* Whatever the firmware, the loader or a half-run boot-once leaves to be
\* started next is a generation of a profile, which the collector keeps (every
\* script sets the profile before it touches the loader).
THEOREM BootTarget == Spec => []BootTargetIsKept
<1>1. IInv => BootTargetIsKept
  <2> SUFFICES ASSUME IInv PROVE BootTargetIsKept
    OBVIOUS
  <2>1. Typed /\ GenerationInv
    BY DEF IInv
  <2> QED BY <2>1, NextBootIs DEF GenerationInv, BootTargetIsKept
<1> QED BY <1>1, Invariant, PTL

\* No interleaving of home deployments, failures and deaths of the daemon makes
\* the home profile name a closure whose activation has not succeeded (driver
\* version 1 activates first and sets the profile after).
THEOREM HomeActivated == Spec => []HomeProfileWasActivated
<1>1. IInv => HomeProfileWasActivated
  BY DEF IInv, HomeInv
<1> QED BY <1>1, Invariant, PTL

\* A switch that nothing overlapped decides every later boot (reconcile_efi
\* clears both firmware entries after the new boot entry is written).
THEOREM SwitchDecides == Spec => []SwitchDecidesBoot
<1>1. IInv => SwitchDecidesBoot
  <2> SUFFICES ASSUME IInv, NEW d \in alone, stage[d] = "Done", Switches(d)
               PROVE  /\ machine.loader = d
                      /\ machine.efiDefault = "" /\ machine.efiOneshot = ""
    BY DEF SwitchDecidesBoot, Switches, Host
  <2>1. d \in Deployments /\ Typed /\ FlowInv(d)
    BY DEF IInv, Typed
  <2>2. Left(d) = {}
    BY <2>1, AttachedFlow
  <2>3. SwitchInv
    BY DEF IInv
  <2> QED BY <2>2, <2>3 DEF SwitchInv
<1> QED BY <1>1, Invariant, PTL

\* A boot-once that nothing overlapped starts its closure at the next restart
\* and the system that was booted before at each one after it (the script makes
\* the booted system the persistent default before it sets the one-shot entry).
THEOREM OnceThenBack == Spec => BootOnceThenBack
<1>1. IInv /\ [Next]_vars => [BootsOnceThenBack]_vars
  <2> SUFFICES ASSUME IInv, [Next]_vars, NEW d \in alone, stage[d] = "Done",
                      request[d].action = "ScheduleBootOnce", reboots' # reboots
               PROVE  machine'.booted = IF doneAt[d] = reboots THEN d ELSE scratch[d].old
    BY DEF BootsOnceThenBack
  <2>1. /\ d \in Deployments /\ Typed /\ FlowInv(d) /\ Activates(request[d]) /\ OnceInv
        /\ \A e \in Deployments : FlowInv(e)
    BY DEF IInv, Typed, AloneInv
  <2>2. Restarts
    BY <2>1, EveryStep DEF Performs, BeginsActivation, OtherStep, Line, faults, Quiet, Collect
  <2>3. BootsOnce(d) /\ Left(d) = {}
    BY <2>1, AttachedFlow DEF Activates, BootsOnce, Host
  <2>4. /\ scratch[d].old # "" /\ machine.efiDefault = scratch[d].old
        /\ machine.efiOneshot = (IF doneAt[d] # reboots THEN "" ELSE d)
    BY <2>1, <2>3 DEF OnceInv
  <2>5. machine'.booted = NextBoot(machine)
    BY <2>1, <2>2, RestartFields
  <2>6. d # ""
    BY <2>1, HostAssumption
  <2> QED BY <2>4, <2>5, <2>6 DEF NextBoot
<1> QED BY <1>1, Invariant, PTL DEF Spec, BootOnceThenBack

\* A boot-once, and a switch or test of the daemon's own node, never ends between
\* two of its lines because the daemon died or a connection was lost (each runs
\* under the service manager of the target).
THEOREM NeverCut == Spec => DetachedScriptIsNeverCut
<1>1. IInv /\ [Next]_vars => [EndsByItself]_vars
  <2> SUFFICES ASSUME IInv, Next, NEW d \in Deployments, Detached(d),
                      stage[d] \notin {"Build", "Copy"}, session[d].lines # <<>>,
                      session'[d] = Idle, Head(session[d].lines) \notin BuildLines
               PROVE  outcome'[d] \in {"LineFailed", "Rebooted"}
    BY DEF EndsByItself, Detached, BootsOnce, Host, BuildLines
  <2>1. /\ Typed /\ FlowInv(d) /\ LineInv(d) /\ \A e \in Deployments : FlowInv(e)
    BY DEF IInv
  <2>2. ~Stays(d) /\ session[d] \in SessionSet /\ session[d] # Idle /\ Live(d)
    BY <2>1, IdleFields DEF Stays, FlowInv, Typed
  <2>3. ASSUME NEW e \in Deployments, OthersStay(e) PROVE e = d
    BY <2>2, <2>3 DEF OthersStay
  <2>4. ASSUME NEW e \in Deployments, Submit(e) \/ Evaluated(e) PROVE FALSE
    <3>1. e = d
      BY <2>1, <2>3, <2>4, SubmitMoves, EvaluatedMoves
    <3> QED BY <2>1, <2>2, <2>4, <3>1 DEF FlowInv, Submit, Evaluated
  <2>5. ASSUME NEW e \in Deployments, Line(e) PROVE FALSE
    <3>1. e = d /\ Executes(d)
      BY <2>1, <2>3, <2>5, LineMoves
    <3>2. session'[d].owner = session[d].owner
      BY <2>2, <3>1 DEF Executes, SessionSet
    <3> QED BY <2>2, <3>2, IdleFields DEF Live
  <2>6. ASSUME NEW e \in Deployments, LineFails(e) PROVE outcome'[d] = "LineFailed"
    <3>1. e = d
      BY <2>1, <2>3, <2>6, LineFailsMoves
    <3> QED BY <2>1, <2>6, <3>1 DEF LineFails, Typed
  <2>7. ASSUME NEW e \in Deployments, Answer(e) \/ EndUnheard(e) PROVE FALSE
    <3>1. e = d
      BY <2>1, <2>3, <2>7, AnswerMoves, DetachedMoves
    <3> QED BY <2>7, <3>1 DEF Answer, EndUnheard
  <2>8. ASSUME NEW e \in Deployments, Lose(e) PROVE FALSE
    <3>1. e = d
      BY <2>1, <2>3, <2>8, DetachedMoves
    <3>2. session'[d].lines = session[d].lines
      BY <2>1, <2>2, <2>8, <3>1 DEF Lose, Typed, SessionSet
    <3> QED BY <3>2, IdleFields
  <2>9. ASSUME NEW e \in Deployments, HangUp(e) PROVE FALSE
    <3>1. e = d
      BY <2>1, <2>3, <2>9, DetachedMoves
    <3>2. Elements(session[d].lines) \subseteq BuildLines
      BY <2>1, <2>9, <3>1 DEF HangUp, LineInv, Issued
    <3>3. Head(session[d].lines) \in Elements(session[d].lines)
      BY <2>2, HeadAndTail DEF SessionSet
    <3> QED BY <3>2, <3>3
  <2>10. ASSUME Crash PROVE FALSE
    <3>1. session'[d] \in {session[d], [session[d] EXCEPT !.attached = FALSE]}
      BY <2>10 DEF Crash
    <3>2. session'[d].lines = session[d].lines
      BY <2>2, <3>1 DEF SessionSet
    <3> QED BY <3>2, IdleFields
  <2>11. ASSUME Reboot \/ RebootSelf PROVE outcome'[d] = "Rebooted"
    BY <2>2, <2>11 DEF Reboot, RebootSelf
  <2>12. ASSUME Collect PROVE FALSE
    BY <2>2, <2>12 DEF Collect
  <2> QED BY <2>4, <2>5, <2>6, <2>7, <2>8, <2>9, <2>10, <2>11, <2>12 DEF Next
<1> QED BY <1>1, Invariant, PTL DEF Spec, DetachedScriptIsNeverCut

=============================================================================
