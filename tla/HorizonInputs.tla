---------------------------- MODULE HorizonInputs ----------------------------
(***************************************************************************)
(* The generated flake inputs of Horizon deployments (MaterializedInputSet  *)
(* in schema_runtime.rs).  A deployment writes its inputs one directory     *)
(* after another, asks Nix for the hash of each, and locks its evaluation   *)
(* to those hashes.  The directories are named after the cluster, the node  *)
(* and the shape, so deployments that agree on these write the same files,  *)
(* and nothing keeps one from writing between another's steps.              *)
(***************************************************************************)
EXTENDS Naturals, Sequences

CONSTANTS
    Deployments, \* the deployments of one cluster and node
    Submissions, \* what they ask for: [kind, composition, definition, system, secrets]
    MaxCrashes   \* bound: how often the daemon dies

VARIABLES
    submission, \* the submission of each deployment
    files,      \* what each generated directory holds
    fetched,    \* the contents Nix has already copied to the store (external)
    at,         \* the step each deployment is at
    next,       \* the index of the input it works on
    locked,     \* the overrides it has made: for each input, what was hashed
    evaluated,  \* what its evaluation read, input by input
    crashes

vars == <<submission, files, fetched, at, next, locked, evaluated, crashes>>

-----------------------------------------------------------------------------
(* The layout and the contents of the inputs.                               *)

\* What the inputs are for.
Shape(s) == IF s.kind = "Home" THEN "UserEnvironment" ELSE s.composition

\* The directory of one input.  The user of a user environment is not in it.
Directory(s, name) == <<Shape(s), name>>

\* The inputs in the order they are written.  A user environment has no
\* deployment input of its own.
InputNames(s) ==
    IF Shape(s) = "UserEnvironment"
    THEN <<"horizon", "system", "secrets">>
    ELSE <<"horizon", "system", "deployment", "secrets">>

\* Every content is a function of the submission; "Absent" is no content.
Content(s, name) ==
    CASE name = "horizon" -> s.definition
      [] name = "system" -> s.system
      [] name = "deployment" -> Shape(s)
      [] name = "secrets" -> s.secrets

Names == {"horizon", "system", "deployment", "secrets"}
Directories == {Shape(s) : s \in Submissions} \X Names
Unlocked == [name \in Names |-> "Absent"]

Name(d) == InputNames(submission[d])[next[d]]

-----------------------------------------------------------------------------
(* Materialization.                                                         *)

\* The secret files of the named directory: it may not exist, and two of its
\* files may yield one attribute name.
SecretsFound(s) == s.secrets # "Missing"
SecretsCollide(s) == s.secrets = "Colliding"

\* The definition is projected onto the node and the secrets directory looked
\* up before any input is written.
Project(d) ==
    /\ at[d] = "Project"
    /\ at' = [at EXCEPT ![d] =
                IF submission[d].definition # "Unprojected" /\ SecretsFound(submission[d])
                THEN "Write" ELSE "Failed"]
    /\ UNCHANGED <<submission, files, fetched, next, locked, evaluated, crashes>>

\* The secrets directory is emptied first, so that it holds exactly the current
\* secrets; a colliding attribute name fails with the directory half written.
Reset(d) ==
    /\ at[d] = "Write" /\ Name(d) = "secrets"
    /\ files' = [files EXCEPT ![Directory(submission[d], "secrets")] = "Empty"]
    /\ at' = [at EXCEPT ![d] = IF SecretsCollide(submission[d]) THEN "Failed" ELSE "Copy"]
    /\ UNCHANGED <<submission, fetched, next, locked, evaluated, crashes>>

\* The other inputs are overwritten in place, files of an earlier set included.
Write(d) ==
    /\ \/ at[d] = "Write" /\ Name(d) # "secrets"
       \/ at[d] = "Copy"
    /\ files' = [files EXCEPT ![Directory(submission[d], Name(d))] =
                                  Content(submission[d], Name(d))]
    /\ at' = [at EXCEPT ![d] = "Hash"]
    /\ UNCHANGED <<submission, fetched, next, locked, evaluated, crashes>>

\* `nix hash path` reads the directory as it is while the daemon awaits it.
NarHash(directory) == files[directory]

\* The override is locked to what the hash command read.
Hash(d) ==
    /\ at[d] = "Hash"
    /\ locked' = [locked EXCEPT ![d][Name(d)] = NarHash(Directory(submission[d], Name(d)))]
    /\ IF next[d] = Len(InputNames(submission[d]))
       THEN at' = [at EXCEPT ![d] = "Evaluate"] /\ UNCHANGED next
       ELSE at' = [at EXCEPT ![d] = "Write"] /\ next' = [next EXCEPT ![d] = @ + 1]
    /\ UNCHANGED <<submission, files, fetched, evaluated, crashes>>

-----------------------------------------------------------------------------
(* Evaluation.                                                              *)

Inputs(d) == {InputNames(submission[d])[i] : i \in DOMAIN InputNames(submission[d])}

\* An override is satisfied by the store or by a directory of that content.
Available(d, name) ==
    \/ locked[d][name] \in fetched
    \/ locked[d][name] = files[Directory(submission[d], name)]

\* The evaluation reads exactly the contents it is locked to.
Evaluate(d) ==
    /\ at[d] = "Evaluate"
    /\ \A name \in Inputs(d) : Available(d, name)
    /\ evaluated' = [evaluated EXCEPT ![d] = locked[d]]
    /\ fetched' = fetched \cup {locked[d][name] : name \in Inputs(d)}
    /\ at' = [at EXCEPT ![d] = "Done"]
    /\ UNCHANGED <<submission, files, next, locked, crashes>>

\* A directory that changed since it was hashed fails the evaluation.
Mismatch(d) ==
    /\ at[d] = "Evaluate"
    /\ \E name \in Inputs(d) : ~Available(d, name)
    /\ at' = [at EXCEPT ![d] = "Failed"]
    /\ UNCHANGED <<submission, files, fetched, next, locked, evaluated, crashes>>

\* The daemon dies.  Its successor materializes again, unless the overrides were
\* already recorded with the deployment: then it evaluates with those.
Crash ==
    /\ crashes < MaxCrashes
    /\ crashes' = crashes + 1
    /\ at' = [d \in Deployments |->
                IF at[d] \in {"Write", "Copy", "Hash"} THEN "Project" ELSE at[d]]
    /\ next' = [d \in Deployments |-> IF at[d] \in {"Write", "Copy", "Hash"} THEN 1 ELSE next[d]]
    /\ locked' = [d \in Deployments |->
                    IF at[d] \in {"Write", "Copy", "Hash"} THEN Unlocked ELSE locked[d]]
    /\ UNCHANGED <<submission, files, fetched, evaluated>>

-----------------------------------------------------------------------------

Init ==
    /\ submission \in [Deployments -> Submissions]
    /\ files = [directory \in Directories |-> "Absent"]
    /\ fetched = {}
    /\ at = [d \in Deployments |-> "Project"]
    /\ next = [d \in Deployments |-> 1]
    /\ locked = [d \in Deployments |-> Unlocked]
    /\ evaluated = [d \in Deployments |-> Unlocked]
    /\ crashes = 0

Next ==
    \/ \E d \in Deployments :
          Project(d) \/ Reset(d) \/ Write(d) \/ Hash(d) \/ Evaluate(d) \/ Mismatch(d)
    \/ Crash

Spec == Init /\ [][Next]_vars

-----------------------------------------------------------------------------

\* A deployment that evaluated read the inputs generated for it: "The generated
\* inputs for one deploy" (MaterializedInputSet).
InputsAreItsOwn ==
    \A d \in Deployments :
        at[d] = "Done" =>
            \A name \in Inputs(d) : evaluated[d][name] = Content(submission[d], name)
=============================================================================
