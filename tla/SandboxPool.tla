----------------------------- MODULE SandboxPool -----------------------------
(***************************************************************************)
(* One sandbox id: the container that runs for it, the provisioner service  *)
(* with its reaper of idle sandboxes, and the processes (API and worker)    *)
(* that get a connection to it, keep it alive and run commands in it.       *)
(*                                                                          *)
(* Every endpoint of the provisioner takes two steps, one at the container  *)
(* backend and one at the table of last activities, and so does the reaper. *)
(* A process remembers the address of the container and asks the            *)
(* provisioner again only when the keepalive interval has passed.           *)
(*                                                                          *)
(* Time goes on in ticks. Ages stop at the largest value anything tells     *)
(* apart. Sandbox ids share nothing, so that one is enough.                 *)
(***************************************************************************)
EXTENDS Integers

CONSTANTS
  Procs,        \* processes with a provider of their own
  Closing,      \* those that delete their sandboxes when they shut down: the API
  Callers,      \* threads that use the sandbox
  Home,         \* the process of each of them
  Exec,         \* sandbox_exec_timeout_seconds
  Keepalive,    \* sandbox_keepalive_interval_seconds
  Configured,   \* SANDBOX_IDLE_TIMEOUT_SECONDS
  Margin,       \* what is added to Exec when Configured is too small (30)
  Latency,      \* how long the answer of a touch may take
  MaxBoxes,     \* bound: containers ever started
  MaxUses,      \* bound: how often the sandbox is used
  MaxPoolFaults     \* bound: failures, stale mounts, restarts of the provisioner and shutdowns

ASSUME PoolAssumption ==
  /\ Closing \subseteq Procs /\ Home \in [Callers -> Procs]
  /\ Exec \in Nat /\ Keepalive \in Nat \ {0} /\ Configured \in Nat \ {0}
  /\ Margin \in Nat \ {0} /\ Latency \in Nat
  /\ MaxBoxes \in Nat /\ MaxUses \in Nat /\ MaxPoolFaults \in Nat

\* _idle_timeout_seconds
Idle == IF Configured <= Exec THEN Exec + Margin ELSE Configured

\* How long a command that is begun just before the next keepalive is due runs before the
\* reaper may come. At the timeouts of docker-compose.yml (120 raised to 180 + 30, 180, 30)
\* this is less than Exec by the latency of the answer to the last touch.
SureFor == Idle - Keepalive - Latency

Untracked == -1
NoBox == 0
Boxes == 1..MaxBoxes

VARIABLES
  box,      \* the container that runs, or NoBox
  born,     \* how many have been started
  age,      \* since the last activity the reaper knows of, or Untracked
  reaper,   \* "wait", "delete" or "forget"
  conn,     \* the container each process believes in, or NoBox
  since,    \* since it last asked the provisioner
  closing,  \* where its shutdown is
  step,     \* where a caller is
  url,      \* the container it was told of, or runs its command in
  left,     \* how long that command may still take
  lag,      \* how long the answer to its touch has taken
  stray,    \* where a request is that the caller has given up and the provisioner goes on with
  uses, poolFaults,
  slips     \* history: which of the named slips have happened

poolVars == <<box, born, age, reaper, conn, since, closing, step, url, left, lag, stray,
              uses, poolFaults, slips>>

Slip == {"raced",     \* the reaper deleted what had been touched since it looked
         "closed",    \* a shutdown deleted a container another process relied on
         "unsure",    \* a touch failed and the connection was used all the same
         "stale",     \* a touch deleted a container with stale mounts that others relied on
         "replaced",  \* a container that was unhealthy or had stale mounts was replaced
         "moved",     \* a container was started while a process believed in an older one
         "forgot",    \* a container started meanwhile was forgotten with the deleted one
         "leaked",    \* a container was started and did not become ready
         "unseeded"}  \* a restarted provisioner could not list its containers

\* Steps that hold the lock of the provider.
Asking == {"touch", "found", "alive", "create", "made", "ready"}

PoolInit ==
  /\ box = NoBox /\ born = 0 /\ age = Untracked /\ reaper = "wait"
  /\ conn = [p \in Procs |-> NoBox] /\ since = [p \in Procs |-> 0]
  /\ closing = [p \in Procs |-> "no"]
  /\ step = [c \in Callers |-> "rest"] /\ url = [c \in Callers |-> NoBox]
  /\ left = [c \in Callers |-> 0] /\ lag = [c \in Callers |-> 0]
  /\ stray = [c \in Callers |-> "none"]
  /\ uses = 0 /\ poolFaults = 0 /\ slips = {}

-----------------------------------------------------------------------------
(* Helpers *)

To(c, s) == step' = [step EXCEPT ![c] = s]
Slipped(s) == slips' = slips \cup s
Fails == poolFaults < MaxPoolFaults /\ poolFaults' = poolFaults + 1
provisioner == <<box, born, age, reaper>>
providers == <<conn, since, closing>>
callers == <<step, url, left, lag, stray, uses>>

\* Somebody relies on the container: a command runs in it, or an answer that
\* tells of it is on its way.
ReliesOnBox(c) == step[c] \in {"found", "alive", "made", "ready", "run"}

\* Or a process believes in it.
Relied == (\E c \in Callers : ReliesOnBox(c)) \/ (\E q \in Procs : conn'[q] # NoBox)

\* A container is started: whoever believes in another one is misled.
Start ==
  /\ born < MaxBoxes /\ born' = born + 1 /\ box' = born + 1
Misled == IF (\E p \in Procs : conn[p] # NoBox) \/ (\E c \in Callers : step[c] = "touch")
          THEN {"moved"} ELSE {}

-----------------------------------------------------------------------------
(* DockerBackend.discover and create *)

Finds == box # NoBox /\ UNCHANGED <<box, poolFaults, slips>>

\* There is no container, or it is not ready, or has stale mounts: then it is deleted, which
\* may fail, and nobody forgets its activity.
Misses ==
  \/ box = NoBox /\ UNCHANGED <<box, poolFaults, slips>>
  \/ box # NoBox /\ Fails /\ UNCHANGED <<box, slips>>
  \/ box # NoBox /\ Fails /\ box' = NoBox /\ Slipped({s \in {"stale"} : Relied})

\* A container that runs is used again, unless it is not healthy or its mounts are stale.
Makes ==
  \/ box # NoBox /\ UNCHANGED <<box, born, poolFaults, slips>>
  \/ box = NoBox /\ Start /\ Slipped(Misled) /\ UNCHANGED poolFaults
  \/ box # NoBox /\ Fails /\ Start /\ Slipped(Misled \cup {"replaced"})

\* An exception, before or after such a container has been deleted or another one been
\* started: no activity is noted.
Refuses ==
  LET replaced == {s \in {"replaced"} : box # NoBox} IN
  /\ Fails
  /\ \/ UNCHANGED <<box, born, slips>>
     \/ box' = NoBox /\ Slipped(replaced) /\ UNCHANGED born
     \/ Start /\ Slipped(Misled \cup replaced \cup {"leaked"})

-----------------------------------------------------------------------------
(* ProvisionerSandboxProvider.get and the command after it *)

Run(c, b) ==
  /\ To(c, "run") /\ url' = [url EXCEPT ![c] = b] /\ left' = [left EXCEPT ![c] = Exec]

\* Fault: a connection is never asked for again.
GetCached(c) ==
  LET p == Home[c] IN
  /\ step[c] = "rest" /\ uses < MaxUses
  /\ \A d \in Callers : Home[d] = p => step[d] \notin Asking
  /\ uses' = uses + 1
  /\ IF conn[p] = NoBox THEN To(c, "create") /\ UNCHANGED <<url, left>> ELSE Run(c, conn[p])
  /\ UNCHANGED <<provisioner, providers, lag, stray, poolFaults, slips>>

\* The lock of the provider is free. With a connection asked for lately the
\* command begins at once.
Get(c) ==
  LET p == Home[c] IN
  /\ step[c] = "rest" /\ uses < MaxUses
  /\ \A d \in Callers : Home[d] = p => step[d] \notin Asking
  /\ uses' = uses + 1
  /\ IF conn[p] = NoBox THEN To(c, "create") /\ UNCHANGED <<url, left>>
     ELSE IF since[p] >= Keepalive
       THEN To(c, "touch") /\ url' = [url EXCEPT ![c] = conn[p]] /\ UNCHANGED left
     ELSE Run(c, conn[p])
  /\ UNCHANGED <<provisioner, providers, lag, stray, poolFaults, slips>>

\* touch: the backend finds the container, or it does not.
TouchFinds(c) ==
  /\ step[c] = "touch"
  /\ \/ Finds /\ To(c, "found") /\ UNCHANGED conn
     \/ conn' = [conn EXCEPT ![Home[c]] = NoBox] /\ Misses /\ To(c, "create")
  /\ UNCHANGED <<born, age, reaper, since, closing, url, left, lag, stray, uses>>

\* A caller gives its request up after the timeout of the client, one at a time: the
\* provisioner knows nothing of that.
GivesUp(c) ==
  /\ stray[c] = "none"
  /\ stray' = [stray EXCEPT ![c] = IF step[c] \in {"alive", "ready"} THEN "none" ELSE step[c]]

\* The touch fails: the connection is used as it is.
TouchFails(c) ==
  /\ step[c] \in {"touch", "found", "alive"} /\ Fails
  /\ Run(c, url[c]) /\ Slipped({"unsure"})
  /\ UNCHANGED stray \/ GivesUp(c)
  /\ UNCHANGED <<provisioner, providers, lag, uses>>

\* Fault: creating a sandbox is no activity.
NotedTouch(c) ==
  /\ step[c] \in {"found", "made"} /\ To(c, IF step[c] = "found" THEN "alive" ELSE "ready")
  /\ age' = (IF step[c] = "found" THEN 0 ELSE age) /\ lag' = [lag EXCEPT ![c] = 0]
  /\ UNCHANGED <<box, born, reaper, providers, url, left, stray, uses, poolFaults, slips>>

\* The endpoints of touch and create note the activity ...
Noted(c) ==
  /\ \/ step[c] = "found" /\ To(c, "alive")
     \/ step[c] = "made" /\ To(c, "ready")
  /\ age' = 0 /\ lag' = [lag EXCEPT ![c] = 0]
  /\ UNCHANGED <<box, born, reaper, providers, url, left, stray, uses, poolFaults, slips>>

\* ... and the provider takes the answer.
TouchAnswered(c) ==
  /\ step[c] = "alive"
  /\ since' = [since EXCEPT ![Home[c]] = 0]
  /\ Run(c, url[c])
  /\ UNCHANGED <<provisioner, conn, closing, lag, stray, uses, poolFaults, slips>>

Create(c) ==
  /\ step[c] = "create" /\ Makes
  /\ url' = [url EXCEPT ![c] = box'] /\ To(c, "made")
  /\ UNCHANGED <<age, reaper, providers, left, lag, stray, uses>>

\* The backend has failed, or the caller does not wait for it any longer.
CreateFails(c) ==
  /\ \/ step[c] = "create" /\ Refuses /\ UNCHANGED stray
     \/ /\ step[c] \in {"create", "made", "ready"} /\ Fails /\ GivesUp(c)
        /\ UNCHANGED <<box, born, slips>>
  /\ To(c, "rest")
  /\ UNCHANGED <<age, reaper, providers, url, left, lag, uses>>

\* A request that was given up goes through the same steps, and notes the activity.
StrayGoesOn(c) ==
  /\ \/ stray[c] = "touch" /\ UNCHANGED <<conn, born, age>>
        /\ \/ Finds /\ stray' = [stray EXCEPT ![c] = "found"]
           \/ Misses /\ stray' = [stray EXCEPT ![c] = "none"]
     \/ stray[c] = "create" /\ UNCHANGED <<conn, age>>
        /\ \/ Makes /\ stray' = [stray EXCEPT ![c] = "made"]
           \/ Refuses /\ stray' = [stray EXCEPT ![c] = "none"]
     \/ stray[c] \in {"found", "made"} /\ age' = 0 /\ stray' = [stray EXCEPT ![c] = "none"]
        /\ UNCHANGED <<conn, box, born, poolFaults, slips>>
  /\ UNCHANGED <<reaper, since, closing, step, url, left, lag, uses>>

CreateAnswered(c) ==
  /\ step[c] = "ready"
  /\ conn' = [conn EXCEPT ![Home[c]] = url[c]]
  /\ since' = [since EXCEPT ![Home[c]] = 0]
  /\ Run(c, url[c])
  /\ UNCHANGED <<provisioner, closing, lag, stray, uses, poolFaults, slips>>

\* The command ends, or is given up after its timeout.
CommandEnds(c) ==
  /\ step[c] = "run" /\ To(c, "rest")
  /\ url' = [url EXCEPT ![c] = NoBox] /\ left' = [left EXCEPT ![c] = 0]
  /\ UNCHANGED <<provisioner, providers, lag, stray, uses, poolFaults, slips>>

\* shutdown: the connections are dropped, then their sandboxes are deleted.
Close(p) ==
  /\ p \in Closing /\ closing[p] = "no" /\ conn[p] # NoBox /\ Fails
  /\ conn' = [conn EXCEPT ![p] = NoBox] /\ closing' = [closing EXCEPT ![p] = "delete"]
  /\ UNCHANGED <<provisioner, since, callers, slips>>

\* A deletion that fails is logged.
CloseDeletes(p) ==
  /\ closing[p] = "delete" /\ UNCHANGED conn
  /\ \/ /\ closing' = [closing EXCEPT ![p] = "forget"] /\ box' = NoBox /\ UNCHANGED poolFaults
        /\ Slipped({s \in {"closed"} : Relied})
     \/ closing' = [closing EXCEPT ![p] = "no"] /\ Fails /\ UNCHANGED <<box, slips>>
  /\ UNCHANGED <<born, age, reaper, since, callers>>

\* The activity is forgotten, of a container that was started in between too.
Forgotten == age' = Untracked /\ Slipped(IF box # NoBox THEN {"forgot"} ELSE {})

CloseForgets(p) ==
  /\ closing[p] = "forget" /\ closing' = [closing EXCEPT ![p] = "no"]
  /\ Forgotten
  /\ UNCHANGED <<box, born, reaper, conn, since, callers, poolFaults>>

-----------------------------------------------------------------------------
(* SandboxIdleReaper and the provisioner's start *)

\* _collect_expired_sandbox_ids
Collect ==
  /\ reaper = "wait" /\ age >= Idle /\ reaper' = "delete"
  /\ UNCHANGED <<box, born, age, providers, callers, poolFaults, slips>>

\* Fault: the thread ends with the first deletion that fails.
ReapOnce ==
  /\ reaper = "delete"
  /\ \/ /\ box' = NoBox /\ reaper' = "forget" /\ UNCHANGED poolFaults
        /\ Slipped(IF age < Idle \/ \E c \in Callers : step[c] \in {"found", "made"}
                   THEN {"raced"} ELSE {})
     \/ Fails /\ reaper' = "ended" /\ UNCHANGED <<box, slips>>
  /\ UNCHANGED <<born, age, providers, callers>>

\* Nothing is looked at again before the container goes.
Reap ==
  /\ reaper = "delete"
  /\ \/ /\ box' = NoBox /\ reaper' = "forget" /\ UNCHANGED poolFaults
        /\ Slipped(IF age < Idle \/ \E c \in Callers : step[c] \in {"found", "made"}
                   THEN {"raced"} ELSE {})
     \/ Fails /\ reaper' = "wait" /\ UNCHANGED <<box, slips>>
  /\ UNCHANGED <<born, age, providers, callers>>

ReaperForgets ==
  /\ reaper = "forget" /\ reaper' = "wait"
  /\ Forgotten
  /\ UNCHANGED <<box, born, providers, callers, poolFaults>>

\* The provisioner dies: the requests it works on fail, and its successor counts the
\* age of the containers it finds from its own start.
ProvisionerRestarts ==
  /\ Fails /\ reaper' = "wait"
  /\ LET touching == {c \in Callers : step[c] \in {"touch", "found", "alive"}}
         creating == {c \in Callers : step[c] \in {"create", "made", "ready"}}
         unsure == IF touching # {} THEN {"unsure"} ELSE {} IN
     /\ step' = [c \in Callers |-> IF c \in touching THEN "run"
                                   ELSE IF c \in creating THEN "rest" ELSE step[c]]
     /\ left' = [c \in Callers |-> IF c \in touching THEN Exec ELSE left[c]]
     /\ stray' = [c \in Callers |-> "none"]
     /\ \/ age' = (IF box # NoBox THEN 0 ELSE Untracked) /\ Slipped(unsure)
        \/ age' = Untracked /\ Slipped(unsure \cup {"unseeded"})
  /\ UNCHANGED <<box, born, providers, url, lag, uses>>

-----------------------------------------------------------------------------
(* Time *)

Older(n, limit) == IF n = Untracked \/ n >= limit THEN n ELSE n + 1

\* A command is over before its time has passed, and an answer comes in time.
Tick ==
  /\ \A c \in Callers : step[c] = "run" => left[c] > 0
  /\ \A c \in Callers : step[c] \in {"alive", "ready"} => lag[c] < Latency
  /\ age' = Older(age, Idle)
  /\ since' = [p \in Procs |-> Older(since[p], Keepalive)]
  /\ left' = [c \in Callers |-> IF step[c] = "run" THEN left[c] - 1 ELSE left[c]]
  /\ lag' = [c \in Callers |-> IF step[c] \in {"alive", "ready"} THEN lag[c] + 1 ELSE lag[c]]
  /\ UNCHANGED <<box, born, reaper, conn, closing, step, url, stray, uses, poolFaults, slips>>

-----------------------------------------------------------------------------
(* Specification *)

\* What a caller does after it has asked for the sandbox.
GoesOn(c) ==
  \/ TouchFinds(c) \/ TouchFails(c) \/ Noted(c) \/ TouchAnswered(c)
  \/ Create(c) \/ CreateFails(c) \/ CreateAnswered(c) \/ CommandEnds(c)
Reaper == Collect \/ Reap \/ ReaperForgets
Closes(p) == CloseDeletes(p) \/ CloseForgets(p)

PoolNext ==
  \/ \E c \in Callers : Get(c) \/ GoesOn(c) \/ StrayGoesOn(c)
  \/ \E p \in Procs : Close(p) \/ Closes(p)
  \/ Reaper \/ ProvisionerRestarts \/ Tick
PoolSpec == PoolInit /\ [][PoolNext]_poolVars

\* Requests are answered, commands end, the reaper comes round, time passes.
PoolFair ==
  /\ \A c \in Callers : WF_poolVars(GoesOn(c)) /\ WF_poolVars(StrayGoesOn(c))
  /\ \A p \in Procs : WF_poolVars(Closes(p))
  /\ WF_poolVars(Reaper) /\ WF_poolVars(Tick)

-----------------------------------------------------------------------------
(* Properties *)

\* Every variable holds a value of its kind.
PoolTypeOK ==
  /\ box \in Boxes \cup {NoBox} /\ born \in 0..MaxBoxes
  /\ age \in 0..Idle \cup {Untracked} /\ reaper \in {"wait", "delete", "forget"}
  /\ conn \in [Procs -> Boxes \cup {NoBox}] /\ since \in [Procs -> 0..Keepalive]
  /\ closing \in [Procs -> {"no", "delete", "forget"}]
  /\ step \in [Callers -> Asking \cup {"rest", "run"}]
  /\ url \in [Callers -> Boxes \cup {NoBox}]
  /\ left \in [Callers -> 0..Exec] /\ lag \in [Callers -> 0..Latency]
  /\ stray \in [Callers -> {"none", "touch", "found", "create", "made"}]
  /\ uses \in 0..MaxUses /\ poolFaults \in 0..MaxPoolFaults /\ slips \subseteq Slip

\* No command loses its sandbox, or begins in one that is gone, before it has run for
\* SureFor: that takes a reaper that deletes on an old look, a shutdown of another process,
\* a touch that failed or found stale mounts, or a container replaced under a connection to
\* the older one. An idle timeout of Exec + Keepalive + Latency covers every command whole.
CommandsKept ==
  \A c \in Callers : step[c] = "run" /\ Exec - left[c] <= SureFor =>
    url[c] = box \/ slips \cap {"raced", "closed", "unsure", "stale", "replaced", "moved"} # {}

\* The reaper knows every container that runs, apart from the moment before the
\* creating request notes it, whether or not somebody still waits for its answer, unless
\* the container was forgotten, leaked or not listed.
Tracked ==
  box # NoBox =>
    \/ age # Untracked \/ \E c \in Callers : "made" \in {step[c], stray[c]}
    \/ slips \cap {"forgot", "leaked", "unseeded"} # {}

\* A sandbox nobody uses any more is deleted in the end, with the same exceptions.
IdleReaped == <>[](box = NoBox \/ slips \cap {"forgot", "leaked", "unseeded"} # {})
=============================================================================
