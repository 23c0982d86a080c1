-------------------------- MODULE SandboxPoolProofs --------------------------
(***************************************************************************)
(* Proofs about SandboxPool, for every set of processes and callers, every  *)
(* timeout, interval and latency, and every number of failures.             *)
(***************************************************************************)
EXTENDS SandboxPool, TLAPS

LEMMA IdleTypes == Idle \in Nat \ {0} /\ SureFor = Idle - Keepalive - Latency
BY PoolAssumption DEF Idle, SureFor

-----------------------------------------------------------------------------
(* Types *)

LEMMA PoolTypeInit == PoolInit => PoolTypeOK
BY PoolAssumption, IdleTypes DEF PoolInit, PoolTypeOK, Asking, Untracked, NoBox

\* A failure is counted.
LEMMA FailTypes ==
  ASSUME PoolTypeOK, Fails
  PROVE  poolFaults' \in 0..MaxPoolFaults
BY PoolAssumption DEF PoolTypeOK, Fails

LEMMA StartTypes ==
  ASSUME PoolTypeOK, Start
  PROVE  box' \in Boxes /\ born' \in 0..MaxBoxes /\ box' # NoBox
BY PoolAssumption DEF PoolTypeOK, Start, Boxes, NoBox

LEMMA RunTypes ==
  ASSUME PoolTypeOK, NEW c \in Callers, NEW b \in Boxes \cup {NoBox}, Run(c, b)
  PROVE  /\ step' \in [Callers -> Asking \cup {"rest", "run"}] /\ url' \in [Callers -> Boxes \cup {NoBox}]
         /\ left' \in [Callers -> 0..Exec]
<1>1. Exec \in 0..Exec
  BY PoolAssumption
<1> QED BY <1>1 DEF PoolTypeOK, Run, To

\* What the backend does keeps the types.
LEMMA FindTypes ==
  ASSUME PoolTypeOK, Finds \/ Misses
  PROVE  box' \in Boxes \cup {NoBox} /\ slips' \subseteq Slip /\ poolFaults' \in 0..MaxPoolFaults
BY FailTypes DEF Finds, Misses, PoolTypeOK, Slipped, Slip, NoBox

LEMMA MakeTypes ==
  ASSUME PoolTypeOK, Makes \/ Refuses
  PROVE  /\ box' \in Boxes \cup {NoBox} /\ born' \in 0..MaxBoxes
         /\ slips' \subseteq Slip /\ poolFaults' \in 0..MaxPoolFaults
BY FailTypes, StartTypes DEF Makes, Refuses, PoolTypeOK, Slipped, Slip, Misled

\* A request that is given up goes on at the provisioner.
LEMMA StrayTypes ==
  ASSUME PoolTypeOK, NEW c \in Callers, GivesUp(c), step[c] \in {"touch", "found", "alive", "create", "made", "ready"}
  PROVE  stray' \in [Callers -> {"none", "touch", "found", "create", "made"}]
BY DEF PoolTypeOK, GivesUp

\* The steps of a caller.
LEMMA CallerTypes ==
  ASSUME PoolTypeOK, NEW c \in Callers, Get(c) \/ GoesOn(c)
  PROVE  PoolTypeOK'
<1> USE DEF PoolTypeOK, To, Slipped, provisioner, providers, callers
<1>0. Home[c] \in Procs /\ 0 \in 0..Idle /\ 0 \in 0..Keepalive /\ 0 \in 0..Exec /\ 0 \in 0..Latency
  BY PoolAssumption, IdleTypes
<1>1. CASE Get(c)
  <2>1. uses' \in 0..MaxUses
    BY <1>1, PoolAssumption DEF Get
  <2>2. CASE Run(c, conn[Home[c]])
    BY <1>0, <1>1, <2>1, <2>2, RunTypes DEF Get
  <2>3. CASE To(c, "create") /\ UNCHANGED <<url, left>>
    BY <1>1, <2>1, <2>3 DEF Get, Asking
  <2>4. CASE To(c, "touch") /\ url' = [url EXCEPT ![c] = conn[Home[c]]] /\ UNCHANGED left
    BY <1>0, <1>1, <2>1, <2>4 DEF Get, Asking
  <2> QED BY <1>1, <2>2, <2>3, <2>4 DEF Get
<1>2. CASE TouchFinds(c)
  BY <1>2, FindTypes DEF TouchFinds, Asking
<1>3. CASE TouchFails(c)
  <2>1. stray' \in [Callers -> {"none", "touch", "found", "create", "made"}]
    BY <1>3, StrayTypes DEF TouchFails
  <2> QED BY <1>3, <2>1, FailTypes, RunTypes DEF TouchFails, Slip
<1>4. CASE Noted(c)
  BY <1>0, <1>4 DEF Noted, Asking
<1>5. CASE TouchAnswered(c)
  BY <1>0, <1>5, RunTypes DEF TouchAnswered
<1>6. CASE Create(c)
  <2>1. url' \in [Callers -> Boxes \cup {NoBox}]
    BY <1>6, MakeTypes DEF Create
  <2> QED BY <1>6, <2>1, MakeTypes DEF Create, Asking
<1>7. CASE CreateFails(c)
  <2>1. CASE Refuses /\ UNCHANGED stray
    BY <1>7, <2>1, MakeTypes DEF CreateFails
  <2>2. CASE step[c] \in {"create", "made", "ready"} /\ Fails /\ GivesUp(c) /\ UNCHANGED <<box, born, slips>>
    BY <1>7, <2>2, FailTypes, StrayTypes DEF CreateFails
  <2> QED BY <1>7, <2>1, <2>2 DEF CreateFails
<1>8. CASE CreateAnswered(c)
  BY <1>0, <1>8, RunTypes DEF CreateAnswered
<1>9. CASE CommandEnds(c)
  BY <1>0, <1>9 DEF CommandEnds
<1> QED BY <1>1, <1>2, <1>3, <1>4, <1>5, <1>6, <1>7, <1>8, <1>9 DEF GoesOn

\* Those of a request that was given up.
LEMMA StrayStepTypes ==
  ASSUME PoolTypeOK, NEW c \in Callers, StrayGoesOn(c)
  PROVE  PoolTypeOK'
<1>0. 0 \in 0..Idle
  BY IdleTypes
<1>1. stray' \in [Callers -> {"none", "touch", "found", "create", "made"}]
  BY DEF StrayGoesOn, PoolTypeOK
<1>2. /\ box' \in Boxes \cup {NoBox} /\ born' \in 0..MaxBoxes /\ age' \in 0..Idle \cup {Untracked}
      /\ slips' \subseteq Slip /\ poolFaults' \in 0..MaxPoolFaults /\ conn' = conn
  BY <1>0, FindTypes, MakeTypes DEF StrayGoesOn, PoolTypeOK
<1> QED BY <1>1, <1>2 DEF StrayGoesOn, PoolTypeOK

\* Those of a shutdown, of the reaper and of a restart.
LEMMA ServiceTypes ==
  ASSUME PoolTypeOK, (\E p \in Procs : Close(p) \/ Closes(p)) \/ Reaper \/ ProvisionerRestarts
  PROVE  PoolTypeOK'
<1> USE DEF PoolTypeOK, Slipped, Slip, provisioner, providers, callers
<1>1. ASSUME NEW p \in Procs, Close(p) \/ Closes(p) PROVE PoolTypeOK'
  BY <1>1, FailTypes DEF Close, Closes, CloseDeletes, CloseForgets, Forgotten
<1>2. CASE Reaper
  BY <1>2, FailTypes DEF Reaper, Collect, Reap, ReaperForgets, Forgotten
<1>3. CASE ProvisionerRestarts
  <2>1. 0 \in 0..Idle /\ Exec \in 0..Exec
    BY PoolAssumption, IdleTypes
  <2>2. left' \in [Callers -> 0..Exec]
    BY <1>3, <2>1 DEF ProvisionerRestarts
  <2>3. step' \in [Callers -> Asking \cup {"rest", "run"}]
    BY <1>3 DEF ProvisionerRestarts
  <2>4. age' \in 0..Idle \cup {Untracked} /\ slips' \subseteq Slip /\ poolFaults' \in 0..MaxPoolFaults
    BY <1>3, <2>1, FailTypes DEF ProvisionerRestarts
  <2> QED BY <1>3, <2>2, <2>3, <2>4 DEF ProvisionerRestarts
<1> QED BY <1>1, <1>2, <1>3

LEMMA TickTypes == PoolTypeOK /\ Tick => PoolTypeOK'
<1> SUFFICES ASSUME PoolTypeOK, Tick PROVE PoolTypeOK'
  OBVIOUS
<1>1. age' \in 0..Idle \cup {Untracked}
  BY IdleTypes DEF PoolTypeOK, Tick, Older, Untracked
<1>2. since' \in [Procs -> 0..Keepalive]
  <2>1. \A n \in 0..Keepalive : Older(n, Keepalive) \in 0..Keepalive
    BY PoolAssumption DEF Older
  <2> QED BY <2>1 DEF PoolTypeOK, Tick
<1>3. left' \in [Callers -> 0..Exec]
  <2>1. \A c \in Callers : left[c] \in 0..Exec /\ (step[c] = "run" => left[c] - 1 \in 0..Exec)
    BY PoolAssumption DEF PoolTypeOK, Tick
  <2> QED BY <2>1 DEF Tick
<1>4. lag' \in [Callers -> 0..Latency]
  <2>1. \A c \in Callers : lag[c] \in 0..Latency /\ (step[c] \in {"alive", "ready"} => lag[c] + 1 \in 0..Latency)
    BY PoolAssumption DEF PoolTypeOK, Tick
  <2> QED BY <2>1 DEF Tick
<1> QED BY <1>1, <1>2, <1>3, <1>4 DEF PoolTypeOK, Tick

LEMMA PoolTypeStep == PoolTypeOK /\ [PoolNext]_poolVars => PoolTypeOK'
<1> SUFFICES ASSUME PoolTypeOK, [PoolNext]_poolVars PROVE PoolTypeOK'
  OBVIOUS
<1>1. CASE UNCHANGED poolVars
  BY <1>1 DEF poolVars, PoolTypeOK
<1> QED BY <1>1, CallerTypes, StrayStepTypes, ServiceTypes, TickTypes DEF PoolNext

\* Every variable holds a value of its kind.
THEOREM PoolTypeCorrect == PoolSpec => []PoolTypeOK
BY PoolTypeInit, PoolTypeStep, PTL DEF PoolSpec

-----------------------------------------------------------------------------
(* The reaper knows what runs *)

LEMMA TrackedInit == PoolInit => Tracked
BY DEF PoolInit, Tracked

\* Somebody's creation is about to be noted.
Noting == \E c \in Callers : "made" \in {step[c], stray[c]}

LEMMA TrackedStep == PoolTypeOK /\ Tracked /\ [PoolNext]_poolVars => Tracked'
<1> SUFFICES ASSUME PoolTypeOK, Tracked, [PoolNext]_poolVars, box' # NoBox,
                    slips' \cap {"forgot", "leaked", "unseeded"} = {}
             PROVE  age' # Untracked \/ Noting'
  BY DEF Tracked, Noting
<1> USE DEF PoolTypeOK, To, Slipped, provisioner, providers, callers, Untracked
<1>1. ASSUME UNCHANGED <<box, age>>, slips \subseteq slips',
             \A c \in Callers : step[c] = "made" => "made" \in {step'[c], stray'[c]},
             \A c \in Callers : stray[c] = "made" => stray'[c] = "made"
      PROVE  age' # Untracked \/ Noting'
  BY <1>1 DEF Tracked, Noting
<1>2. ASSUME NEW c \in Callers, Get(c) \/ GoesOn(c)
      PROVE  age' # Untracked \/ Noting'
  <2>1. CASE Get(c) \/ TouchAnswered(c) \/ CreateAnswered(c) \/ CommandEnds(c)
    BY <1>1, <2>1 DEF Get, TouchAnswered, CreateAnswered, CommandEnds, Run
  <2>2. CASE TouchFinds(c)
    <3>1. UNCHANGED box /\ slips \subseteq slips'
      BY <2>2 DEF TouchFinds, Finds, Misses
    <3> QED BY <1>1, <2>2, <3>1 DEF TouchFinds
  <2>3. CASE TouchFails(c)
    <3>1. \A d \in Callers : stray[d] = "made" => stray'[d] = "made"
      BY <2>3 DEF TouchFails, GivesUp
    <3> QED BY <1>1, <2>3, <3>1 DEF TouchFails, Run
  <2>4. CASE Noted(c)
    BY <2>4 DEF Noted
  <2>5. CASE Create(c)
    BY <2>5 DEF Create, Noting
  <2>6. CASE CreateFails(c)
    <3>1. CASE Refuses /\ UNCHANGED stray /\ step[c] = "create"
      <4>1. UNCHANGED box /\ slips \subseteq slips'
        BY <3>1 DEF Refuses
      <4> QED BY <1>1, <2>6, <3>1, <4>1 DEF CreateFails
    <3>2. CASE GivesUp(c) /\ UNCHANGED <<box, born, slips>>
      <4>1. \A d \in Callers : /\ stray[d] = "made" => stray'[d] = "made"
                               /\ step[d] = "made" => "made" \in {step'[d], stray'[d]}
        BY <2>6, <3>2 DEF CreateFails, GivesUp
      <4> QED BY <1>1, <2>6, <3>2, <4>1 DEF CreateFails
    <3> QED BY <2>6, <3>1, <3>2 DEF CreateFails
  <2> QED BY <1>2, <2>1, <2>2, <2>3, <2>4, <2>5, <2>6 DEF GoesOn
<1>3. ASSUME NEW c \in Callers, StrayGoesOn(c)
      PROVE  age' # Untracked \/ Noting'
  <2>1. CASE stray[c] = "touch"
    <3>1. UNCHANGED box /\ slips \subseteq slips'
      BY <1>3, <2>1 DEF StrayGoesOn, Finds, Misses
    <3> QED BY <1>1, <1>3, <2>1, <3>1 DEF StrayGoesOn
  <2>2. CASE stray[c] = "create" /\ stray' = [stray EXCEPT ![c] = "made"]
    BY <2>2 DEF Noting
  <2>3. CASE stray[c] = "create" /\ Refuses /\ stray' = [stray EXCEPT ![c] = "none"]
    <3>1. UNCHANGED box /\ slips \subseteq slips'
      BY <2>3 DEF Refuses
    <3> QED BY <1>1, <1>3, <2>3, <3>1 DEF StrayGoesOn
  <2>4. CASE stray[c] \in {"found", "made"}
    BY <1>3, <2>4 DEF StrayGoesOn
  <2> QED BY <1>3, <2>1, <2>2, <2>3, <2>4 DEF StrayGoesOn
<1>4. ASSUME NEW p \in Procs, Close(p) \/ Closes(p)
      PROVE  age' # Untracked \/ Noting'
  BY <1>1, <1>4 DEF Close, Closes, CloseDeletes, CloseForgets, Forgotten
<1>5. CASE Reaper
  BY <1>1, <1>5 DEF Reaper, Collect, Reap, ReaperForgets, Forgotten
<1>6. CASE ProvisionerRestarts
  BY <1>6 DEF ProvisionerRestarts
<1>7. CASE Tick
  <2>1. age # Untracked => age' # Untracked
    BY <1>7, IdleTypes DEF Tick, Older
  <2> QED BY <1>7, <2>1 DEF Tick, Tracked, Noting
<1>8. CASE UNCHANGED poolVars
  BY <1>1, <1>8 DEF poolVars
<1> QED BY <1>2, <1>3, <1>4, <1>5, <1>6, <1>7, <1>8 DEF PoolNext

\* The reaper knows every container that runs, but for the slips that Tracked names.
THEOREM ReaperKnows == PoolSpec => []Tracked
BY PoolTypeInit, PoolTypeStep, TrackedInit, TrackedStep, PTL DEF PoolSpec

-----------------------------------------------------------------------------
(* Commands keep their sandbox *)

Slippery == {"raced", "closed", "unsure", "stale", "replaced", "moved"}

\* Who is told of a container is told of the one that runs, and the age of its last
\* activity is bounded by what has passed since somebody asked for it. What relies on the
\* container is a command only as long as the age cannot be that of an idle one.
Sure(c) ==
  \/ step[c] \in {"found", "alive", "made", "ready"}
  \/ step[c] = "run" /\ Exec - left[c] <= SureFor

Kept ==
  /\ \A p \in Procs : conn[p] # NoBox =>
       /\ box = NoBox \/ conn[p] = box
       /\ since[p] < Keepalive => conn[p] = box /\ age <= since[p] + Latency
  /\ \A c \in Callers : step[c] = "touch" => box = NoBox \/ url[c] = box
  /\ \A c \in Callers : Sure(c) => url[c] = box /\ box # NoBox
  /\ \A c \in Callers : step[c] \in {"alive", "ready"} => age <= lag[c]
  /\ \A c \in Callers : step[c] = "run" => age <= Keepalive - 1 + Latency + (Exec - left[c])

\* When not even a new command is sure of its container there is nothing to keep.
KeptInv == 0 <= SureFor /\ slips \cap Slippery = {} => Kept

LEMMA KeptInit == PoolInit => KeptInv
BY DEF PoolInit, KeptInv, Kept, Sure

\* Slips are never taken back.
LEMMA SlipStep == PoolTypeOK /\ [PoolNext]_poolVars => slips \subseteq slips'
<1> SUFFICES ASSUME PoolTypeOK, [PoolNext]_poolVars PROVE slips \subseteq slips'
  OBVIOUS
<1> USE DEF Slipped
<1>1. ASSUME NEW c \in Callers, Get(c) \/ GoesOn(c) PROVE slips \subseteq slips'
  BY <1>1 DEF GoesOn, Get, TouchFinds, Finds, Misses, TouchFails, Noted, TouchAnswered, Create, Makes,
              CreateFails, Refuses, CreateAnswered, CommandEnds
<1>4. ASSUME NEW c \in Callers, StrayGoesOn(c) PROVE slips \subseteq slips'
  BY <1>4 DEF StrayGoesOn, Finds, Misses, Makes, Refuses
<1>2. ASSUME NEW p \in Procs, Close(p) \/ Closes(p) PROVE slips \subseteq slips'
  BY <1>2 DEF Close, Closes, CloseDeletes, CloseForgets, Forgotten
<1>3. CASE Reaper \/ ProvisionerRestarts \/ Tick \/ UNCHANGED poolVars
  BY <1>3 DEF Reaper, Collect, Reap, ReaperForgets, Forgotten, ProvisionerRestarts, Tick, poolVars
<1> QED BY <1>1, <1>2, <1>3, <1>4 DEF PoolNext

\* A caller that has just begun a command.
LEMMA RunKeeps ==
  ASSUME PoolTypeOK, NEW c \in Callers, NEW b \in Boxes \cup {NoBox}, Run(c, b)
  PROVE  step'[c] = "run" /\ url'[c] = b /\ left'[c] = Exec
BY DEF PoolTypeOK, Run, To

\* The backend starts a container only when nobody believes in one, and takes one away only
\* when nobody relies on it.
LEMMA BackendKeeps ==
  ASSUME PoolTypeOK, slips' \cap Slippery = {}
  PROVE  /\ Makes \/ Refuses => \/ UNCHANGED box
                                \/ /\ box = NoBox /\ box' # NoBox /\ \A p \in Procs : conn[p] = NoBox
                                   /\ \A d \in Callers : step[d] # "touch"
         /\ Misses => \/ UNCHANGED box
                      \/ /\ box' = NoBox /\ \A p \in Procs : conn'[p] = NoBox
                         /\ \A d \in Callers : ~ReliesOnBox(d)
<1>1. ASSUME Makes \/ Refuses, ~UNCHANGED box
      PROVE  /\ box = NoBox /\ box' # NoBox /\ \A p \in Procs : conn[p] = NoBox
             /\ \A d \in Callers : step[d] # "touch"
  <2>1. "replaced" \notin slips' /\ "moved" \notin slips' /\ box = NoBox /\ Start /\ Misled \subseteq slips'
    BY <1>1 DEF Makes, Refuses, Slipped, Slippery
  <2> QED BY <2>1, StartTypes DEF Misled
<1>2. ASSUME Misses, ~UNCHANGED box
      PROVE  box' = NoBox /\ (\A p \in Procs : conn'[p] = NoBox) /\ \A d \in Callers : ~ReliesOnBox(d)
  BY <1>2 DEF Misses, Slipped, Slippery, Relied
<1> QED BY <1>1, <1>2

\* The steps of a caller keep the invariant. The first conjunct is about its process, the
\* others about the caller itself: for the rest nothing changes, but for a container that
\* is started while nobody believes in one.
LEMMA CallerKeeps ==
  ASSUME PoolTypeOK, PoolTypeOK', KeptInv, NEW c \in Callers, Get(c) \/ GoesOn(c), slips \subseteq slips'
  PROVE  KeptInv'
<1> SUFFICES ASSUME 0 <= SureFor, slips' \cap Slippery = {}
             PROVE  Kept'
  BY DEF KeptInv, SureFor, Idle
<1> USE DEF Slipped, provisioner, providers, callers
<1>0. /\ \A p \in Procs : conn[p] # NoBox =>
           /\ box = NoBox \/ conn[p] = box
           /\ since[p] < Keepalive => conn[p] = box /\ age <= since[p] + Latency
      /\ \A d \in Callers : step[d] = "touch" => box = NoBox \/ url[d] = box
      /\ \A d \in Callers : Sure(d) => url[d] = box /\ box # NoBox
      /\ \A d \in Callers : step[d] \in {"alive", "ready"} => age <= lag[d]
      /\ \A d \in Callers : step[d] = "run" => age <= Keepalive - 1 + Latency + (Exec - left[d])
  BY DEF KeptInv, Kept
<1>1. Home[c] \in Procs /\ Keepalive \in Nat \ {0} /\ Latency \in Nat /\ Exec \in Nat /\ Idle \in Nat
  BY PoolAssumption, IdleTypes
<1>t. /\ box \in Boxes \cup {NoBox} /\ age \in Int /\ age' \in Int
      /\ conn \in [Procs -> Boxes \cup {NoBox}] /\ since \in [Procs -> 0..Keepalive]
      /\ step \in [Callers -> Asking \cup {"rest", "run"}] /\ url \in [Callers -> Boxes \cup {NoBox}]
      /\ left \in [Callers -> 0..Exec] /\ lag \in [Callers -> 0..Latency]
  BY <1>1 DEF PoolTypeOK, Untracked
<1>2. ASSUME UNCHANGED <<box, age, conn, since>>,
             \A d \in Callers \ {c} : step'[d] = step[d] /\ url'[d] = url[d] /\ left'[d] = left[d] /\ lag'[d] = lag[d],
             step'[c] = "touch" => box' = NoBox \/ url'[c] = box',
             Sure(c)' => url'[c] = box' /\ box' # NoBox,
             step'[c] \in {"alive", "ready"} => age' <= lag'[c],
             step'[c] = "run" => age' <= Keepalive - 1 + Latency + (Exec - left'[c])
      PROVE  Kept'
  BY <1>0, <1>2 DEF Kept, Sure, SureFor
<1>3. CASE Get(c)
  <2>1. CASE Run(c, conn[Home[c]]) /\ conn[Home[c]] # NoBox /\ since[Home[c]] < Keepalive
    <3>1. conn[Home[c]] = box /\ box # NoBox /\ age <= since[Home[c]] + Latency
      BY <1>0, <1>1, <2>1
    <3>2. age <= Keepalive - 1 + Latency
      BY <1>1, <1>t, <2>1, <3>1
    <3>3. step'[c] = "run" /\ url'[c] = box /\ left'[c] = Exec
      BY <1>1, <1>t, <2>1, <3>1, RunKeeps
    <3> QED BY <1>1, <1>2, <1>3, <1>t, <2>1, <3>1, <3>2, <3>3 DEF Get, Run, To
  <2>2. CASE To(c, "create") /\ UNCHANGED <<url, left>>
    BY <1>2, <1>3, <1>t, <2>2 DEF Get, To, Kept, Sure, SureFor
  <2>3. CASE To(c, "touch") /\ conn[Home[c]] # NoBox /\ url' = [url EXCEPT ![c] = conn[Home[c]]] /\ UNCHANGED left
    BY <1>0, <1>1, <1>2, <1>3, <1>t, <2>3 DEF Get, To, Kept, Sure, SureFor
  <2>4. since[Home[c]] >= Keepalive \/ since[Home[c]] < Keepalive
    BY <1>1, <1>t
  <2> QED BY <1>3, <2>1, <2>2, <2>3, <2>4 DEF Get
<1>4. CASE TouchFinds(c)
  <2>1. CASE Finds /\ To(c, "found") /\ UNCHANGED conn
    BY <1>0, <1>2, <1>4, <1>t, <2>1 DEF TouchFinds, Finds, To, Kept, Sure, SureFor
  <2>2. CASE Misses /\ To(c, "create") /\ conn' = [conn EXCEPT ![Home[c]] = NoBox]
    <3>1. CASE UNCHANGED box
      BY <1>0, <1>1, <1>4, <1>t, <2>2, <3>1 DEF TouchFinds, To, Kept, Sure, SureFor
    <3>2. CASE box' = NoBox /\ (\A p \in Procs : conn'[p] = NoBox) /\ \A d \in Callers : ~ReliesOnBox(d)
      BY <1>0, <1>1, <1>4, <1>t, <2>2, <3>2 DEF TouchFinds, To, Kept, Sure, SureFor, ReliesOnBox
    <3> QED BY <2>2, <3>1, <3>2, BackendKeeps
  <2> QED BY <1>4, <2>1, <2>2 DEF TouchFinds
<1>5. CASE TouchFails(c)
  BY <1>5 DEF TouchFails, Slippery
<1>6. CASE Noted(c)
  <2>1. age' = 0 /\ url[c] = box /\ box # NoBox
    BY <1>0, <1>6 DEF Noted, Kept, Sure, SureFor
  <2>2. \A p \in Procs : 0 <= since[p] + Latency
    BY <1>1, <1>t
  <2>3. \A d \in Callers : 0 <= lag[d] /\ 0 <= Keepalive - 1 + Latency + (Exec - left[d])
    BY <1>1, <1>t
  <2>4. lag'[c] = 0 /\ step'[c] \in {"alive", "ready"}
    BY <1>6, <1>t DEF Noted, To
  <2>5. \A d \in Callers \ {c} : step'[d] = step[d] /\ lag'[d] = lag[d]
    BY <1>6, <1>t DEF Noted, To
  <2> QED BY <1>0, <1>6, <2>1, <2>2, <2>3, <2>4, <2>5 DEF Noted, Kept, Sure, SureFor
<1>7. CASE TouchAnswered(c) \/ CreateAnswered(c)
  <2>1. url[c] = box /\ box # NoBox /\ age <= Latency
    BY <1>0, <1>1, <1>7, <1>t DEF TouchAnswered, CreateAnswered, Kept, Sure, SureFor
  <2>2. step'[c] = "run" /\ url'[c] = box /\ left'[c] = Exec
    BY <1>7, <1>t, <2>1, RunKeeps DEF TouchAnswered, CreateAnswered
  <2>3. age <= Keepalive - 1 + Latency + (Exec - Exec)
    BY <1>1, <1>t, <2>1
  <2>4. \A d \in Callers \ {c} : step'[d] = step[d] /\ url'[d] = url[d] /\ left'[d] = left[d] /\ lag'[d] = lag[d]
    BY <1>7, <1>t DEF TouchAnswered, CreateAnswered, Run, To
  <2>5. UNCHANGED <<box, age>> /\ since'[Home[c]] = 0 /\ conn'[Home[c]] \in {conn[Home[c]], box}
    BY <1>1, <1>7, <1>t, <2>1 DEF TouchAnswered, CreateAnswered
  <2>6. \A p \in Procs \ {Home[c]} : conn'[p] = conn[p] /\ since'[p] = since[p]
    BY <1>7, <1>t DEF TouchAnswered, CreateAnswered
  <2>7. \A p \in Procs : conn'[p] # NoBox =>
          /\ box' = NoBox \/ conn'[p] = box'
          /\ since'[p] < Keepalive => conn'[p] = box' /\ age' <= since'[p] + Latency
    <3>1. age' <= since'[Home[c]] + Latency
      BY <1>1, <1>t, <2>1, <2>5
    <3>2. conn'[Home[c]] # NoBox => conn'[Home[c]] = box'
      BY <1>0, <1>1, <2>1, <2>5
    <3> QED BY <1>0, <2>5, <2>6, <3>1, <3>2
  <2> QED BY <1>0, <2>1, <2>2, <2>3, <2>4, <2>5, <2>7 DEF Kept, Sure, SureFor
<1>8. CASE Create(c)
  <2>1. \A d \in Callers \ {c} : step'[d] = step[d] /\ url'[d] = url[d]
    BY <1>8, <1>t DEF Create, To
  <2>2. step'[c] = "made" /\ url'[c] = box' /\ UNCHANGED <<age, conn, since, left, lag>>
    BY <1>8, <1>t DEF Create, To
  <2>3. CASE UNCHANGED box
    <3>1. box # NoBox
      BY <1>8, <2>3, StartTypes DEF Create, Makes
    <3> QED BY <1>0, <2>1, <2>2, <2>3, <3>1 DEF Kept, Sure, SureFor
  <2>4. CASE /\ box = NoBox /\ box' # NoBox /\ \A p \in Procs : conn[p] = NoBox
             /\ \A d \in Callers : step[d] # "touch"
    BY <1>0, <2>1, <2>2, <2>4 DEF Kept, Sure, SureFor
  <2> QED BY <1>8, <2>3, <2>4, BackendKeeps DEF Create
<1>9. CASE CreateFails(c)
  <2>1. \A d \in Callers \ {c} : step'[d] = step[d]
    BY <1>9, <1>t DEF CreateFails, To
  <2>2. step'[c] = "rest" /\ UNCHANGED <<age, conn, since, url, left, lag>>
    BY <1>9, <1>t DEF CreateFails, To
  <2>3. CASE UNCHANGED box
    BY <1>0, <2>1, <2>2, <2>3 DEF Kept, Sure, SureFor
  <2>4. CASE /\ box = NoBox /\ box' # NoBox /\ \A p \in Procs : conn[p] = NoBox
             /\ \A d \in Callers : step[d] # "touch"
    BY <1>0, <2>1, <2>2, <2>4 DEF Kept, Sure, SureFor
  <2> QED BY <1>9, <2>3, <2>4, BackendKeeps DEF CreateFails
<1>10. CASE CommandEnds(c)
  BY <1>2, <1>10, <1>t DEF CommandEnds, To, Kept, Sure, SureFor
<1> QED BY <1>3, <1>4, <1>5, <1>6, <1>7, <1>8, <1>9, <1>10 DEF GoesOn

\* So do those of a request that was given up: it makes the age no greater.
LEMMA StrayKeeps ==
  ASSUME PoolTypeOK, KeptInv, NEW c \in Callers, StrayGoesOn(c), slips \subseteq slips'
  PROVE  KeptInv'
<1> SUFFICES ASSUME 0 <= SureFor, slips' \cap Slippery = {} PROVE Kept'
  BY DEF KeptInv, SureFor, Idle
<1>0. Kept
  BY DEF KeptInv
<1>1. UNCHANGED <<conn, since, step, url, left, lag>>
  BY DEF StrayGoesOn
<1>2. age' \in {age, 0} /\ (age' # age => UNCHANGED box)
  BY DEF StrayGoesOn
<1>3. UNCHANGED box \/ Misses \/ Makes \/ Refuses
  BY DEF StrayGoesOn, Finds
<1>4. /\ \A p \in Procs : age <= since[p] + Latency => age' <= since[p] + Latency
      /\ \A d \in Callers : age <= lag[d] => age' <= lag[d]
      /\ \A d \in Callers : age <= Keepalive - 1 + Latency + (Exec - left[d])
                              => age' <= Keepalive - 1 + Latency + (Exec - left[d])
  <2>1. Keepalive \in Nat \ {0} /\ Latency \in Nat /\ Exec \in Nat
    BY PoolAssumption
  <2>2. (\A p \in Procs : since[p] \in Nat) /\ \A d \in Callers : lag[d] \in Nat /\ left[d] \in 0..Exec
    BY <2>1 DEF PoolTypeOK
  <2> QED BY <1>2, <2>1, <2>2
<1>5. CASE UNCHANGED box
  BY <1>0, <1>1, <1>4, <1>5 DEF Kept, Sure, SureFor
<1>6. CASE box' = NoBox /\ (\A p \in Procs : conn'[p] = NoBox) /\ \A d \in Callers : ~ReliesOnBox(d)
  BY <1>0, <1>1, <1>4, <1>6 DEF Kept, Sure, SureFor, ReliesOnBox
<1>7. CASE /\ box = NoBox /\ box' # NoBox /\ \A p \in Procs : conn[p] = NoBox
           /\ \A d \in Callers : step[d] # "touch"
  BY <1>0, <1>1, <1>4, <1>7 DEF Kept, Sure, SureFor
<1> QED BY <1>3, <1>5, <1>6, <1>7, BackendKeeps

\* Nobody who is told of the container loses it to the reaper or to a shutdown, and it
\* ages no faster than the time that is counted on the other side.
LEMMA ServiceKeeps ==
  ASSUME PoolTypeOK, PoolTypeOK', KeptInv, slips \subseteq slips',
         (\E p \in Procs : Close(p) \/ Closes(p)) \/ Reaper \/ ProvisionerRestarts \/ Tick
  PROVE  KeptInv'
<1> SUFFICES ASSUME 0 <= SureFor, slips' \cap Slippery = {}
             PROVE  Kept'
  BY DEF KeptInv, SureFor, Idle
<1> USE DEF Slipped, provisioner, providers, callers
<1>0. /\ \A p \in Procs : conn[p] # NoBox =>
           /\ box = NoBox \/ conn[p] = box
           /\ since[p] < Keepalive => conn[p] = box /\ age <= since[p] + Latency
      /\ \A d \in Callers : step[d] = "touch" => box = NoBox \/ url[d] = box
      /\ \A d \in Callers : Sure(d) => url[d] = box /\ box # NoBox
      /\ \A d \in Callers : step[d] \in {"alive", "ready"} => age <= lag[d]
      /\ \A d \in Callers : step[d] = "run" => age <= Keepalive - 1 + Latency + (Exec - left[d])
  BY DEF KeptInv, Kept
<1>1. Keepalive \in Nat \ {0} /\ Latency \in Nat /\ Exec \in Nat /\ Idle \in Nat \ {0} /\ SureFor = Idle - Keepalive - Latency
  BY PoolAssumption, IdleTypes
<1>t. /\ box \in Boxes \cup {NoBox} /\ age \in Int /\ age' \in Int /\ age >= -1
      /\ conn \in [Procs -> Boxes \cup {NoBox}] /\ since \in [Procs -> 0..Keepalive]
      /\ step \in [Callers -> Asking \cup {"rest", "run"}] /\ url \in [Callers -> Boxes \cup {NoBox}]
      /\ left \in [Callers -> 0..Exec] /\ lag \in [Callers -> 0..Latency]
  BY <1>1 DEF PoolTypeOK, Untracked
\* A younger age is within all the bounds.
<1>2. ASSUME age' \in {Untracked, 0, age}
      PROVE  /\ \A p \in Procs : age <= since[p] + Latency => age' <= since[p] + Latency
             /\ \A d \in Callers : age <= lag[d] => age' <= lag[d]
             /\ \A d \in Callers : age <= Keepalive - 1 + Latency + (Exec - left[d])
                                     => age' <= Keepalive - 1 + Latency + (Exec - left[d])
  <2>1. \A p \in Procs : since[p] \in Nat
    BY <1>1, <1>t
  <2>2. \A d \in Callers : lag[d] \in Nat /\ left[d] \in Nat /\ Exec - left[d] >= 0
    BY <1>1, <1>t
  <2> QED BY <1>1, <1>2, <1>t, <2>1, <2>2 DEF Untracked
\* Nobody who relies on the container finds it old enough to be reaped.
<1>3. ASSUME age >= Idle
      PROVE  /\ \A p \in Procs : conn[p] # NoBox => ~(since[p] < Keepalive)
             /\ \A d \in Callers : /\ step[d] \notin {"alive", "ready"}
                                   /\ ~(step[d] = "run" /\ Exec - left[d] <= SureFor)
  <2>1. ASSUME NEW p \in Procs, conn[p] # NoBox, since[p] < Keepalive PROVE FALSE
    BY <1>0, <1>1, <1>3, <1>t, <2>1
  <2>2. ASSUME NEW d \in Callers, step[d] \in {"alive", "ready"} PROVE FALSE
    <3>1. age <= lag[d] /\ lag[d] \in 0..Latency
      BY <1>0, <1>t, <2>2
    <3> QED BY <1>1, <1>3, <1>t, <3>1
  <2>3. ASSUME NEW d \in Callers, step[d] = "run", Exec - left[d] <= SureFor PROVE FALSE
    <3>1. age <= Keepalive - 1 + Latency + (Exec - left[d]) /\ left[d] \in 0..Exec
      BY <1>0, <1>t, <2>3
    <3> QED BY <1>1, <1>3, <1>t, <2>3, <3>1
  <2> QED BY <2>1, <2>2, <2>3
<1>4. ASSUME NEW p \in Procs, Close(p) PROVE conn' \in [Procs -> Boxes \cup {NoBox}] /\ \A q \in Procs : conn'[q] \in {conn[q], NoBox}
  BY <1>4, <1>t DEF Close
<1>5. CASE \E p \in Procs : Close(p)
  BY <1>0, <1>4, <1>5 DEF Close, Kept, Sure, SureFor
<1>6. CASE \E p \in Procs : CloseDeletes(p)
  BY <1>0, <1>6 DEF CloseDeletes, Kept, Sure, SureFor, Slippery, Relied, ReliesOnBox
<1>7. CASE (\E p \in Procs : CloseForgets(p)) \/ ReaperForgets
  BY <1>0, <1>2, <1>7 DEF CloseForgets, ReaperForgets, Forgotten, Kept, Sure, SureFor
<1>8. CASE Collect
  BY <1>0, <1>8 DEF Collect, Kept, Sure, SureFor
<1>9. CASE Reap
  <2>1. CASE UNCHANGED <<box, slips>>
    BY <1>0, <1>9, <2>1 DEF Reap, Kept, Sure, SureFor
  <2>2. CASE box' = NoBox /\ Slipped(IF age < Idle \/ \E c \in Callers : step[c] \in {"found", "made"}
                                     THEN {"raced"} ELSE {})
    <3>1. ~(age < Idle) /\ \A c \in Callers : step[c] \notin {"found", "made"}
      BY <2>2 DEF Slippery
    <3>2. age >= Idle
      BY <1>1, <1>t, <3>1
    <3> QED BY <1>0, <1>3, <1>9, <2>2, <3>1, <3>2 DEF Reap, Kept, Sure, SureFor
  <2> QED BY <1>9, <2>1, <2>2 DEF Reap
<1>10. CASE ProvisionerRestarts
  <2>1. \A c \in Callers : step[c] \notin {"touch", "found", "alive"}
    BY <1>10 DEF ProvisionerRestarts, Slippery
  <2>2. \A c \in Callers : step'[c] \in {step[c], "rest"} /\ left'[c] = left[c]
    BY <1>10, <2>1 DEF ProvisionerRestarts
  <2>3. age' \in {Untracked, 0, age} /\ UNCHANGED <<box, conn, since, url, lag>>
    BY <1>10 DEF ProvisionerRestarts
  <2> QED BY <1>0, <1>2, <2>2, <2>3 DEF Kept, Sure, SureFor
<1>11. CASE Tick
  <2>1. age' <= age + 1 /\ UNCHANGED <<box, conn, step, url>>
    BY <1>1, <1>11, <1>t DEF Tick, Older, Untracked
  <2>2. \A p \in Procs : since'[p] < Keepalive => since[p] < Keepalive /\ since'[p] = since[p] + 1
    <3>1. \A p \in Procs : since'[p] = Older(since[p], Keepalive) /\ since[p] \in Nat
      BY <1>1, <1>11, <1>t DEF Tick
    <3> QED BY <1>1, <3>1 DEF Older, Untracked
  <2>3. \A p \in Procs : since'[p] < Keepalive /\ age <= since[p] + Latency => age' <= since'[p] + Latency
    <3>1. \A p \in Procs : since[p] \in Nat
      BY <1>1, <1>t
    <3> QED BY <1>1, <1>t, <2>1, <2>2, <3>1
  <2>4. \A d \in Callers : step[d] \in {"alive", "ready"} /\ age <= lag[d] => age' <= lag'[d]
    <3>1. \A d \in Callers : lag[d] \in Nat /\ (step[d] \in {"alive", "ready"} => lag'[d] = lag[d] + 1)
      BY <1>1, <1>11, <1>t DEF Tick
    <3> QED BY <1>t, <2>1, <3>1
  <2>5. \A d \in Callers : step[d] = "run" /\ age <= Keepalive - 1 + Latency + (Exec - left[d])
                             => age' <= Keepalive - 1 + Latency + (Exec - left'[d])
    <3>1. \A d \in Callers : left[d] \in Nat /\ (step[d] = "run" => left'[d] = left[d] - 1)
      BY <1>1, <1>11, <1>t DEF Tick
    <3> QED BY <1>1, <1>t, <2>1, <3>1
  <2>6. \A d \in Callers : Sure(d)' => Sure(d)
    <3>1. SureFor' = SureFor /\ SureFor \in Int /\ step' = step
      BY <1>1, <2>1 DEF SureFor, Idle
    <3>2. \A d \in Callers : left[d] \in Nat /\ (step[d] = "run" => left'[d] = left[d] - 1)
      BY <1>1, <1>11, <1>t DEF Tick
    <3> QED BY <1>1, <3>1, <3>2 DEF Sure
  <2> QED BY <1>0, <2>1, <2>2, <2>3, <2>4, <2>5, <2>6 DEF Kept
<1> QED BY <1>5, <1>6, <1>7, <1>8, <1>9, <1>10, <1>11 DEF Closes, Reaper

LEMMA KeptStep == PoolTypeOK /\ KeptInv /\ [PoolNext]_poolVars => KeptInv'
<1> SUFFICES ASSUME PoolTypeOK, KeptInv, [PoolNext]_poolVars PROVE KeptInv'
  OBVIOUS
<1>1. PoolTypeOK' /\ slips \subseteq slips'
  BY PoolTypeStep, SlipStep
<1>2. CASE UNCHANGED poolVars
  BY <1>2 DEF poolVars, KeptInv, Kept, Sure, SureFor, Idle
<1> QED BY <1>1, <1>2, CallerKeeps, StrayKeeps, ServiceKeeps DEF PoolNext

\* No command loses its sandbox before it has run for SureFor, but for the slips that
\* CommandsKept names, whatever the timeouts are.
THEOREM CommandsKeepTheirSandbox == PoolSpec => []CommandsKept
<1>1. PoolTypeOK /\ KeptInv => CommandsKept
  <2> SUFFICES ASSUME PoolTypeOK, KeptInv, NEW c \in Callers, step[c] = "run", Exec - left[c] <= SureFor,
                      slips \cap Slippery = {}
               PROVE  url[c] = box
    BY DEF CommandsKept, Slippery
  <2>1. Exec - left[c] >= 0 /\ Exec - left[c] \in Int /\ SureFor \in Int
    BY PoolAssumption, IdleTypes DEF PoolTypeOK
  <2>2. 0 <= SureFor
    BY <2>1
  <2> QED BY <2>2 DEF KeptInv, Kept, Sure
<1> QED BY <1>1, PoolTypeInit, PoolTypeStep, KeptInit, KeptStep, PTL DEF PoolSpec
=============================================================================
