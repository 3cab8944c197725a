---------------------------- MODULE RunnerHealth ----------------------------
(***************************************************************************)
(* Is the sandbox provider able to run anything?  One process's answer.    *)
(*                                                                         *)
(* A probe makes a sandbox with a closed network, writes into it, runs a   *)
(* command and stops it.  What it found is kept for cacheTtlMs from its    *)
(* end; whoever asks while a probe is under way waits for that probe.  The *)
(* health route and the admission of repository starts each have a probe   *)
(* of their own, and the route does not wait for ever.                     *)
(***************************************************************************)
EXTENDS Naturals, FiniteSets

CONSTANTS
    Askers,      \* who may ask at once
    Probes,      \* the probes of the process
    KnownTicks,  \* cacheTtlMs
    ProbeTicks,  \* a bound on the time a probe takes
    NoFinding

ASSUME RunnerAssumption == KnownTicks \in Nat \ {0} /\ ProbeTicks \in Nat

VARIABLES
    runner,   \* whether sandboxes can be made and run, and since when they cannot
    probes,   \* [Probes -> the probe under way]
    findings, \* [Probes -> what the last one found, and its age]
    checks    \* [Askers -> what the asker knows]

runnerVars == <<runner, probes, findings, checks>>

DownBound == KnownTicks + ProbeTicks

NoProbe == [pc |-> "none", marker |-> FALSE, age |-> 0]
NoCheck == [pc |-> "idle", probe |-> NoFinding]

Probe == [pc : {"none", "creating", "running", "stopping"}, marker : BOOLEAN, age : 0..ProbeTicks]
Finding == [ready : BOOLEAN, age : 0..KnownTicks]

RunnerTypeOK ==
    /\ runner \in [up : BOOLEAN, down : 0..DownBound]
    /\ probes \in [Probes -> Probe]
    /\ \A p \in Probes : findings[p] = NoFinding \/ findings[p] \in Finding
    /\ checks \in [Askers ->
                     [pc : {"idle", "waiting", "ready", "unavailable", "timeout"},
                      probe : Probes \cup {NoFinding}]]

RunnerInit ==
    /\ runner = [up |-> TRUE, down |-> 0]
    /\ probes = [p \in Probes |-> NoProbe]
    /\ findings = [p \in Probes |-> NoFinding]
    /\ checks = [a \in Askers |-> NoCheck]

\* The provider breaks down and comes back.
RunnerChanges ==
    /\ runner' = [up |-> ~runner.up, down |-> 0]
    /\ UNCHANGED <<probes, findings, checks>>

----------------------------------------------------------------------------
\* Good news does not expire.
KnownMutant(p) == findings[p] # NoFinding /\ (findings[p].age < KnownTicks \/ findings[p].ready)

\* check: what was found is used while it is not older than the TTL, ...
Known(p) == findings[p] # NoFinding /\ findings[p].age < KnownTicks

Answered(p, ready) == [pc |-> IF ready THEN "ready" ELSE "unavailable", probe |-> p]

\* ... a probe that is under way is joined, and only then is one begun.
Check(a, p) ==
    /\ checks[a].pc = "idle"
    /\ IF Known(p)
       THEN /\ checks' = [checks EXCEPT ![a] = Answered(p, findings[p].ready)]
            /\ UNCHANGED probes
       ELSE /\ checks' = [checks EXCEPT ![a] = [pc |-> "waiting", probe |-> p]]
            /\ probes' = IF probes[p].pc = "none"
                         THEN [probes EXCEPT ![p] = [pc |-> "creating", marker |-> FALSE, age |-> 0]]
                         ELSE probes
    /\ UNCHANGED <<runner, findings>>

\* The promise settles: the finding is kept and everyone who waits has it.
EndProbe(p, ready) ==
    /\ probes' = [probes EXCEPT ![p] = NoProbe]
    /\ findings' = [findings EXCEPT ![p] = [ready |-> ready, age |-> 0]]
    /\ checks' = [a \in Askers |->
          IF checks[a] = [pc |-> "waiting", probe |-> p] THEN Answered(p, ready)
          ELSE checks[a]]
    /\ UNCHANGED runner

Advance(p, pc, marker) ==
    /\ probes' = [probes EXCEPT ![p] = [pc |-> pc, marker |-> marker, age |-> probes[p].age]]
    /\ UNCHANGED <<runner, findings, checks>>

ProbeCreated(p) == probes[p].pc = "creating" /\ runner.up /\ Advance(p, "running", FALSE)

\* Without a session there is nothing to stop.
ProbeNotCreated(p) == probes[p].pc = "creating" /\ EndProbe(p, FALSE)

ProbeRan(p) == probes[p].pc = "running" /\ runner.up /\ Advance(p, "stopping", TRUE)

\* A directory or the command fails, or the command prints something else.
ProbeRunFailed(p) == probes[p].pc = "running" /\ Advance(p, "stopping", FALSE)

ProbeStopped(p) == probes[p].pc = "stopping" /\ EndProbe(p, probes[p].marker)

\* A sandbox that cannot be stopped counts as a runner that cannot be used.
ProbeStopFailed(p) == probes[p].pc = "stopping" /\ EndProbe(p, FALSE)

\* runProbe: the health route gives up waiting; the probe goes on and is kept.
CheckTimesOut(a) ==
    /\ checks[a].pc = "waiting" /\ checks[a].probe = "health"
    /\ checks' = [checks EXCEPT ![a] = [pc |-> "timeout", probe |-> "health"]]
    /\ UNCHANGED <<runner, probes, findings>>

CheckUsed(a) == checks' = [checks EXCEPT ![a] = NoCheck]

ProbeStep(p) ==
    \/ ProbeCreated(p) \/ ProbeNotCreated(p)
    \/ ProbeRan(p) \/ ProbeRunFailed(p)
    \/ ProbeStopped(p) \/ ProbeStopFailed(p)

RunnerTick ==
    /\ \A p \in Probes : probes[p].pc # "none" => probes[p].age < ProbeTicks
    /\ runner' = IF runner.up \/ runner.down = DownBound THEN runner
                 ELSE [runner EXCEPT !.down = @ + 1]
    /\ probes' = [p \in Probes |->
          IF probes[p].pc = "none" THEN probes[p] ELSE [probes[p] EXCEPT !.age = @ + 1]]
    /\ findings' = [p \in Probes |->
          IF Known(p) THEN [findings[p] EXCEPT !.age = @ + 1] ELSE findings[p]]
    /\ UNCHANGED checks

----------------------------------------------------------------------------
\* "Ready" is never older than it claims: when an asker learns that the runner is
\* ready, sandboxes could be made and run at some moment within the time one probe and
\* the cache together can last - although the probe may have begun before the asker
\* came, the runner may have broken down since, and the finding may be an old one.
ReadyIsRecent ==
    [][\A a \in Askers :
          checks'[a].pc = "ready" /\ checks[a].pc # "ready" =>
              runner'.up \/ runner'.down < DownBound]_runnerVars
=============================================================================
