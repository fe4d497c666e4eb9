------------------------------ MODULE Provision ------------------------------
(***************************************************************************)
(* apply_deployment of sdme-provision.sh: a container is created on the    *)
(* published runtime, NativeLink is installed in it, and its service is    *)
(* enabled last.  The deployment identity goes into the container once all *)
(* it vouches for is there; until then the intent record on the host is    *)
(* what allows a retry to go on with a container it did not create.        *)
(*                                                                         *)
(* An `apply` is a run of RuntimeImages that found or made the runtime and *)
(* goes on here under the same lock.  start, stop and restart, and an      *)
(* operator removing the container, take no lock and come at any time.     *)
(***************************************************************************)
EXTENDS RuntimeImages

CONSTANT Topologies   \* what a container is created with: limits, binds, ports

Modes == {"plaintext", "mtls"}

VARIABLES con,     \* the container, None or [topo, running]
          inside,  \* what is installed in it
          owner,   \* of the bound state directory: "absent", "root", "service"
          drec,    \* the deployment record of a root
          app      \* the deployment in progress under the root's lock
dvars == <<con, inside, owner, drec, app>>
vars  == <<ivars, dvars>>

\* A deployment identity names the root too, through the bound paths.
Identity == [root : Roots, topo : Topologies, mode : Modes]
Topology(x) == <<x.root, x.topo>>
Container == [topo : Roots \X Topologies, running : BOOLEAN]
ASSUME ContainerAssumption == {None, Partial} \cap Identity = {} /\ None \notin Container

Fresh == [tls |-> None, stage |-> FALSE, config |-> None, env |-> "none",
          identity |-> None, enabled |-> FALSE, active |-> FALSE]
Off   == [pc |-> "idle", want |-> None, install |-> FALSE, outcome |-> "none"]

DInit ==
  /\ Init
  /\ con = None /\ inside = Fresh
  /\ owner = [d \in Roots |-> "absent"]
  /\ drec = [d \in Roots |-> None]
  /\ app = [d \in Roots |-> Off]

want(d)       == app[d].want
Doing(d, pc)  == app[d].pc = pc
Then(d, pc)   == app' = [app EXCEPT ![d].pc = pc]
End(d, how)   == app' = [app EXCEPT ![d].pc = "idle", ![d].outcome = how]

Running == con # None /\ con.running
Up(enabled) == [inside EXCEPT !.active = enabled]

Deploy(d, x) ==
  /\ At(d, "idle") /\ run[d].outcome = "ready" /\ Doing(d, "idle")
  /\ x.root = d
  /\ app' = [app EXCEPT ![d] = [Off EXCEPT !.pc = "decide", !.want = x]]
  /\ UNCHANGED <<ivars, con, inside, owner, drec>>

-----------------------------------------------------------------------------

Credentials(x) == IF x.mode = "mtls" THEN x ELSE None
Expected(d) == con # None /\ con.topo = Topology(want(d)) /\ owner[d] # "absent"

\* validate_complete_deployment: the identity and all it vouches for.
Complete(d) ==
  /\ Expected(d) /\ inside.identity = want(d)
  /\ inside.config = want(d) /\ inside.tls = Credentials(want(d))
  /\ drec[d] \in {None, want(d)}

\* Without an identity: only this very intent, and NativeLink at rest.
Resumable(d) ==
  /\ Expected(d) /\ inside.identity = None /\ drec[d] = want(d)
  /\ ~inside.enabled /\ (Running => ~inside.active)

\* Mutation: a record left behind forbids creating.
CreatableUnrecorded(d) == con = None /\ drec[d] = None

Creatable(d) == con = None /\ drec[d] \in {None, want(d)}

Decide(d) ==
  /\ Doing(d, "decide")
  /\ \/ /\ Complete(d) /\ Then(d, "start") /\ UNCHANGED drec
     \/ /\ Resumable(d)
        /\ app' = [app EXCEPT ![d].pc = "start", ![d].install = TRUE]
        /\ UNCHANGED drec
     \/ /\ Creatable(d)
        /\ drec' = [drec EXCEPT ![d] = want(d)]
        /\ app' = [app EXCEPT ![d].pc = "bind", ![d].install = TRUE]
     \/ /\ ~Complete(d) /\ ~Resumable(d) /\ ~Creatable(d)
        /\ End(d, "refused") /\ UNCHANGED drec
  /\ UNCHANGED <<ivars, con, inside, owner>>

\* Bind sources must be root's before a container is created on them.
MakeBind(d) ==
  /\ Doing(d, "bind")
  /\ IF owner[d] = "service"
     THEN End(d, "refused") /\ UNCHANGED owner
     ELSE Then(d, "create") /\ owner' = [owner EXCEPT ![d] = "root"]
  /\ UNCHANGED <<ivars, con, inside, drec>>

Create(d) ==
  /\ Doing(d, "create")
  /\ IF con # None
     THEN End(d, "failed") /\ UNCHANGED <<con, inside>>
     ELSE /\ con' = [topo |-> Topology(want(d)), running |-> FALSE]
          /\ inside' = Fresh
          /\ Then(d, "start")
  /\ UNCHANGED <<ivars, owner, drec>>

EnsureStarted(d) ==
  /\ Doing(d, "start")
  /\ IF con = None
     THEN End(d, "failed") /\ UNCHANGED <<con, inside>>
     ELSE /\ con' = [con EXCEPT !.running = TRUE]
          /\ inside' = IF Running THEN inside ELSE Up(inside.enabled)
          /\ Then(d, IF app[d].install THEN "tls" ELSE "storage")
  /\ UNCHANGED <<ivars, owner, drec>>

-----------------------------------------------------------------------------
(* Every later step runs a command in the container: it fails if somebody  *)
(* stopped or removed it.                                                  *)

Command(d, pc, Do) ==
  /\ Doing(d, pc)
  /\ IF Running THEN Do ELSE End(d, "failed") /\ UNCHANGED <<inside, owner>>
  /\ UNCHANGED <<ivars, con, drec>>

\* Staged beside its place, verified there, and renamed.
InstallTls(d) == Command(d, "tls",
  /\ IF inside.tls # None \/ want(d).mode = "plaintext"
     THEN /\ IF inside.tls = Credentials(want(d)) THEN Then(d, "assets") ELSE End(d, "failed")
          /\ UNCHANGED inside
     ELSE inside' = [inside EXCEPT !.stage = TRUE] /\ Then(d, "publish tls")
  /\ UNCHANGED owner)

PublishTls(d) == Command(d, "publish tls",
  /\ inside' = [inside EXCEPT !.stage = FALSE, !.tls = Credentials(want(d))]
  /\ Then(d, "assets") /\ UNCHANGED owner)

\* Config, unit and preflight are copied in place, one after the other.
CopyAssets(d) == Command(d, "assets",
  /\ inside' = [inside EXCEPT !.config = Partial]
  /\ Then(d, "copied") /\ UNCHANGED owner)

\* Mutation: the unit is enabled as it is installed.
AssetsCopiedEnabled(d) == Command(d, "copied",
  /\ inside' = [inside EXCEPT !.config = want(d), !.enabled = TRUE]
  /\ Then(d, "storage") /\ UNCHANGED owner)

AssetsCopied(d) == Command(d, "copied",
  /\ inside' = [inside EXCEPT !.config = want(d)]
  /\ Then(d, "storage") /\ UNCHANGED owner)

PrepareStorage(d) == Command(d, "storage",
  /\ owner' = [owner EXCEPT ![d] = "service"]
  /\ Then(d, "env") /\ UNCHANGED inside)

\* Copied, given to root and closed to others in place: an environment that was
\* whole is being rewritten meanwhile, one that never was is torn.
Written(i) == i.env \in {"whole", "rewritten"}
CopyEnvironment(d) == Command(d, "env",
  /\ inside' = [inside EXCEPT !.env = IF Written(inside) THEN "rewritten" ELSE "torn"]
  /\ Then(d, "environment") /\ UNCHANGED owner)

EnvironmentCopied(d) == Command(d, "environment",
  /\ inside' = [inside EXCEPT !.env = "whole"]
  /\ Then(d, IF app[d].install THEN "identity" ELSE "enable") /\ UNCHANGED owner)

PublishIdentity(d) == Command(d, "identity",
  /\ IF inside.identity # None
     THEN End(d, "failed") /\ UNCHANGED inside
     ELSE inside' = [inside EXCEPT !.identity = want(d)] /\ Then(d, "enable")
  /\ UNCHANGED owner)

Enable(d) == Command(d, "enable",
  /\ inside' = [inside EXCEPT !.enabled = TRUE]
  /\ Then(d, "restart") /\ UNCHANGED owner)

Restart(d) == Command(d, "restart",
  /\ inside' = Up(TRUE)
  /\ Then(d, "finish") /\ UNCHANGED owner)

Finish(d) ==
  /\ Doing(d, "finish")
  /\ drec' = [drec EXCEPT ![d] = None]
  /\ End(d, "deployed")
  /\ UNCHANGED <<ivars, con, inside, owner>>

\* A step fails or the run is killed: what it did stays.
Stopped(d) ==
  /\ ~Doing(d, "idle") /\ End(d, "stopped")
  /\ UNCHANGED <<ivars, con, inside, owner, drec>>

DeployStep(d) ==
  \/ Decide(d) \/ MakeBind(d) \/ Create(d) \/ EnsureStarted(d)
  \/ InstallTls(d) \/ PublishTls(d) \/ CopyAssets(d) \/ AssetsCopied(d)
  \/ PrepareStorage(d) \/ CopyEnvironment(d) \/ EnvironmentCopied(d) \/ PublishIdentity(d)
  \/ Enable(d) \/ Restart(d) \/ Finish(d)

-----------------------------------------------------------------------------
(* lifecycle, and the operator.                                            *)

\* Also the host's boot: the container is set to start with it.
LifecycleStart ==
  /\ con # None /\ con' = [con EXCEPT !.running = TRUE]
  /\ inside' = Up(inside.enabled)
  /\ UNCHANGED <<ivars, owner, drec, app>>

LifecycleStop ==
  /\ Running /\ con' = [con EXCEPT !.running = FALSE]
  /\ inside' = Up(FALSE)
  /\ UNCHANGED <<ivars, owner, drec, app>>

Remove ==
  /\ con # None /\ con' = None
  /\ inside' = Fresh
  /\ UNCHANGED <<ivars, owner, drec, app>>

ImageStep ==
  /\ \E d \in Roots :
       \/ Step(d) \/ Fail(d) \/ Kill(d)
       \/ Doing(d, "idle") /\ \E v \in Invocations : Begin(d, v)
  /\ UNCHANGED dvars

DNext ==
  \/ ImageStep
  \/ \E d \in Roots : DeployStep(d) \/ Stopped(d) \/ \E x \in Identity : Deploy(d, x)
  \/ LifecycleStart \/ LifecycleStop \/ Remove

DSpec == DInit /\ [][DNext]_vars

-----------------------------------------------------------------------------
(* Properties. *)

\* NativeLink runs, however often the container is started or stopped while
\* a deployment is half done, only on a whole installation: configuration,
\* credentials, environment and state directory of one identity, on the
\* published runtime.  An apply to a whole deployment rewrites its environment
\* in place, its service enabled: started then, it may run on half of that file.
ServesOnlyComplete ==
  inside.active => /\ Running /\ inside.identity # None
                   /\ con.topo = Topology(inside.identity)
                   /\ inside.config = inside.identity
                   /\ inside.tls = Credentials(inside.identity)
                   /\ Written(inside) /\ owner[inside.identity.root] = "service"
                   /\ Whole(inside.identity.root)

\* Nothing published is lost, under any sequence of runs and kills: no step
\* touches an archive, a filesystem or a runtime that has its provenance, and
\* an identity in a container stays with what it vouches for until the
\* container is removed -- there is no update in place.
PublishedIsFinal ==
  [][/\ PublishedUntouched
     /\ inside.identity # None /\ con' # None =>
          /\ inside'.identity = inside.identity
          /\ inside'.config = inside.config /\ inside'.tls = inside.tls]_vars

\* What an apply says in the end is so.  Refused: the deployment differs from
\* the record, from the container or from its identity, or the container it
\* left a state directory for was removed -- an identical retry never is,
\* wherever the runs before it were stopped.  Deployed: the identity is in the
\* container, the service is enabled, and no record is left.
DeployOutcomeHolds ==
  [][\A d \in Roots : ~Doing(d, "idle") =>
       /\ app'[d].outcome = "refused" =>
            \/ drec[d] \notin {None, want(d)}
            \/ con # None /\ con.topo # Topology(want(d))
            \/ inside.identity \notin {None, want(d)}
            \/ con = None /\ owner[d] = "service"
       /\ app'[d].outcome = "deployed" =>
            /\ drec'[d] = None
            /\ con # None => inside.identity = want(d) /\ inside.enabled]_vars
=============================================================================
