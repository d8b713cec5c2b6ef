------------------------------ MODULE ModelSetup ------------------------------
(***************************************************************************)
(* What a policy server loads: the constructor of the VITRA model          *)
(* (policy/VITRA/model.py) with utils/checkpoint_resolver.py.              *)
(*                                                                         *)
(* A run directory holds checkpoints, the configuration the run was started*)
(* with and its statistics.  The configuration declares the representation *)
(* and, in newer runs, the digest of the statistics.  The constructor reads*)
(* them one after the other, and some of them again, while training jobs   *)
(* go on and tools rewrite statistics; contents stand for digests.         *)
(***************************************************************************)
EXTENDS Naturals, Sequences, FiniteSetsExt

CONSTANTS
  Representations, \* of "wuji20", "mano45" and "inspire12"
  Steps,     \* global steps of checkpoints
  Contents,  \* contents a statistics file may have
  MaxChanges, \* bound: changes of the disk
  None

\* Where the evaluation may look for the run, in this order: an explicit path
\* key of deploy.yml, the name joined from the arguments, checkpoints/<name>.
Roots == {"explicit", "joined", "verbatim"}
\* Statistics are of a run, or a file of somewhere else.
Places == Roots \cup {"apart"}

\* A configuration; runs that predate the fields have None.
Config == [rep : Representations \cup {None}, sha : Contents \cup {None}]

VARIABLES
  weights,  \* [Roots -> the steps that are saved]
  config,   \* [Roots -> Config or None]
  stats,    \* [Places -> the content of the statistics file there, or None]
  changes,
  stage,    \* "down", "selected", "configured", "bound", "serving"
  plan,     \* what the constructor has resolved so far, or None
  movedOn,  \* history: a run was started or went on since the selection
  rewritten \* history: the chosen statistics changed since they were compared

setupVars == <<weights, config, stats, changes, stage, plan, movedOn, rewritten>>
disk == <<weights, config, stats, changes>>

SetupInit ==
  /\ weights = [r \in Roots |-> {}] /\ config = [r \in Roots |-> None]
  /\ stats = [p \in Places |-> None] /\ changes = 0
  /\ stage = "down" /\ plan = None /\ movedOn = FALSE /\ rewritten = FALSE

-----------------------------------------------------------------------------
(* The disk.                                                               *)

\* A run writes its configuration and statistics when it starts; a mano45 run
\* always has the digest (make_train_config.py).
StartRun(r, rep, c) ==
  /\ config[r] = None
  /\ \E sha \in {None, c} :
       /\ rep = "mano45" => sha = c
       /\ config' = [config EXCEPT ![r] = [rep |-> rep, sha |-> sha]]
  /\ stats' = [stats EXCEPT ![r] = c]
  /\ movedOn' = (stage # "down") /\ UNCHANGED <<weights, rewritten>>

\* A resumed run writes its configuration anew, with the statistics of today.
ResumeRun(r, rep) ==
  /\ config[r] # None /\ stats[r] # None
  /\ config' = [config EXCEPT ![r] = [rep |-> rep, sha |-> stats[r]]]
  /\ movedOn' = (stage # "down") /\ UNCHANGED <<weights, stats, rewritten>>

SaveStep(r, n) ==
  /\ config[r] # None
  /\ weights' = [weights EXCEPT ![r] = @ \cup {n}]
  /\ movedOn' = (stage # "down") /\ UNCHANGED <<config, stats, rewritten>>

\* Statistics are computed again, from other data, or removed.
RewriteStats(p, c) ==
  /\ p \in Roots => config[p] # None
  /\ stats' = [stats EXCEPT ![p] = c]
  /\ rewritten' = (rewritten \/ (stage = "bound" /\ plan.path = p))
  /\ UNCHANGED <<weights, config, movedOn>>

-----------------------------------------------------------------------------
(* The constructor.  What the deployment says is chosen where it is read.  *)

\* candidate_checkpoint_roots: a name that is a path replaces the two
\* name-based candidates; here that path is the "joined" directory's.
Candidates(explicit, isPath) ==
  (IF explicit THEN <<"explicit">> ELSE <<>>)
    \o (IF isPath THEN <<"joined">> ELSE <<"joined", "verbatim">>)

\* The first of a list that is there.
FirstOf(list, there) ==
  LET found == {i \in DOMAIN list : list[i] \in there}
  IN IF found = {} THEN None ELSE list[Min(found)]

\* resolve_checkpoint_root.
Root(list) == FirstOf(list, {r \in Roots : config[r] # None})

\* _resolve_weights: the newest numeric step below the root.
Newest(r) == Max(weights[r])

Select(explicit, isPath) ==
  LET list == Candidates(explicit, isPath)
      r == Root(list)
  IN /\ stage = "down" /\ r # None /\ weights[r] # {}
     /\ plan' = [before |-> {list[i] : i \in {j \in DOMAIN list : \A k \in 1..j : list[k] # r}},
                 root |-> r, step |-> Newest(r), by |-> r, given |-> FALSE, path |-> None,
                 conf |-> None, rep |-> None, stats |-> None]
     /\ stage' = "selected" /\ movedOn' = FALSE /\ rewritten' = FALSE
     /\ UNCHANGED disk

\* _resolve_config_and_statistics: an explicit file that exists, or the run's
\* own; then the statistics that are named, those the configuration names, and
\* those beside the weights.
ConfigOf(c) == IF c # None /\ config[c] # None THEN c ELSE plan.root
StatsOf(p, by) ==
  FirstOf(<<p, by, plan.root>>, {q \in Places : stats[q] # None})

Configure(c, p) ==
  LET by == ConfigOf(c)
  IN /\ stage = "selected" /\ StatsOf(p, by) # None
     /\ plan' = [plan EXCEPT !.by = by, !.given = (p # None), !.path = StatsOf(p, by)]
     /\ stage' = "configured"
     /\ UNCHANGED <<disk, movedOn, rewritten>>

\* _resolve_data_representation: a deployment confirms, it never overrides.
RepOf(conf, rep) ==
  IF conf.rep # None
  THEN IF rep \in {None, conf.rep} THEN conf.rep ELSE None
  ELSE IF rep \in {None, "wuji20"} THEN "wuji20" ELSE None

\* _validate_statistics_identity.
Identified(conf, rep, sha) ==
  /\ {conf.sha, sha} \subseteq {None, stats[plan.path]}
  \* A file that is named to a run without digest has to be the run's own.
  /\ plan.given /\ conf.sha = None => plan.path = plan.by
  /\ rep = "mano45" => conf.sha # None

\* The configuration is opened again.
Bind(rep, sha) ==
  LET conf == config[plan.by]
  IN /\ stage = "configured"
     /\ stats[plan.path] # None
     /\ RepOf(conf, rep) # None /\ Identified(conf, RepOf(conf, rep), sha)
     /\ plan' = [plan EXCEPT !.conf = conf, !.rep = RepOf(conf, rep), !.given = FALSE]
     /\ stage' = "bound"
     /\ UNCHANGED <<disk, movedOn, rewritten>>

\* load_normalizer reads the statistics after they were compared.
Load ==
  /\ stage = "bound" /\ stats[plan.path] # None
  /\ plan' = [plan EXCEPT !.stats = stats[plan.path]]
  /\ stage' = "serving"
  /\ UNCHANGED <<disk, movedOn, rewritten>>

\* A comparison fails, a file is gone, or anything else: there is no server.
Raise ==
  /\ stage \in {"selected", "configured", "bound"}
  /\ stage' = "down" /\ plan' = None /\ movedOn' = FALSE /\ rewritten' = FALSE
  /\ UNCHANGED disk

\* The evaluation is over.
StopServing ==
  /\ stage = "serving"
  /\ stage' = "down" /\ plan' = None /\ movedOn' = FALSE /\ rewritten' = FALSE
  /\ UNCHANGED disk

\* What happens to the disk while a server runs does not concern it.
DiskNext ==
  /\ stage # "serving" /\ UNCHANGED <<stage, plan>>
  /\ changes < MaxChanges /\ changes' = changes + 1
  /\ \/ \E r \in Roots, rep \in Representations \cup {None}, c \in Contents : StartRun(r, rep, c)
     \/ \E r \in Roots, rep \in Representations : ResumeRun(r, rep)
     \/ \E r \in Roots, n \in Steps : SaveStep(r, n)
     \/ \E p \in Places, c \in Contents \cup {None} : RewriteStats(p, c)

SetupNext ==
  \/ DiskNext
  \/ \E explicit, isPath \in BOOLEAN : Select(explicit, isPath)
  \/ \E c \in Roots \cup {None}, p \in Places \cup {None} : Configure(c, p)
  \/ \E rep \in Representations \cup {None}, sha \in Contents \cup {None} : Bind(rep, sha)
  \/ Load \/ Raise \/ StopServing

SetupSpec == SetupInit /\ [][SetupNext]_setupVars
-----------------------------------------------------------------------------
\* What is served, whatever happens to the files while they are read.  It is
\* the first root that exists, with its newest checkpoint and the configuration
\* as it is, unless a run was started or went on meanwhile; in the representation
\* of that configuration, whatever the deployment says; normalized by the
\* statistics the configuration recorded, which a MANO45 run always did, unless
\* the file was rewritten between its digest and its reading; and where none
\* were recorded, by no file but one of the configuration or of the weights.
\* (A deployment may name the configuration of another run than the one of the
\* weights, and nothing compares the two.)
ServedIsOneRun ==
  stage = "serving" =>
    LET conf == plan.conf
    IN /\ ~movedOn =>
            /\ \A r \in plan.before : config[r] = None
            /\ \A n \in weights[plan.root] : n <= plan.step
            /\ conf = config[plan.by]
       /\ plan.rep = IF conf.rep = None THEN "wuji20" ELSE conf.rep
       /\ conf.sha # None /\ ~rewritten => plan.stats = conf.sha
       /\ conf.sha = None => plan.rep # "mano45" /\ plan.path \in {plan.by, plan.root}
=============================================================================
