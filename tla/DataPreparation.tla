--------------------------- MODULE DataPreparation ---------------------------
(***************************************************************************)
(* How recordings become the data root that train.sh accepts: the programs *)
(* of data_scripts.  A root holds links to episodes (TeleData), a manifest *)
(* and statistics, for inspire12 also checksums and a completion marker.   *)
(* They are written one after the other by a pipeline that may stop        *)
(* anywhere, and be started again:                                         *)
(*   process   prepare_vitra_data.py, as process_data.sh runs it           *)
(*   bench     convert_spark0_real_bench.py, through wrappers              *)
(*   inspire   prepare_egovla_inspire12_robot_command_v3.sh                *)
(*   humanoid  prepare_egovla_humanoid_vitra.py, statistics by hand        *)
(*                                                                         *)
(* A digest is what it was taken of.  Recordings are never written.        *)
(***************************************************************************)
EXTENDS Naturals, FiniteSets, FiniteSetsExt

CONSTANTS
  Recordings, \* [id: order of the path, root, task, dir, name, rows, fit, frame]
  Expected,   \* EXPECTED_TASKS, and the episodes of expected_episodes
  MaxStarts,  \* bound: times a pipeline is started
  None

Pipelines == {"process", "bench", "inspire", "humanoid"}
Representations == {"wuji20", "mano45", "inspire12"}
Fresh == {"inspire", "humanoid"}   \* refuse a root that exists

VARIABLES
  pipeline, source,  \* the pipeline of this root; what was recorded so far
  wrappers,          \* the wrapper written for a destination
  tree,              \* what is read at a destination, through links and wrappers
  manifest, stats, sums, marker,
  made,              \* the root exists
  pc, rep, chosen, todo, repair,   \* the run: its episodes, those still to be linked
  starts,
  behind             \* history: the tree changed and no statistics followed

prepVars == <<pipeline, source, wrappers, tree, manifest, stats, sums, marker, made,
              pc, rep, chosen, todo, repair, starts, behind>>

-----------------------------------------------------------------------------
\* The directory below the task is left out: two recordings may be linked, and
\* wrapped, at one place.
Dest(e) == <<e.task, e.name>>
Dests == {Dest(e) : e \in Recordings}
Tree == {<<d, tree[d]>> : d \in {d \in Dests : tree[d] # None}}
Records(S) == {<<Dest(e), e>> : e \in S}

\* discover: where each program looks for episodes.
Found(root) ==
  {e \in source : /\ e.root = root
                  /\ CASE pipeline = "process"  -> e.dir = "data"
                       [] pipeline = "bench"    -> e.dir # "data"
                       [] pipeline = "inspire"  -> e.dir # "deprecated"
                       [] pipeline = "humanoid" -> e.dir = ""}

\* --expert-data-num: the first of each task; --max-episodes: the first of all.
\* Zero is no limit.
Limited(S, n) ==
  {e \in S : n = 0 \/ Cardinality({f \in S : /\ f.id < e.id
                                             /\ pipeline = "process" => f.task = e.task}) < n}

First(S) == CHOOSE e \in S : \A f \in S : e.id <= f.id

\* validate_source: the last MANO row has no target in the Spark0 data ("open"),
\* and the target of a frame that was cut off in the EgoVLA data ("closed").
Sound(e) ==
  /\ e.rows >= 2
  /\ rep = "mano45" => e.fit = IF pipeline = "humanoid" THEN "closed" ELSE "open"

\* What RoboDatasetCore reads.  A wrapper says camera_to_env whatever the
\* recording said; the inspire loader does not ask.
Readable(e) ==
  /\ e.rows >= 2
  /\ rep = "mano45" => e.fit # "torn"
  /\ pipeline = "process" => e.frame = "camera_to_env"

\* The transition after the last MANO state is no sample.
Samples(r, e) == IF r = "mano45" THEN e.rows - 1 ELSE e.rows
Frames(r, records) == MapThenSumSet(LAMBDA p : Samples(r, p[2]), records)

\* What stays as it is when a file of the root is written.
content == <<pipeline, source, wrappers, tree>>
run == <<rep, chosen, todo, repair, starts>>

PrepInit ==
  /\ pipeline \in Pipelines /\ source \in SUBSET Recordings
  /\ wrappers = [d \in Dests |-> None] /\ tree = [d \in Dests |-> None]
  /\ manifest = None /\ stats = None /\ sums = None /\ marker = None /\ made = FALSE
  /\ pc = "idle" /\ rep = None /\ chosen = {} /\ todo = {} /\ repair = FALSE
  /\ starts = 0 /\ behind = FALSE

Record(e) ==
  /\ source' = source \cup {e}
  /\ UNCHANGED <<pipeline, wrappers, tree, manifest, stats, sums, marker, made, pc, run, behind>>

Begin(r, S, stage) ==
  /\ pc = "idle" /\ starts < MaxStarts /\ S # {}
  /\ starts' = starts + 1
  /\ rep' = r /\ chosen' = S /\ todo' = S /\ pc' = stage
  /\ made' = (made \/ stage # "wrap")
  /\ UNCHANGED <<content, manifest, stats, sums, marker, behind>>

\* Mutant of NothingStale: what was prepared before is not looked at.
AnythingStale(S) == TRUE

\* "Use a fresh --data-root (no files were removed)"
NothingStale(S) == {d \in Dests : tree[d] # None} \subseteq {Dest(e) : e \in S}

\* A count that is not as expected and an episode of the tree that was not
\* asked for end the run before it changes anything, and are no step here.
StartProcess(root, r, n, counted, fix) ==
  /\ pipeline = "process" /\ r \in {"wuji20", "mano45"}
  /\ LET S == Limited(Found(root), n)
     IN  (counted => Cardinality(S) = Expected) /\ NothingStale(S) /\ Begin(r, S, "link")
  /\ repair' = fix

StartBench(root, r, n) ==
  /\ pipeline = "bench" /\ r \in {"wuji20", "mano45"}
  /\ Begin(r, Limited(Found(root), n), "wrap") /\ repair' = TRUE

StartFresh(root, n) ==
  /\ pipeline \in Fresh /\ ~made
  /\ pipeline = "inspire" => n = 0
  /\ Begin(IF pipeline = "inspire" THEN "inspire12" ELSE "mano45",
           Limited(Found(root), n), "link")
  /\ repair' = FALSE

-----------------------------------------------------------------------------
\* write_wrapper: in one step, by a rename.  An episode that is linked already
\* is read through its new wrapper from now on.
Wrap ==
  /\ pc = "wrap" /\ todo # {}
  /\ LET e == First(todo)  d == Dest(e)
     IN  /\ wrappers' = [wrappers EXCEPT ![d] = e]
         /\ tree' = IF tree[d] = None THEN tree ELSE [tree EXCEPT ![d] = e]
         /\ todo' = todo \ {e}
  /\ behind' = (behind \/ tree' # tree)
  /\ UNCHANGED <<pipeline, source, manifest, stats, sums, marker, made, pc, rep, chosen, repair, starts>>

\* run_pipeline: all wrappers that are there are prepared, older ones too.
Prepare ==
  /\ pc = "wrap" /\ todo = {}
  /\ LET S == {wrappers[d] : d \in {d \in Dests : wrappers[d] # None}}
     IN  NothingStale(S) /\ chosen' = S /\ todo' = S
  /\ pc' = "link" /\ made' = TRUE
  /\ UNCHANGED <<content, manifest, stats, sums, marker, rep, repair, starts, behind>>

\* The inspire program replaces whatever is there; prepare_vitra_data.py
\* replaces a wrong link when it is told to.
Replaces == pipeline = "inspire" \/ repair

\* destination.unlink(): the place is empty until the link is made.
Unlink ==
  /\ pc = "link" /\ todo # {}
  /\ LET e == First(todo)
     IN  /\ Sound(e) /\ tree[Dest(e)] \notin {None, e} /\ Replaces
         /\ tree' = [tree EXCEPT ![Dest(e)] = None]
  /\ behind' = TRUE
  /\ UNCHANGED <<pipeline, source, wrappers, manifest, stats, sums, marker, made, pc, run>>

\* destination.symlink_to(source), or the link that is there already.
Link ==
  /\ pc = "link" /\ todo # {}
  /\ LET e == First(todo)
     IN  /\ Sound(e) /\ tree[Dest(e)] \in {None, e}
         /\ tree' = [tree EXCEPT ![Dest(e)] = e]
         /\ wrappers' = IF pipeline = "humanoid" THEN [wrappers EXCEPT ![Dest(e)] = e] ELSE wrappers
         /\ todo' = todo \ {e}
  /\ behind' = (behind \/ tree' # tree)
  /\ UNCHANGED <<pipeline, source, manifest, stats, sums, marker, made, pc, rep, chosen, repair, starts>>

\* The inspire program counts after it has linked.
WriteManifest ==
  /\ pc = "link" /\ todo = {}
  /\ pipeline = "inspire" => Cardinality(chosen) = Expected
  /\ manifest' = [rep |-> rep, records |-> Records(chosen), count |-> Cardinality(chosen),
                  frames |-> Frames(rep, Records(chosen))]
  /\ pc' = IF pipeline = "humanoid" THEN "idle" ELSE "statistics"
  /\ UNCHANGED <<content, stats, sums, marker, made, run, behind>>

\* calculate: of all that is in the tree, whatever the manifest says.
WriteStatistics ==
  /\ pc = "statistics" \/ (pc = "idle" /\ pipeline = "humanoid" /\ rep # None)
  /\ Tree # {} /\ \A p \in Tree : Readable(p[2])
  /\ stats' = [rep |-> rep, records |-> Tree, samples |-> Frames(rep, Tree)]
  /\ pc' = IF pipeline = "inspire" THEN "check" ELSE "idle"
  /\ behind' = FALSE
  /\ UNCHANGED <<content, manifest, sums, marker, made, run>>

\* The assertions of the inspire script, with 1903 for Expected.
Contract ==
  /\ manifest.count = Expected /\ Cardinality(Tree) = Expected
  /\ manifest.frames = stats.samples

WriteChecksums ==
  /\ pc = "check" /\ Contract
  /\ sums' = [manifest |-> manifest, stats |-> stats]
  /\ pc' = "mark"
  /\ UNCHANGED <<content, manifest, stats, marker, made, run, behind>>

WriteMarker ==
  /\ pc = "mark"
  /\ marker' = [manifest |-> manifest, stats |-> stats, sums |-> sums]
  /\ pc' = "idle"
  /\ UNCHANGED <<content, manifest, stats, sums, made, run, behind>>

\* A crash, a check that fails, or the end the caller asked for
\* (--skip-statistics, --wrappers-only): nothing is undone.
Stop ==
  /\ pc # "idle"
  /\ pc' = "idle"
  /\ UNCHANGED <<content, manifest, stats, sums, marker, made, run, behind>>

PrepNext ==
  \/ \E e \in Recordings \ source : Record(e)
  \/ \E root \in {e.root : e \in Recordings}, n \in {0, 1} :
       \/ StartFresh(root, n)
       \/ \E r \in Representations :
            \/ \E counted, fix \in BOOLEAN : StartProcess(root, r, n, counted, fix)
            \/ StartBench(root, r, n)
  \/ Wrap \/ Prepare \/ Unlink \/ Link \/ WriteManifest \/ WriteStatistics \/ WriteChecksums
  \/ WriteMarker \/ Stop

PrepSpec == PrepInit /\ [][PrepNext]_prepVars

-----------------------------------------------------------------------------
\* The checks of train.sh for the representation it was asked to train.
Accepts(r) ==
  /\ stats # None /\ manifest # None
  /\ manifest.rep = r /\ stats.rep = r
  /\ r = "inspire12" =>
       /\ sums = [manifest |-> manifest, stats |-> stats]
       /\ marker = [manifest |-> manifest, stats |-> stats, sums |-> sums]
  /\ manifest.count > 0 /\ manifest.frames > 0

\* Training reads the episodes that the manifest lists and the statistics are
\* of, in the number that both say, when it is accepted.  Where a root is
\* never filled twice this holds whatever stopped; elsewhere it holds unless a
\* run that changed the tree was broken off before it had new statistics, which
\* train.sh cannot see.  Even then the programs keep the episodes they speak of in
\* the tree, all but one: prepare_vitra_data.py repairs a link by unlinking it
\* first, and broken off there it leaves a root that train.sh accepts although an
\* episode of its manifest is gone.
AcceptedIsConsistent ==
  \A r \in Representations : Accepts(r) =>
    /\ pipeline \in Fresh \/ ~behind =>
         manifest.records = Tree /\ stats.records = Tree /\ manifest.frames = stats.samples
    /\ pipeline # "process" =>
         \A p \in manifest.records \cup stats.records : tree[p[1]] # None
=============================================================================
