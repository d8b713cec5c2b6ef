---------------------------- MODULE EpisodeWindows ----------------------------
(***************************************************************************)
(* The training samples of recorded robot episodes: RoboDatasetCore        *)
(* (vitra/datasets/spark0_dataset.py; wuji20, mano45) and its copy         *)
(* EgoVLAInspireDatasetCore (egovla_inspire_dataset.py; inspire12), behind *)
(* FrameDataset (dataset.py), in a trainer and its data loader workers.    *)
(*                                                                         *)
(* A pose is named by the time it was recorded at: a label that says       *)
(* [from |-> 3, to |-> 4] is the motion from state 3 to state 4.  In the   *)
(* recordings action row t holds the target that is state t + 1; the last  *)
(* row repeats the last state and is flagged invalid in the MANO fields.   *)
(***************************************************************************)
EXTENDS Integers, Sequences, FiniteSets, SequencesExt

CONSTANTS
  FileSets,  \* directories to train on: the lengths of their episodes, in order
  Damages,   \* MANO rows flagged invalid: sets of <<episode, row, group>>
  Past, Future, ImagePast, ImageFuture,   \* the window sizes
  MaxOpen,   \* max_open_files
  Procs, Trainer,   \* processes; the one that builds the dataset
  None

Kinds == {"wuji20", "mano45", "inspire12"}

VARIABLES
  kind, declared, \* the representation asked for, the one the statistics declare
  files, damaged, \* the recordings
  alive,      \* processes that hold a copy of the dataset
  owner,      \* _handle_pid of each copy
  handles,    \* _handles of each copy, least recently used first
  normal,     \* the copies that have a gaussian_normalizer
  last        \* what the step before returned, when it was __getitem__

windowVars == <<kind, declared, files, damaged, alive, owner, handles, normal, last>>
recorded == <<kind, declared, files, damaged>>

-----------------------------------------------------------------------------
Episodes == 1..Len(files)

\* validate_episode_file, validate_egovla_episode: two states make a transition.
Acceptable == \A e \in Episodes : files[e] >= 2

\* _validate_statistics_contract, of both files: only MANO statistics have to
\* declare what they are of.  (Those of inspire12 name their action contract,
\* which all of them do and which is left out.)
StatisticsFit == declared = kind \/ (declared = None /\ kind # "mano45")

\* The samples of an episode: MANO recordings leave out the last row.
Samples(e) == IF kind = "mano45" THEN files[e] - 1 ELSE files[e]

\* _cumulative_lengths and __len__.
Cumulative[e \in Nat] == IF e = 0 THEN 0 ELSE Cumulative[e - 1] + Samples(e)
Total == Cumulative[Len(files)]

\* _locate: the episode after those that end at or before the index; a negative
\* index counts from the end.
Locate(i) ==
  LET index == IF i < 0 THEN i + Total ELSE i
      e == Cardinality({d \in Episodes : Cumulative[d] <= index}) + 1
  IN  [episode |-> e, frame |-> index - Cumulative[e - 1]]

-----------------------------------------------------------------------------
Target(e, t) == IF t < files[e] - 1 THEN t + 1 ELSE t

\* Mutant of HasTransition: the terminal action row is used too.
HasActionRow(e, t) == t >= 0 /\ t < files[e]

\* The rows of a window that are labels; the others stay zero and masked.
HasTransition(e, t) == t >= 0 /\ t < files[e] - 1

\* wuji20 and mano45 take pose and hand from action row t, which is shifted
\* already; inspire12 takes the pose from state t + 1 and the hand from row t.
Label(e, t) ==
  [from |-> t, to |-> IF kind = "inspire12" THEN t + 1 ELSE Target(e, t), hand |-> Target(e, t)]

Window(e, f) ==
  [k \in (0 - Past)..Future |-> IF HasTransition(e, f + k) THEN Label(e, f + k) ELSE None]

Clip(t, e) == Min({Max({t, 0}), files[e] - 1})

\* The frames that are read, and whether the mask calls them real.
Images(e, f) ==
  [k \in (0 - ImagePast)..ImageFuture |->
    [shows |-> Clip(f + k, e), real |-> f + k \in 0..(files[e] - 1)]]

\* _mano_row_is_valid over what a sample reads.
ReadsInvalid(e, f) ==
  /\ kind = "mano45"
  /\ \/ <<e, f, "state">> \in damaged
     \/ \E k \in (0 - Past)..Future, g \in {"state", "action"} :
          HasTransition(e, f + k) /\ <<e, f + k, g>> \in damaged

-----------------------------------------------------------------------------
\* _handle: handles of another process are closed and forgotten.
Usable(p) == IF owner[p] = p THEN handles[p] ELSE <<>>

Known(p, e) == {n \in DOMAIN Usable(p) : Usable(p)[n].episode = e}
Place(p, e) == CHOOSE n \in Known(p, e) : TRUE
Open(p, e) == IF Known(p, e) = {} THEN [episode |-> e, by |-> p] ELSE Usable(p)[Place(p, e)]

\* The handle in use goes to the end; one too many drops the first.
Refreshed(p, e) ==
  LET others == IF Known(p, e) = {} THEN Usable(p) ELSE RemoveAt(Usable(p), Place(p, e))
      now == Append(others, Open(p, e))
  IN  IF Len(now) > MaxOpen THEN Tail(now) ELSE now

WindowInit ==
  /\ kind \in Kinds /\ declared \in Kinds \cup {None}
  /\ files \in FileSets /\ damaged \in Damages /\ (kind # "mano45" => damaged = {})
  /\ alive = {} /\ normal = {} /\ last = None
  /\ owner = [p \in Procs |-> None] /\ handles = [p \in Procs |-> <<>>]

\* RoboDatasetCore.__init__, which raises for any other recording.
Build ==
  /\ alive = {} /\ Acceptable /\ StatisticsFit
  /\ alive' = {Trainer}
  /\ last' = None /\ UNCHANGED <<recorded, owner, handles, normal>>

SetStatistics ==
  /\ Trainer \in alive
  /\ normal' = normal \cup {Trainer}
  /\ last' = None /\ UNCHANGED <<recorded, alive, owner, handles>>

\* A worker is forked with everything the trainer has, or gets a pickled copy
\* (__getstate__), which has no handles.
Start(p, forked) ==
  /\ Trainer \in alive /\ p \in Procs \ alive
  /\ alive' = alive \cup {p}
  /\ normal' = IF Trainer \in normal THEN normal \cup {p} ELSE normal \ {p}
  /\ owner' = [owner EXCEPT ![p] = IF forked THEN owner[Trainer] ELSE None]
  /\ handles' = [handles EXCEPT ![p] = IF forked THEN handles[Trainer] ELSE <<>>]
  /\ last' = None /\ UNCHANGED recorded

Exit(p) ==
  /\ p \in alive \ {Trainer}
  /\ alive' = alive \ {p}
  /\ last' = None /\ UNCHANGED <<recorded, owner, handles, normal>>

\* __getitem__ and transform_trajectory: the file is opened before anything can
\* be found wrong with the rows.
Get(p, i) ==
  /\ p \in alive /\ i \in (0 - Total)..(Total - 1)
  /\ LET at == Locate(i)  e == at.episode  f == at.frame
     IN  /\ owner' = [owner EXCEPT ![p] = p]
         /\ handles' = [handles EXCEPT ![p] = Refreshed(p, e)]
         /\ last' = IF ReadsInvalid(e, f) \/ p \notin normal THEN None ELSE
              [proc |-> p, opener |-> Open(p, e).by, index |-> i, at |-> at,
               rows |-> Window(e, f), images |-> Images(e, f)]
  /\ UNCHANGED <<recorded, alive, normal>>

\* The file cannot be opened, or the index is out of range.
GetFails(p) ==
  /\ p \in alive
  /\ owner' = [owner EXCEPT ![p] = p]
  /\ handles' = [handles EXCEPT ![p] = Usable(p)]
  /\ last' = None
  /\ UNCHANGED <<recorded, alive, normal>>

WindowNext ==
  \/ Build \/ SetStatistics
  \/ \E p \in Procs : (\E forked \in BOOLEAN : Start(p, forked)) \/ Exit(p) \/ GetFails(p)
  \/ \E p \in Procs : \E i \in (0 - Total)..(Total - 1) : Get(p, i)

WindowSpec == WindowInit /\ [][WindowNext]_windowVars

-----------------------------------------------------------------------------
\* A label of a sample is the motion from a state of its episode to the next
\* one, shifted once and never past the end, and every such motion in the
\* window is there: the last row of an episode has no label in it.
LabelsAreTransitions ==
  last # None =>
    \A k \in DOMAIN last.rows :
      LET t == last.at.frame + k
      IN  last.rows[k] =
            IF {t, t + 1} \subseteq 0..(files[last.at.episode] - 1)
            THEN [from |-> t, to |-> t + 1, hand |-> t + 1] ELSE None

\* The samples are the frames of the episodes in their order, each of which has
\* one index from the start and one from the end; an image that is not real
\* is a repeated one, and the one given to the model is of the sample's frame.
SamplesNumbered ==
  last # None =>
    LET e == last.at.episode  f == last.at.frame
        before == {s \in Episodes \X (0..Total) :
                     s[2] < Samples(s[1]) /\ (s[1] < e \/ (s[1] = e /\ s[2] < f))}
    IN  /\ f \in 0..(Samples(e) - 1)
        /\ last.index \in {Cardinality(before), Cardinality(before) - Total}
        /\ \A k \in DOMAIN last.images : last.images[k].real <=> last.images[k].shows = f + k
        /\ last.images[0].shows = f

\* A process reads only through handles it opened itself, never with more than
\* max_open_files, nor with two of one file.
HandlesAreOwn ==
  /\ last # None => last.opener = last.proc
  /\ \A p \in Procs :
       /\ Len(handles[p]) <= MaxOpen
       /\ Cardinality({handles[p][n].episode : n \in DOMAIN handles[p]}) = Len(handles[p])

\* What the data loader hands out is right in all these respects.
SamplesAreRight == LabelsAreTransitions /\ SamplesNumbered /\ HandlesAreOwn
=============================================================================
