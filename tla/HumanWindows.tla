----------------------------- MODULE HumanWindows -----------------------------
(***************************************************************************)
(* One training sample of a human video: EpisodicDatasetCore               *)
(* (vitra/datasets/human_dataset.py) and augmentation_func                 *)
(* (augment_utils.py).  An episode is segmented by the actions of its main *)
(* hand; the other hand has clips of its own.  A sample is an image, the   *)
(* instruction, a window of actions and a state for both hands; it may be  *)
(* mirrored, which makes the left hand the right one.                      *)
(*                                                                         *)
(* Poses are named by their frame.  A part of a sample is the recorded     *)
(* hand that each shown hand is taken from; the wording of a text is the   *)
(* number of the clip it describes.                                        *)
(***************************************************************************)
EXTENDS Integers, Sequences, FiniteSets, FiniteSetsExt

CONSTANTS
  Frames,    \* T, the frames of the episode
  Past, Future,   \* the window of actions
  ClipSets,  \* possible clips of the other hand: sequences of <<start, end>>
  KeptSets,  \* possible kept_frames
  None

Hands == {"left", "right"}
Other(h) == IF h = "left" THEN "right" ELSE "left"
Parts == {"image", "actions", "masks", "text", "state"}

VARIABLES
  stage,    \* "new", "told", "windowed", "loaded", "augmenting", "done", "raised"
  main,     \* anno_type
  clips, kept, \* of the other hand; of each hand
  frame,    \* frame_id
  clip,     \* the clip of the other hand that covers the frame, or None
  wording,  \* the clip whose words are in the instruction, or None
  rows,     \* the actions of each recorded hand
  attempt,  \* failed attempts to read the video
  shown, silent,  \* the sample: its parts; hands whose text was replaced by "None."
  todo, mirror, work, workSilent,   \* augmentation_func: what is left to do, its copies
  blind     \* the state is masked

humanVars == <<stage, main, clips, kept, frame, clip, wording, rows, attempt, shown, silent,
               todo, mirror, work, workSilent, blind>>
episode == <<main, clips, kept>>
drawn == <<frame, clip, wording>>
augmenting == <<todo, mirror, work, workSilent>>

Straight == [h \in Hands |-> h]
Mirrored == [h \in Hands |-> Other(h)]
AsRecorded == [p \in Parts |-> Straight]

-----------------------------------------------------------------------------
\* _window_indices.
Clip(t, r) == Min({Max({t, r[1]}), r[2]})
Outside(k, r) == frame + k < r[1] \/ frame + k > r[2]
Offsets == (0 - Past)..Future

\* The first and last frame that a hand's window may use: those of its clip,
\* or the episode's.
Span(h) ==
  IF h = main \/ clip = None THEN <<0, Frames - 1>>
  ELSE <<clips[clip][1], clips[clip][2] - 1>>

\* _prepare_side_window: the window and one frame after it, which follows the
\* clipped end of the window.
Frame(k, r) == IF k <= Future THEN Clip(frame + k, r) ELSE Clip(Clip(frame + Future, r) + 1, r)

\* kept_extend: the frame after the window is looked at only when another one
\* is outside.
Usable(h, k, r) ==
  /\ Frame(k, r) \in kept[h]
  /\ IF k <= Future THEN ~Outside(k, r)
     ELSE (\E j \in Offsets : Outside(j, r)) => Clip(frame + Future, r) + 1 <= r[2]

\* _make_action_window_vec, "step": from each frame to the one after it.
Window(h) ==
  LET r == Span(h)
  IN  [k \in Offsets |-> [from |-> Frame(k, r), to |-> Frame(k + 1, r),
                          valid |-> Usable(h, k, r) /\ Usable(h, k + 1, r)]]

HumanInit ==
  /\ stage = "new" /\ main \in Hands /\ clips \in ClipSets
  /\ kept \in [Hands -> KeptSets]
  /\ frame = 0 /\ clip = None /\ wording = None
  /\ rows = [h \in Hands |-> None] /\ attempt = 0
  /\ shown = AsRecorded /\ silent = {} /\ blind = FALSE
  /\ todo = <<>> /\ mirror = FALSE /\ work = AsRecorded /\ workSilent = {}

\* _find_matching_texts: half-open ranges.
Matching(f) == {n \in DOMAIN clips : clips[n][1] <= f /\ f < clips[n][2]}

\* _random_select_text: the text of the clip, or a rephrasing, which is looked
\* up by the position of the clip among those that match.
Tell(f) ==
  /\ stage = "new"
  /\ frame' = f
  /\ IF Matching(f) = {} THEN clip' = None /\ wording' = None
     ELSE \E n \in Matching(f) :
            /\ clip' = n
            /\ wording' \in {n, Cardinality({m \in Matching(f) : m <= n})}
  /\ stage' = "told"
  /\ UNCHANGED <<episode, rows, attempt, shown, silent, augmenting, blind>>

\* get_item_frame, step 4: actions and state of both hands.
MakeWindows ==
  /\ stage = "told"
  /\ rows' = [h \in Hands |-> Window(h)]
  /\ stage' = "windowed"
  /\ UNCHANGED <<episode, drawn, attempt, shown, silent, augmenting, blind>>

\* _grab_window_images: after three failures there are no images to stack.
ReadVideo(ok) ==
  /\ stage = "windowed"
  /\ IF ok THEN stage' = "loaded" /\ UNCHANGED attempt
     ELSE /\ attempt' = attempt + 1
          /\ stage' = IF attempt' = 3 THEN "raised" ELSE stage
  /\ UNCHANGED <<episode, drawn, rows, shown, silent, augmenting, blind>>

-----------------------------------------------------------------------------
\* Mutant of Copied: the arrays that were handed over are changed.
CopiedNot == shown' = [shown EXCEPT !["actions"] = work'["actions"], !["masks"] = work'["masks"]]

\* augmentation_func works on deep copies.
Copied == UNCHANGED shown

\* The order of augmentation_func, from the sampling of the view to the state.
Steps == <<"image", "actions", "masks", "silence", "text", "state">>

Augment ==
  /\ stage = "loaded"
  /\ mirror' \in BOOLEAN
  /\ todo' = Steps /\ work' = shown /\ workSilent' = silent /\ stage' = "augmenting"
  /\ UNCHANGED <<episode, drawn, rows, attempt, shown, silent, blind>>

\* apply_text_augmentation: the hand named here is that of the recording.
Silence ==
  /\ Head(todo) = "silence"
  /\ workSilent' \in {workSilent, workSilent \cup {Other(main)}}
  /\ UNCHANGED <<shown, work>>

\* apply_transform_to_text swaps the hands of the sentence.
MirrorPart(p) ==
  /\ Head(todo) = p
  /\ work' = [work EXCEPT ![p] = IF mirror THEN Mirrored ELSE Straight]
  /\ workSilent' = IF p = "text" /\ mirror THEN {Other(h) : h \in workSilent} ELSE workSilent
  /\ Copied

AugmentStep ==
  /\ stage = "augmenting" /\ todo # <<>>
  /\ Silence \/ \E p \in Parts : MirrorPart(p)
  /\ todo' = Tail(todo)
  /\ UNCHANGED <<stage, episode, drawn, rows, attempt, silent, mirror, blind>>

\* The results replace the sample's parts in one assignment.
Augmented ==
  /\ stage = "augmenting" /\ todo = <<>>
  /\ shown' = work /\ silent' = workSilent /\ blind' \in BOOLEAN
  /\ stage' = "done"
  /\ UNCHANGED <<episode, drawn, rows, attempt, augmenting>>

\* Any step may raise - so may the projection of the trajectory before them.
\* The sample is then the centre of the image, its other parts as they were.
AugmentFails ==
  /\ stage = "augmenting"
  /\ blind' \in BOOLEAN /\ stage' = "done"
  /\ UNCHANGED <<episode, drawn, rows, attempt, shown, silent, augmenting>>

NotAugmented ==
  /\ stage = "loaded" /\ stage' = "done"
  /\ UNCHANGED <<episode, drawn, rows, attempt, shown, silent, augmenting, blind>>

\* The next sample, of the same episode, which is cached.
Again ==
  /\ stage \in {"done", "raised"}
  /\ stage' = "new" /\ frame' = 0 /\ clip' = None /\ wording' = None
  /\ rows' = [h \in Hands |-> None] /\ attempt' = 0
  /\ shown' = AsRecorded /\ silent' = {} /\ blind' = FALSE
  /\ todo' = <<>> /\ mirror' = FALSE /\ work' = AsRecorded /\ workSilent' = {}
  /\ UNCHANGED episode

HumanNext ==
  \/ \E f \in 0..(Frames - 1) : Tell(f)
  \/ MakeWindows \/ (\E ok \in BOOLEAN : ReadVideo(ok))
  \/ Augment \/ AugmentStep \/ Augmented \/ AugmentFails \/ NotAugmented \/ Again

HumanSpec == HumanInit /\ [][HumanNext]_humanVars

-----------------------------------------------------------------------------
\* A sample is mirrored in all its parts or in none, however augmentation ends:
\* what is said, done and seen of a hand is of one recorded hand, and only the
\* text of the hand the episode is not about is ever replaced.
HandsAgree ==
  stage = "done" =>
    /\ \A p \in Parts : shown[p] = shown["image"]
    /\ \A h \in silent : shown["text"][h] = Other(main)

\* The actions of a hand that count stay within the clip that its text is of,
\* and those of a window that the recording has and kept all count.
ActionsOfTheClip ==
  \A h \in Hands : rows[h] # None =>
    LET r == Span(h)
    IN  \A k \in Offsets :
          /\ rows[h][k].valid => {rows[h][k].from, rows[h][k].to} \subseteq (kept[h] \cap r[1]..r[2])
          /\ {frame + k, frame + k + 1} \subseteq (kept[h] \cap r[1]..r[2])
               => rows[h][k] = [from |-> frame + k, to |-> frame + k + 1, valid |-> TRUE]

\* The two claims a human sample keeps.
HumanSamplesAreRight == HandsAgree /\ ActionsOfTheClip

\* data.md, text_rephrase: a rephrasing has the frames it describes.  The one
\* that is said may be of another clip.
WordsOfTheClip == wording = clip
=============================================================================
