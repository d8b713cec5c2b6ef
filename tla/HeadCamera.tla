------------------------------ MODULE HeadCamera ------------------------------
(***************************************************************************)
(* The head camera of an H1 observation (policy/VITRA/model.py): what the  *)
(* simulator or the robot sends is checked, stretched to the size the model*)
(* was trained with, and completed from a hash-locked calibration profile  *)
(* when it brings no calibration of its own - which only a simulator may do*)
(*                                                                         *)
(* An intrinsic matrix is named by the image size it is right for, a pose  *)
(* by where it comes from.  The four spellings of a field are two here.    *)
(***************************************************************************)
EXTENDS FiniteSets

CONSTANTS
  Sizes,     \* sizes of an image
  Allowed,   \* allowed_runtime_sizes of the profile
  PolicySize, \* _H1_POLICY_IMAGE_HW
  None

Spellings == {"intrinsics", "intrinsic_matrix"}
Modes == {"sim", "debug", "real_world"}
Scopes == {"simulator", "runtime"}

\* A camera: its image, its shape field, its calibration fields.
Camera == [size : Sizes, shape : Sizes \cup {None},
           k : [Spellings -> Sizes \cup {None}], pose : {None, "sent", "profile"}]
Sent == {c \in Camera : c.pose # "profile"}

VARIABLES
  mode, scope, \* EVAL_ENV_TYPE, h1_camera_calibration_scope
  camera,      \* the camera of the observation under preparation
  step,        \* "idle", "received", "sized", "prepared", "refused"
  source       \* history: the camera as it was sent

cameraVars == <<mode, scope, camera, step, source>>

NoCamera == [size |-> PolicySize, shape |-> None, k |-> [s \in Spellings |-> None], pose |-> None]

CameraInit ==
  /\ mode \in Modes /\ scope \in Scopes
  /\ camera = NoCamera /\ source = NoCamera /\ step = "idle"

Receive(c) ==
  /\ step = "idle"
  /\ camera' = c /\ source' = c /\ step' = "received"
  /\ UNCHANGED <<mode, scope>>

-----------------------------------------------------------------------------
Given(c) == {s \in Spellings : c.k[s] # None}

\* Both calibration fields are absent.
Bare(c) == Given(c) = {} /\ c.pose = None

\* _validate_runtime_camera_metadata: one field of each kind, a shape that is
\* the image's, and a principal point inside the image.  Whether a matrix for
\* another size is noticed depends on its values.
Valid(c) ==
  /\ Cardinality(Given(c)) = 1 /\ c.pose # None
  /\ c.shape \in {None, c.size}

Refuse ==
  /\ step' = "refused"
  /\ UNCHANGED <<mode, scope, camera, source>>

\* The numbers of a field are refused: not finite, no rotation, skewed.
Unusable == step \in {"received", "sized"} /\ ~Bare(camera) /\ Refuse

NeedsResize == camera.size # PolicySize /\ camera.size \in Allowed

\* Mutant of Rescaled: the matrix is passed on with the stretched image.
RescaledNot(s) == camera.k[s]

\* _scale_runtime_intrinsics: a matrix that was right for the image is right
\* for the stretched one.
Rescaled(s) ==
  IF camera.k[s] = camera.size THEN PolicySize ELSE camera.k[s]

\* The scaled matrix is stored under "intrinsics" whatever its spelling was.
Resize ==
  /\ step = "received" /\ NeedsResize
  /\ IF ~Bare(camera) /\ ~Valid(camera)
     THEN Refuse
     ELSE /\ camera' =
               [camera EXCEPT
                  !.size = PolicySize, !.shape = PolicySize,
                  !.k["intrinsics"] =
                     IF Bare(camera) THEN None
                     ELSE Rescaled(CHOOSE s \in Given(camera) : TRUE)]
          /\ step' = "sized"
          /\ UNCHANGED <<mode, scope, source>>

KeepSize ==
  /\ step = "received" /\ ~NeedsResize
  /\ step' = "sized"
  /\ UNCHANGED <<mode, scope, camera, source>>

\* _resolve_h1_camera_fallback_policy.
AllowFallback == scope = "simulator" /\ mode \in {"sim", "debug"}

Prepare ==
  /\ step = "sized"
  /\ IF ~Bare(camera)
     THEN IF Valid(camera)
          THEN step' = "prepared" /\ UNCHANGED <<mode, scope, camera, source>>
          ELSE Refuse
     ELSE IF AllowFallback /\ camera.size \in Allowed
     THEN /\ camera' = [camera EXCEPT !.shape = camera.size, !.pose = "profile",
                                      !.k["intrinsics"] = camera.size]
          /\ step' = "prepared" /\ UNCHANGED <<mode, scope, source>>
     ELSE Refuse

Done ==
  /\ step \in {"prepared", "refused"}
  /\ step' = "idle" /\ camera' = NoCamera /\ source' = NoCamera
  /\ UNCHANGED <<mode, scope>>

CameraNext ==
  \/ \E c \in Sent : Receive(c)
  \/ Unusable \/ Resize \/ KeepSize \/ Prepare \/ Done

CameraSpec == CameraInit /\ [][CameraNext]_cameraVars
-----------------------------------------------------------------------------
\* What the model is given is consistent: one intrinsic matrix and one pose,
\* both the observation's own or both of the profile; an allowed image was
\* brought to the size of the training images, and a matrix that was right for
\* the image that was sent is right for the one that is used.  Only a simulator
\* is given the profile's pose.
PreparedIsConsistent ==
  step = "prepared" =>
    /\ Cardinality(Given(camera)) = 1 /\ camera.pose # None
    /\ camera.shape \in {None, camera.size}
    /\ camera.size = (IF source.size \in Allowed THEN PolicySize ELSE source.size)
    /\ LET k == camera.k[CHOOSE s \in Given(camera) : TRUE]
       IN IF camera.pose = "profile"
          THEN /\ Given(source) = {} /\ mode # "real_world" /\ scope # "runtime"
               /\ k = camera.size
          ELSE \E s \in Given(source) : source.k[s] = source.size => k = camera.size
=============================================================================
