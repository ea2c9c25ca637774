---------------------------- MODULE StudioProject -----------------------------
(***************************************************************************)
(* A video project of video_projects/service.py: the rows of a project,    *)
(* its scenes and its latest generation job, and the handlers that change  *)
(* them.  Every transaction locks the row of the project and compares the  *)
(* revision the client expects: it is one action, and a conflict is no     *)
(* step.  The preview and verification handlers run a transaction, an      *)
(* external call without the lock, and a second transaction, so that they  *)
(* are requests with two steps and other handlers in between.              *)
(***************************************************************************)
EXTENDS Naturals, FiniteSets

CONSTANTS
  Scenes,        \* the scenes a project may start with
  Prompts,
  Requests,      \* preview and verification requests that can be in flight
  NoScene, NoPicture,
  MaxRevision,   \* bound on the changes of a project
  MaxPayload     \* bound on the length of a reorder payload

ASSUME StudioAssumption ==
  /\ MaxRevision \in Nat
  /\ MaxPayload \in Nat
  /\ IsFiniteSet(Scenes)
  /\ NoScene \notin Scenes

VARIABLES
  scene,      \* the rows of video_project_scenes
  anchor,     \* anchor_scene_id
  details,    \* all else a composition is built from, as it alternates
  revision,
  status,
  job,        \* latest_generation_job
  request

projectVars == <<scene, anchor, details, revision, status>>
vars == <<projectVars, job, request>>

PreviewStatus == {"idle", "generating", "verifying", "ready", "failed"}
ProjectStatus == {"draft", "previewing_anchor", "previewing_scenes",
                  "ready_to_render", "rendering", "failed"}
JobStatus == {"pending", "completed", "failed"}
Operations == {"preview_anchor", "preview_scenes", "regenerate", "verify"}

NoJob == [status |-> "none"]
NoRequest == [op |-> "none"]

Existing == DOMAIN scene
Approved(sc, s) == sc[s].status = "ready" /\ sc[s].approved
AllApproved(sc) == \A s \in DOMAIN sc : Approved(sc, s)

(* What the job is given: the cadres, each with its seed image, and the    *)
(* rest of the project.                                                    *)
BuildCompositionSpec ==
  [scenes  |-> [s \in Existing |->
                 [position |-> scene[s].position,
                  prompt   |-> scene[s].prompt,
                  picture  |-> IF Approved(scene, s) THEN scene[s].picture
                                                     ELSE NoPicture]],
   details |-> details]

(* Mutant: a finished render counts whatever has changed since.            *)
DeriveFinishedStatus(current, sc, render) ==
  CASE render = "pending" -> "rendering"
    [] render = "completed" -> "render_complete"
    [] OTHER -> "draft"

(* render_is_stale is TRUE wherever it is asked: a change makes every job  *)
(* older than the project.                                                 *)
DeriveProjectStatus(current, sc, render) ==
  CASE render = "pending" -> "rendering"
    [] render = "failed" -> "failed"
    [] OTHER ->
         IF DOMAIN sc = {} THEN "draft"
         ELSE IF \E s \in DOMAIN sc : sc[s].status = "generating"
           THEN "previewing_scenes"
         ELSE IF AllApproved(sc) THEN "ready_to_render"
         ELSE IF current \in {"previewing_anchor", "previewing_scenes"} THEN current
         ELSE "draft"

(* The first scene is the anchor; a draft project has no scene, and no     *)
(* handler adds one.  create_storyboard_project leaves a draft, too;       *)
(* generate_from_inspiration submits a first job, without pictures, in the *)
(* transaction that creates the project.                                   *)
Init ==
  /\ \E S \in SUBSET Scenes, prompt \in Prompts :
     \E place \in [S -> 0 .. Cardinality(S) - 1] :
       /\ \A s, t \in S : place[s] = place[t] => s = t
       /\ scene = [s \in S |->
            [position |-> place[s], prompt |-> prompt, status |-> "idle",
             picture |-> NoPicture, approved |-> FALSE]]
  /\ anchor \in Existing \cup {NoScene}
  /\ IF Existing = {} THEN anchor = NoScene
     ELSE anchor # NoScene /\ scene[anchor].position = 0
  /\ details = 0
  /\ \/ /\ revision = 0
        /\ status = "draft"
        /\ job = NoJob
     \/ /\ revision = 1
        /\ status = "rendering"
        /\ job = [revision |-> 1, spec |-> BuildCompositionSpec,
                  status |-> "pending", dispatched |-> FALSE]
  /\ request = [r \in Requests |-> NoRequest]

Bump ==
  /\ revision < MaxRevision
  /\ revision' = revision + 1

-----------------------------------------------------------------------------
(* Handlers of one transaction.                                            *)

UpdateProject(a) ==
  /\ Bump
  /\ anchor' = a
  /\ details' = 1 - details
  /\ UNCHANGED <<scene, status, job, request>>

SetScene(sc, s, p) ==
  [sc EXCEPT ![s].prompt = p, ![s].status = "idle",
             ![s].picture = NoPicture, ![s].approved = FALSE]

(* Mutant: an edit that does not count as a change.                        *)
EditSceneQuietly(s, p) ==
  /\ scene' = SetScene(scene, s, p)
  /\ UNCHANGED <<anchor, details, revision, status, job, request>>

(* A new prompt, duration or transition invalidates the preview; the last  *)
(* two leave the prompt as it is.                                          *)
EditScene(s, p) ==
  /\ Bump
  /\ scene' = SetScene(scene, s, p)
  /\ status' = DeriveProjectStatus(status, scene', job.status)
  /\ details' = 1 - details
  /\ UNCHANGED <<anchor, job, request>>

(* Mutant: an approval that does not count as a change.                    *)
ApproveSceneQuietly(s, approval) ==
  /\ approval => scene[s].status = "ready" /\ scene[s].picture # NoPicture
  /\ scene' = [scene EXCEPT ![s].approved = approval]
  /\ UNCHANGED <<anchor, details, revision, status, job, request>>

(* An approval needs a preview that is ready, and may come with a change   *)
(* of other fields of the scene; such a change alone leaves the preview    *)
(* and the approval as they are.                                           *)
ApproveScene(s, approval) ==
  /\ Bump
  /\ approval => scene[s].status = "ready" /\ scene[s].picture # NoPicture
  /\ scene' = [scene EXCEPT ![s].approved = approval]
  /\ status' = DeriveProjectStatus(status, scene', job.status)
  /\ details' \in {details, 1 - details}
  /\ UNCHANGED <<anchor, job, request>>

DescribeScene ==
  /\ Bump
  /\ Existing # {}
  /\ status' = DeriveProjectStatus(status, scene, job.status)
  /\ details' = 1 - details
  /\ UNCHANGED <<scene, anchor, job, request>>

Remaining(s) == [t \in Existing \ {s} |-> scene[t]]

(* Mutant: the gap a scene leaves stays.                                   *)
PositionsAsTheyWere(sc) == sc

RecompactPositions(sc) ==
  [t \in DOMAIN sc |->
    [sc[t] EXCEPT !.position =
      Cardinality({u \in DOMAIN sc : sc[u].position < sc[t].position})]]

SceneAt(sc, position) ==
  LET there == {t \in DOMAIN sc : sc[t].position = position}
  IN  IF there = {} THEN NoScene ELSE CHOOSE t \in there : TRUE

(* Mutant: nothing takes the place of a deleted anchor.                    *)
DeleteSceneOnly(s) ==
  /\ Bump
  /\ Existing # {s}
  /\ scene' = RecompactPositions(Remaining(s))
  /\ UNCHANGED <<anchor, details, status, job, request>>

DeleteScene(s) ==
  /\ Bump
  /\ Existing # {s}
  /\ scene' = RecompactPositions(Remaining(s))
  /\ anchor' = IF anchor = s THEN SceneAt(scene', 0) ELSE anchor
  /\ UNCHANGED <<details, status, job, request>>

(* Mutant: references that do not count as a change.                       *)
AddReferencesQuietly ==
  /\ details' = 1 - details
  /\ UNCHANGED <<scene, anchor, revision, status, job, request>>

(* Captions are not rendered; references are listed in a composition.      *)
CleanTranscript ==
  /\ Bump
  /\ UNCHANGED <<scene, anchor, details, status, job, request>>

AddReferences ==
  /\ Bump
  /\ details' = 1 - details
  /\ UNCHANGED <<scene, anchor, status, job, request>>

(* The payload must name the same set of scenes: one it lists twice takes  *)
(* the later position and leaves a gap at the earlier one.                 *)
LastPlaces(ids, n, place) ==
  \A s \in Existing :
    /\ ids[place[s]] = s
    /\ \A i \in 1 .. n : ids[i] = s => i <= place[s]

ReorderScenes ==
  /\ Bump
  /\ \E n \in 1 .. MaxPayload :
     \E ids \in [1 .. n -> Existing], place \in [Existing -> 1 .. n] :
       /\ LastPlaces(ids, n, place)
       /\ scene' = [s \in Existing |-> [scene[s] EXCEPT !.position = place[s] - 1]]
  /\ UNCHANGED <<anchor, details, status, job, request>>

-----------------------------------------------------------------------------
(* Requests that call the image service between two transactions.          *)

Mark(sc, targets, mark) ==
  [s \in DOMAIN sc |-> IF s \in targets THEN [sc[s] EXCEPT !.status = mark] ELSE sc[s]]

Start(r, op, targets) ==
  /\ request[r] = NoRequest
  /\ request' = [request EXCEPT ![r] =
       [op |-> op, revision |-> revision,
        prompts |-> [s \in targets |-> scene[s].prompt]]]
  /\ UNCHANGED <<anchor, details, revision, status, job>>

PreviewAnchor(r) ==
  /\ anchor # NoScene
  /\ scene' = Mark(scene, {anchor}, "generating")
  /\ Start(r, "preview_anchor", {anchor})

PreviewScenes(r) ==
  LET targets == Existing \ {anchor} IN
  /\ anchor # NoScene
  /\ scene[anchor].picture # NoPicture
  /\ targets # {}
  /\ scene' = Mark(scene, targets, "generating")
  /\ Start(r, "preview_scenes", targets)

RegenerateScene(r, s) ==
  /\ scene' = [scene EXCEPT ![s].status = "generating", ![s].approved = FALSE]
  /\ Start(r, "regenerate", {s})

VerifyScene(r, s) ==
  /\ scene[s].status = "ready"
  /\ scene[s].picture # NoPicture
  /\ scene' = Mark(scene, {s}, "verifying")
  /\ Start(r, "verify", {s})

Targets(r) == DOMAIN request[r].prompts

(* Mutant: it is enough that the scenes are still there.                   *)
TargetsThere(r) == Targets(r) \subseteq Existing

(* The second transaction expects the revision of the first.               *)
Unchallenged(r) == request[r].revision = revision

Forget(r) == request' = [request EXCEPT ![r] = NoRequest]

(* The pictures that came back, each told by the prompt it was made from;  *)
(* a scene of a batch may have none.                                       *)
StorePictures(r, made) ==
  [s \in Existing |->
    IF s \notin Targets(r) THEN scene[s]
    ELSE [scene[s] EXCEPT
           !.status   = IF s \in made THEN "ready" ELSE "failed",
           !.picture  = IF s \in made THEN request[r].prompts[s] ELSE NoPicture,
           !.approved = FALSE]]

(* The status each preview handler passes on as the current one.           *)
CurrentStatus(op) ==
  CASE op = "preview_anchor" -> "previewing_anchor"
    [] op = "preview_scenes" -> "previewing_scenes"
    [] OTHER -> "draft"

FinishPreview(r) ==
  /\ request[r].op \in Operations \ {"verify"}
  /\ Unchallenged(r)
  /\ Bump
  /\ \E made \in SUBSET Targets(r) :
       /\ request[r].op # "preview_scenes" => made = Targets(r)
       /\ scene' = StorePictures(r, made)
  /\ status' = DeriveProjectStatus(CurrentStatus(request[r].op), scene', "none")
  /\ Forget(r)
  /\ UNCHANGED <<anchor, details, job>>

FinishVerify(r) ==
  /\ request[r].op = "verify"
  /\ Unchallenged(r)
  /\ Bump
  /\ scene' = Mark(scene, Targets(r), "ready")
  /\ Forget(r)
  /\ UNCHANGED <<anchor, details, status, job>>

(* When the verifier raises, the status is reset without the lock and      *)
(* whatever the revision.                                                  *)
FailVerify(r) ==
  /\ request[r].op = "verify"
  /\ scene' = Mark(scene, Targets(r), "ready")
  /\ Forget(r)
  /\ UNCHANGED <<anchor, details, revision, status, job>>

(* A conflict in the second transaction, an error of the image service or  *)
(* the end of the process: the marks of the first transaction stay.        *)
Abandon(r) ==
  /\ request[r] # NoRequest
  /\ Forget(r)
  /\ UNCHANGED <<projectVars, job>>

-----------------------------------------------------------------------------
(* Rendering: render_project and recompose_project.                        *)

SubmitRender ==
  /\ Bump
  /\ Existing # {}
  /\ AllApproved(scene)
  /\ job' = [revision |-> revision', spec |-> BuildCompositionSpec,
             status |-> "pending", dispatched |-> FALSE]
  /\ status' = "rendering"
  /\ UNCHANGED <<scene, anchor, details, request>>

(* After the commit; the process may have died before it.                  *)
DispatchJob ==
  /\ job.status = "pending"
  /\ ~job.dispatched
  /\ job' = [job EXCEPT !.dispatched = TRUE]
  /\ UNCHANGED <<projectVars, request>>

(* The generation service, which is not in the repository.                 *)
EndJob ==
  /\ job.status = "pending"
  /\ job.dispatched
  /\ \E end \in {"completed", "failed"} : job' = [job EXCEPT !.status = end]
  /\ UNCHANGED <<projectVars, request>>

Handlers ==
  \/ \E a \in Existing \cup {anchor, NoScene} : UpdateProject(a)
  \/ \E s \in Existing, p \in Prompts : EditScene(s, p)
  \/ \E s \in Existing, approval \in BOOLEAN : ApproveScene(s, approval)
  \/ DescribeScene
  \/ \E s \in Existing : DeleteScene(s)
  \/ CleanTranscript
  \/ AddReferences
  \/ ReorderScenes

RequestSteps ==
  \E r \in Requests :
    \/ PreviewAnchor(r) \/ PreviewScenes(r)
    \/ \E s \in Existing : RegenerateScene(r, s) \/ VerifyScene(r, s)
    \/ FinishPreview(r) \/ FinishVerify(r)
    \/ FailVerify(r) \/ Abandon(r)

Rendering == SubmitRender \/ DispatchJob \/ EndJob

Next == Handlers \/ RequestSteps \/ Rendering

Spec == Init /\ [][Next]_vars
=============================================================================
