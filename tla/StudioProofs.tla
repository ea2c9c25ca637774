----------------------------- MODULE StudioProofs -----------------------------
(***************************************************************************)
(* Theorems about a video project, for any scenes, prompts and number of   *)
(* requests in flight: the storyboard stays honest, and the handlers       *)
(* implement the abstract board.                                           *)
(***************************************************************************)
EXTENDS StudioProperties, FiniteSetTheorems, TLAPS

LEMMA StatusType ==
  ASSUME NEW current, NEW sc, NEW render
  PROVE  DeriveProjectStatus(current, sc, render) \in ProjectStatus
  BY DEF DeriveProjectStatus, ProjectStatus

(* A change of the project overtakes every request in flight.              *)
LEMMA Overtaken ==
  ASSUME TypeOK, \A r \in Requests : RequestFresh(r), Bump,
         \A r \in Requests : request'[r] \in {request[r], NoRequest}
  PROVE  \A r \in Requests : RequestFresh(r)'
<1> SUFFICES ASSUME NEW r \in Requests, request'[r] # NoRequest
             PROVE  RequestFresh(r)'
  BY DEF RequestFresh
<1>1. request'[r] = request[r] /\ request[r].revision <= revision
  BY DEF RequestFresh
<1>2. request[r].revision \in Nat /\ revision \in Nat
  BY <1>1 DEF TypeOK, RequestOK
<1> QED
  BY <1>1, <1>2 DEF RequestFresh, Unchallenged, Bump

(* A step that takes no request in or only ends one keeps them well        *)
(* formed.                                                                 *)
LEMMA RequestsKept ==
  ASSUME TypeOK,
         \/ request' = request
         \/ \E r \in Requests : Forget(r)
  PROVE  /\ DOMAIN request' = Requests
         /\ \A r \in Requests : request'[r] \in {request[r], NoRequest}
         /\ \A r \in Requests : request'[r] # NoRequest => RequestOK(r)'
  BY DEF TypeOK, Forget, RequestOK

(***************************************************************************)
(* What remains to be shown of a step that changes the project: its rows.  *)
(***************************************************************************)
Rows == SceneTable(scene, Row) /\ PicturesShowPrompts

LEMMA ChangeKeepsInv ==
  ASSUME StudioInv, Bump, Rows',
         (anchor \in Scenes \cup {NoScene} /\ anchor \in Existing \cup {NoScene})',
         details' \in {details, 1 - details},
         status' \in ProjectStatus,
         (job # NoJob => JobOK)',
         \/ request' = request
         \/ \E r \in Requests : Forget(r)
  PROVE  StudioInv'
<1>1. /\ DOMAIN request' = Requests
      /\ \A r \in Requests : request'[r] \in {request[r], NoRequest}
      /\ \A r \in Requests : (request[r] # NoRequest => RequestOK(r))'
  BY RequestsKept DEF StudioInv
<1>2. TypeOK'
  <2>1. revision' \in Nat /\ details' \in {0, 1}
    BY DEF StudioInv, TypeOK, Bump
  <2> QED
    BY <1>1, <2>1 DEF TypeOK, Rows
<1>3. \A r \in Requests : RequestFresh(r)'
  BY <1>1, Overtaken DEF StudioInv
<1> QED
  BY <1>2, <1>3 DEF StudioInv, Rows

LEMMA InvUpdateProject ==
  ASSUME StudioInv, NEW a \in Existing \cup {anchor, NoScene}, UpdateProject(a)
  PROVE  StudioInv'
<1> USE DEF UpdateProject
<1>1. Rows'
  BY DEF StudioInv, TypeOK, Rows, SceneTable, PicturesShowPrompts, Existing
<1>2. (anchor \in Scenes \cup {NoScene} /\ anchor \in Existing \cup {NoScene})'
  BY DEF StudioInv, TypeOK, SceneTable, Existing
<1> QED
  BY <1>1, <1>2, ChangeKeepsInv DEF StudioInv, TypeOK, JobOK

LEMMA InvEditScene ==
  ASSUME StudioInv, NEW s \in Existing, NEW p \in Prompts, EditScene(s, p)
  PROVE  StudioInv'
<1> USE DEF EditScene
<1>1. /\ DOMAIN scene' = Existing
      /\ \A t \in Existing \ {s} : scene'[t] = scene[t]
      /\ scene'[s] = [position |-> scene[s].position, prompt |-> p, status |-> "idle",
                      picture |-> NoPicture, approved |-> FALSE]
  BY DEF SetScene, Existing, StudioInv, TypeOK, SceneTable, Row
<1>2. Rows'
  BY <1>1 DEF StudioInv, TypeOK, Rows, SceneTable, PicturesShowPrompts, Existing, Row,
     PreviewStatus, SetScene
<1>3. (anchor \in Scenes \cup {NoScene} /\ anchor \in Existing \cup {NoScene})'
  BY <1>1 DEF StudioInv, TypeOK, Existing
<1> QED
  BY <1>2, <1>3, StatusType, ChangeKeepsInv DEF StudioInv, TypeOK, JobOK

LEMMA InvApproveScene ==
  ASSUME StudioInv, NEW s \in Existing, NEW approval \in BOOLEAN,
         ApproveScene(s, approval)
  PROVE  StudioInv'
<1> USE DEF ApproveScene
<1>1. /\ DOMAIN scene' = Existing
      /\ \A t \in Existing \ {s} : scene'[t] = scene[t]
      /\ scene'[s] = [scene[s] EXCEPT !.approved = approval]
  BY DEF Existing, StudioInv, TypeOK, SceneTable
<1>2. Rows'
  BY <1>1 DEF StudioInv, TypeOK, Rows, SceneTable, PicturesShowPrompts, Existing, Row
<1>3. (anchor \in Scenes \cup {NoScene} /\ anchor \in Existing \cup {NoScene})'
  BY <1>1 DEF StudioInv, TypeOK, Existing
<1> QED
  BY <1>2, <1>3, StatusType, ChangeKeepsInv DEF StudioInv, TypeOK, JobOK

(* The handlers that leave scenes and anchor alone.                        *)
LEMMA InvRest ==
  ASSUME StudioInv, DescribeScene \/ CleanTranscript \/ AddReferences
  PROVE  StudioInv'
<1> USE DEF DescribeScene, CleanTranscript, AddReferences
<1>1. Rows'
  BY DEF StudioInv, TypeOK, Rows, SceneTable, PicturesShowPrompts, Existing
<1>2. (anchor \in Scenes \cup {NoScene} /\ anchor \in Existing \cup {NoScene})'
  BY DEF StudioInv, TypeOK, Existing
<1> QED
  BY <1>1, <1>2, StatusType, ChangeKeepsInv DEF StudioInv, TypeOK, JobOK

LEMMA SceneAtType ==
  ASSUME NEW sc, NEW i
  PROVE  SceneAt(sc, i) \in DOMAIN sc \cup {NoScene}
  BY DEF SceneAt

(* Scenes that only move keep their rows sound.                            *)
LEMMA MovedRows ==
  ASSUME StudioInv, NEW S \in SUBSET Existing, NEW pos \in [S -> Nat],
         scene' = [t \in S |-> [scene[t] EXCEPT !.position = pos[t]]]
  PROVE  Rows' /\ Existing' = S
<1>1. \A t \in S : scene[t] \in Row
  BY DEF StudioInv, TypeOK, SceneTable, Existing
<1>2. \A t \in S : /\ scene'[t] \in Row
                    /\ scene'[t].prompt = scene[t].prompt
                    /\ scene'[t].picture = scene[t].picture
                    /\ scene'[t].approved = scene[t].approved
  BY <1>1 DEF Row
<1>3. SceneTable(scene, Row)'
  BY <1>2 DEF SceneTable, StudioInv, TypeOK, Existing
<1> QED
  BY <1>2, <1>3 DEF StudioInv, Rows, PicturesShowPrompts, Existing

LEMMA InvDeleteScene ==
  ASSUME StudioInv, NEW s \in Existing, DeleteScene(s)
  PROVE  StudioInv'
<1> USE DEF DeleteScene
<1> DEFINE S == Existing \ {s}
           below(t) == {u \in S : Remaining(s)[u].position < Remaining(s)[t].position}
           pos == [t \in S |-> Cardinality(below(t))]
<1>1. pos \in [S -> Nat]
  <2>1. IsFiniteSet(Scenes) /\ Existing \subseteq Scenes
    BY StudioAssumption DEF StudioInv, TypeOK, SceneTable, Existing
  <2>2. \A t \in S : Cardinality(below(t)) \in Nat
    BY <2>1, FS_Subset, FS_CardinalityType
  <2> QED
    BY <2>2
<1>2. scene' = [t \in S |-> [scene[t] EXCEPT !.position = pos[t]]]
  <2>1. DOMAIN Remaining(s) = S /\ \A t \in S : Remaining(s)[t] = scene[t]
    BY DEF Remaining
  <2>2. scene' = [t \in S |-> [Remaining(s)[t] EXCEPT !.position = Cardinality(below(t))]]
    BY <2>1 DEF RecompactPositions
  <2> QED
    BY <2>1, <2>2
<1>3. Rows' /\ Existing' = S
  BY <1>1, <1>2, MovedRows
<1>4. (anchor \in Scenes \cup {NoScene} /\ anchor \in Existing \cup {NoScene})'
  BY <1>3, SceneAtType DEF StudioInv, TypeOK, SceneTable, Existing
<1> QED
  BY <1>3, <1>4, ChangeKeepsInv DEF StudioInv, TypeOK, JobOK

LEMMA InvReorderScenes ==
  ASSUME StudioInv, ReorderScenes
  PROVE  StudioInv'
<1>1. PICK n \in 1 .. MaxPayload : \E place \in [Existing -> 1 .. n] :
        scene' = [s \in Existing |-> [scene[s] EXCEPT !.position = place[s] - 1]]
  BY DEF ReorderScenes
<1>2. PICK place \in [Existing -> 1 .. n] :
        scene' = [s \in Existing |-> [scene[s] EXCEPT !.position = place[s] - 1]]
  BY <1>1
<1>3. Rows' /\ Existing' = Existing
  <2> DEFINE before == [t \in Existing |-> place[t] - 1]
  <2>1. before \in [Existing -> Nat]
    OBVIOUS
  <2>2. scene' = [t \in Existing |-> [scene[t] EXCEPT !.position = before[t]]]
    BY <1>2
  <2>3. Existing \in SUBSET Existing
    OBVIOUS
  <2> HIDE DEF before
  <2> QED
    BY <2>1, <2>2, <2>3, MovedRows
<1>4. (anchor \in Scenes \cup {NoScene} /\ anchor \in Existing \cup {NoScene})'
  BY <1>3 DEF StudioInv, TypeOK, ReorderScenes
<1> QED
  BY <1>3, <1>4, ChangeKeepsInv DEF StudioInv, TypeOK, JobOK, ReorderScenes

(***************************************************************************)
(* Requests.  What they change on their way leaves the storyboard as it    *)
(* is: the same scenes, prompts and pictures, and no approval added.       *)
(***************************************************************************)
Touched(s) ==
  /\ scene'[s] \in Row
  /\ scene'[s].position = scene[s].position
  /\ scene'[s].prompt = scene[s].prompt
  /\ scene'[s].picture = scene[s].picture
  /\ scene'[s].approved => scene[s].approved

OnlyTouched == DOMAIN scene' = DOMAIN scene /\ \A s \in Existing : Touched(s)

LEMMA TouchKeepsInv ==
  ASSUME StudioInv, OnlyTouched, SceneTable(scene, Row)',
         UNCHANGED <<anchor, details, revision, status>>,
         (job # NoJob => JobOK)',
         DOMAIN request' = Requests,
         \A r \in Requests : (request[r] # NoRequest => RequestOK(r))',
         \A r \in Requests :
           \/ request'[r] \in {request[r], NoRequest}
           \/ RequestFresh(r)'
  PROVE  StudioInv'
<1>1. TypeOK'
  BY DEF StudioInv, TypeOK
<1>2. PicturesShowPrompts'
  BY DEF OnlyTouched, Touched, StudioInv, PicturesShowPrompts, Existing
<1>3. \A r \in Requests : RequestFresh(r)'
  <2> SUFFICES ASSUME NEW r \in Requests, request'[r] \in {request[r], NoRequest}
               PROVE  RequestFresh(r)'
    OBVIOUS
  <2> QED
    BY DEF OnlyTouched, Touched, StudioInv, RequestFresh, Unchallenged, Targets, Existing
<1>4. (anchor \in Existing \cup {NoScene})'
  BY DEF StudioInv, OnlyTouched, Existing
<1> QED
  BY <1>1, <1>2, <1>3, <1>4 DEF StudioInv

LEMMA MarkTouches ==
  ASSUME StudioInv, NEW targets, NEW mark \in PreviewStatus,
         scene' = Mark(scene, targets, mark)
  PROVE  OnlyTouched /\ SceneTable(scene, Row)'
<1>1. DOMAIN scene' = DOMAIN scene
  BY DEF Mark
<1>2. ASSUME NEW s \in Existing
      PROVE  Touched(s)
  <2>1. scene[s] \in Row
    BY DEF StudioInv, TypeOK, SceneTable, Existing
  <2>2. scene'[s] \in {scene[s], [scene[s] EXCEPT !.status = mark]}
    BY DEF Mark, Existing
  <2> QED
    BY <2>1, <2>2 DEF Touched, Row
<1>3. SceneTable(scene, Row)'
  <2>1. scene' = [s \in DOMAIN scene |-> scene'[s]]
    BY DEF Mark
  <2> QED
    BY <1>1, <1>2, <2>1 DEF Touched, StudioInv, TypeOK, SceneTable, Existing
<1> QED
  BY <1>1, <1>2, <1>3 DEF OnlyTouched

(* A request takes the prompts of the scenes it is about.                  *)
LEMMA StartKeepsRequests ==
  ASSUME StudioInv, NEW r \in Requests, NEW op \in Operations,
         NEW targets \in SUBSET Existing, Start(r, op, targets), OnlyTouched
  PROVE  /\ DOMAIN request' = Requests
         /\ \A q \in Requests : (request[q] # NoRequest => RequestOK(q))'
         /\ \A q \in Requests :
              \/ request'[q] \in {request[q], NoRequest}
              \/ RequestFresh(q)'
<1> USE DEF Start
<1>1. request'[r] = [op |-> op, revision |-> revision,
                     prompts |-> [s \in targets |-> scene[s].prompt]]
  BY DEF StudioInv, TypeOK
<1>2. \A q \in Requests \ {r} : request'[q] = request[q]
  BY DEF StudioInv, TypeOK
<1>3. RequestOK(r)'
  BY <1>1 DEF StudioInv, TypeOK, RequestOK, SceneTable, Existing, Row
<1>4. RequestFresh(r)'
  BY <1>1 DEF RequestFresh, Unchallenged, Targets, StudioInv, TypeOK, OnlyTouched, Touched,
     Existing
<1>5. \A q \in Requests \ {r} : (request[q] # NoRequest => RequestOK(q))'
  BY <1>2 DEF StudioInv, TypeOK, RequestOK
<1>6. DOMAIN request' = Requests
  BY DEF StudioInv, TypeOK
<1> QED
  BY <1>2, <1>3, <1>4, <1>5, <1>6

LEMMA StartTouches ==
  ASSUME StudioInv, NEW r \in Requests,
         \/ PreviewAnchor(r)
         \/ PreviewScenes(r)
         \/ \E s \in Existing : RegenerateScene(r, s) \/ VerifyScene(r, s)
  PROVE  /\ OnlyTouched
         /\ SceneTable(scene, Row)'
         /\ \E op \in Operations, targets \in SUBSET Existing : Start(r, op, targets)
<1> USE DEF Operations, PreviewStatus
<1>1. CASE PreviewAnchor(r)
  <2>1. anchor \in Existing
    BY <1>1 DEF StudioInv, PreviewAnchor
  <2> QED
    BY <1>1, <2>1, MarkTouches DEF PreviewAnchor
<1>2. CASE PreviewScenes(r)
  <2>1. Existing \ {anchor} \in SUBSET Existing
    OBVIOUS
  <2> QED
    BY <1>2, <2>1, MarkTouches DEF PreviewScenes
<1>3. ASSUME NEW s \in Existing, RegenerateScene(r, s)
      PROVE  /\ OnlyTouched
             /\ SceneTable(scene, Row)'
             /\ Start(r, "regenerate", {s})
  <2>1. /\ DOMAIN scene' = Existing
        /\ \A t \in Existing : scene[t] \in Row
        /\ \A t \in Existing \ {s} : scene'[t] = scene[t]
        /\ scene'[s] = [scene[s] EXCEPT !.status = "generating", !.approved = FALSE]
    BY <1>3 DEF RegenerateScene, Existing, StudioInv, TypeOK, SceneTable
  <2>2. \A t \in Existing \ {s} : Touched(t)
    BY <2>1 DEF Touched
  <2>3. Touched(s)
    BY <2>1 DEF Touched, Row, PreviewStatus
  <2>4. \A t \in Existing : Touched(t)
    BY <2>2, <2>3
  <2>5. scene' = [t \in Existing |-> scene'[t]]
    BY <1>3, <2>1 DEF RegenerateScene, Existing, StudioInv, TypeOK, SceneTable
  <2> QED
    BY <1>3, <2>1, <2>4, <2>5 DEF OnlyTouched, Touched, Existing, SceneTable, StudioInv, TypeOK,
       RegenerateScene
<1>4. ASSUME NEW s \in Existing, VerifyScene(r, s)
      PROVE  /\ OnlyTouched
             /\ SceneTable(scene, Row)'
             /\ Start(r, "verify", {s})
  BY <1>4, MarkTouches DEF VerifyScene
<1> QED
  BY <1>1, <1>2, <1>3, <1>4

LEMMA InvStart ==
  ASSUME StudioInv, NEW r \in Requests,
         \/ PreviewAnchor(r)
         \/ PreviewScenes(r)
         \/ \E s \in Existing : RegenerateScene(r, s) \/ VerifyScene(r, s)
  PROVE  StudioInv'
<1>1. /\ OnlyTouched
      /\ SceneTable(scene, Row)'
  BY StartTouches
<1>2. PICK op \in Operations, targets \in SUBSET Existing : Start(r, op, targets)
  BY StartTouches
<1>3. (job # NoJob => JobOK)'
  BY <1>2 DEF Start, StudioInv, TypeOK, JobOK
<1>4. UNCHANGED <<anchor, details, revision, status>>
  BY <1>2 DEF Start
<1> QED
  BY <1>1, <1>2, <1>3, <1>4, StartKeepsRequests, TouchKeepsInv

LEMMA TouchedRows ==
  ASSUME StudioInv, OnlyTouched, SceneTable(scene, Row)'
  PROVE  Rows' /\ Existing' = Existing
  BY DEF StudioInv, Rows, OnlyTouched, Touched, PicturesShowPrompts, Existing

(***************************************************************************)
(* The ends of a request.  What it brings is for the prompts the scenes    *)
(* still have, since nothing overtook it.                                  *)
(***************************************************************************)
LEMMA InvFinishPreview ==
  ASSUME StudioInv, NEW r \in Requests, FinishPreview(r)
  PROVE  StudioInv'
<1> USE DEF FinishPreview
<1>1. PICK made \in SUBSET Targets(r) : scene' = StorePictures(r, made)
  OBVIOUS
<1>2. request[r] # NoRequest
  BY DEF Operations, NoRequest
<1>3. \A s \in Targets(r) : s \in Existing /\ request[r].prompts[s] = scene[s].prompt
  BY <1>2 DEF StudioInv, RequestFresh
<1>4. ASSUME NEW s \in Existing
      PROVE  /\ scene'[s] \in Row
             /\ scene'[s].picture # NoPicture => scene'[s].picture = scene'[s].prompt
             /\ scene'[s].approved => scene'[s].picture # NoPicture
  <2>1. scene[s] \in Row
    BY DEF StudioInv, TypeOK, SceneTable, Existing
  <2>2. CASE s \notin Targets(r)
    <3>1. scene'[s] = scene[s]
      BY <1>1, <2>2 DEF StorePictures
    <3> QED
      BY <3>1, <2>1 DEF StudioInv, PicturesShowPrompts
  <2>3. CASE s \in made
    <3>1. scene'[s] = [scene[s] EXCEPT !.status = "ready",
                         !.picture = request[r].prompts[s], !.approved = FALSE]
      BY <1>1, <2>3 DEF StorePictures
    <3> QED
      BY <3>1, <2>1, <2>3, <1>3 DEF Row, PreviewStatus
  <2>4. CASE s \in Targets(r) \ made
    <3>1. scene'[s] = [scene[s] EXCEPT !.status = "failed",
                         !.picture = NoPicture, !.approved = FALSE]
      BY <1>1, <2>4 DEF StorePictures
    <3> QED
      BY <3>1, <2>1 DEF Row, PreviewStatus
  <2> QED
    BY <2>2, <2>3, <2>4
<1>5. Rows' /\ Existing' = Existing
  <2>1. scene' = [s \in Existing |-> scene'[s]]
    BY <1>1 DEF StorePictures
  <2>2. SceneTable(scene, Row)'
    BY <1>4, <2>1 DEF SceneTable, StudioInv, TypeOK, Existing
  <2> QED
    BY <1>4, <2>1, <2>2 DEF Rows, PicturesShowPrompts, Existing
<1>6. (anchor \in Scenes \cup {NoScene} /\ anchor \in Existing \cup {NoScene})'
  BY <1>5 DEF StudioInv, TypeOK
<1> QED
  BY <1>5, <1>6, StatusType, ChangeKeepsInv DEF StudioInv, TypeOK, JobOK

LEMMA InvFinishVerify ==
  ASSUME StudioInv, NEW r \in Requests, FinishVerify(r)
  PROVE  StudioInv'
<1>1. Rows' /\ Existing' = Existing
  BY MarkTouches, TouchedRows DEF FinishVerify, PreviewStatus
<1>2. (anchor \in Scenes \cup {NoScene} /\ anchor \in Existing \cup {NoScene})'
  BY <1>1 DEF FinishVerify, StudioInv, TypeOK
<1> QED
  BY <1>1, <1>2, ChangeKeepsInv DEF FinishVerify, StudioInv, TypeOK, JobOK

(* FailVerify and Abandon touch the rows at most.                          *)
LEMMA EndTouches ==
  ASSUME StudioInv, NEW r \in Requests, FailVerify(r) \/ Abandon(r)
  PROVE  OnlyTouched /\ SceneTable(scene, Row)'
<1>1. CASE FailVerify(r)
  BY <1>1, MarkTouches DEF FailVerify, PreviewStatus
<1>2. CASE Abandon(r)
  BY <1>2 DEF Abandon, projectVars, OnlyTouched, Touched, StudioInv, TypeOK, SceneTable, Existing
<1> QED
  BY <1>1, <1>2

LEMMA InvEnd ==
  ASSUME StudioInv, NEW r \in Requests, FailVerify(r) \/ Abandon(r)
  PROVE  StudioInv'
<1>1. OnlyTouched /\ SceneTable(scene, Row)'
  BY EndTouches
<1>2. /\ DOMAIN request' = Requests
      /\ \A q \in Requests : request'[q] \in {request[q], NoRequest}
      /\ \A q \in Requests : (request[q] # NoRequest => RequestOK(q))'
  BY RequestsKept DEF FailVerify, Abandon, StudioInv
<1>3. UNCHANGED <<anchor, details, revision, status, job>>
  BY DEF FailVerify, Abandon, projectVars
<1>4. (job # NoJob => JobOK)'
  BY <1>3 DEF StudioInv, TypeOK, JobOK
<1> QED
  BY <1>1, <1>2, <1>3, <1>4, TouchKeepsInv

(***************************************************************************)
(* Rendering.                                                              *)
(***************************************************************************)
LEMMA SpecType ==
  ASSUME TypeOK
  PROVE  /\ SceneTable(BuildCompositionSpec.scenes, Cadre)
         /\ BuildCompositionSpec.details \in {0, 1}
  BY DEF BuildCompositionSpec, TypeOK, SceneTable, Cadre, Row, Existing

LEMMA InvSubmitRender ==
  ASSUME StudioInv, SubmitRender
  PROVE  StudioInv'
<1> USE DEF SubmitRender
<1>1. Rows' /\ Existing' = Existing
  BY DEF StudioInv, TypeOK, Rows, SceneTable, PicturesShowPrompts, Existing
<1>2. (anchor \in Scenes \cup {NoScene} /\ anchor \in Existing \cup {NoScene})'
  BY <1>1 DEF StudioInv, TypeOK
<1>3. JobOK'
  <2>1. revision' \in Nat
    BY DEF StudioInv, TypeOK, Bump
  <2>2. job' = [revision |-> revision', spec |-> BuildCompositionSpec,
                status |-> "pending", dispatched |-> FALSE]
    OBVIOUS
  <2> QED
    BY <2>1, <2>2, SpecType DEF StudioInv, JobOK, SceneTable, JobStatus
<1>4. status' \in ProjectStatus
  BY DEF ProjectStatus
<1> QED
  BY <1>1, <1>2, <1>3, <1>4, ChangeKeepsInv DEF StudioInv, TypeOK

(* Progress of a job concerns nothing else.                                *)
LEMMA JobProgress ==
  ASSUME StudioInv, DispatchJob \/ EndJob
  PROVE  /\ UNCHANGED <<projectVars, request>>
         /\ job # NoJob /\ job' # NoJob
         /\ job'.revision = job.revision /\ job'.spec = job.spec
         /\ JobOK'
<1>1. job # NoJob
  BY DEF DispatchJob, EndJob, NoJob
<1>2. JobOK
  BY <1>1 DEF StudioInv, TypeOK
<1>3. CASE DispatchJob
  <2>1. job' = [job EXCEPT !.dispatched = TRUE] /\ UNCHANGED <<projectVars, request>>
    BY <1>3 DEF DispatchJob
  <2> QED
    BY <1>1, <1>2, <2>1, <1>3 DEF DispatchJob, JobOK, NoJob, SceneTable
<1>4. CASE EndJob
  BY <1>1, <1>2, <1>4 DEF EndJob, JobOK, NoJob, SceneTable, JobStatus
<1> QED
  BY <1>1, <1>3, <1>4

LEMMA InvJob ==
  ASSUME StudioInv, DispatchJob \/ EndJob
  PROVE  StudioInv'
<1>1. UNCHANGED <<projectVars, request>> /\ JobOK'
  BY JobProgress
<1>2. TypeOK'
  BY <1>1 DEF StudioInv, TypeOK, projectVars, SceneTable, RequestOK
<1>3. \A r \in Requests : RequestFresh(r)'
  BY <1>1 DEF StudioInv, projectVars, RequestFresh, Unchallenged, Targets, Existing
<1>4. PicturesShowPrompts' /\ (anchor \in Existing \cup {NoScene})'
  BY <1>1 DEF StudioInv, projectVars, PicturesShowPrompts, Existing
<1> QED
  BY <1>2, <1>3, <1>4 DEF StudioInv

LEMMA InvInit == Init => StudioInv
<1> SUFFICES ASSUME Init PROVE StudioInv
  OBVIOUS
<1> USE DEF Init
<1>1. PICK S \in SUBSET Scenes, prompt \in Prompts :
     \E place \in [S -> 0 .. Cardinality(S) - 1] :
       /\ \A s, t \in S : place[s] = place[t] => s = t
       /\ scene = [s \in S |->
            [position |-> place[s], prompt |-> prompt, status |-> "idle",
             picture |-> NoPicture, approved |-> FALSE]]
  OBVIOUS
<1>2. PICK place \in [S -> 0 .. Cardinality(S) - 1] :
       /\ \A s, t \in S : place[s] = place[t] => s = t
       /\ scene = [s \in S |->
            [position |-> place[s], prompt |-> prompt, status |-> "idle",
             picture |-> NoPicture, approved |-> FALSE]]
  BY <1>1
<1>3. \A s \in S : place[s] \in Nat
  OBVIOUS
<1>4. SceneTable(scene, Row)
  BY <1>2, <1>3 DEF SceneTable, Row, PreviewStatus
<1>5. PicturesShowPrompts
  BY <1>2 DEF PicturesShowPrompts, Existing
<1>6. anchor \in Scenes \cup {NoScene} /\ anchor \in Existing \cup {NoScene}
  BY <1>4 DEF SceneTable, Existing
<1>7. DOMAIN request = Requests /\ \A r \in Requests : request[r] = NoRequest
  OBVIOUS
<1>8. revision \in Nat /\ details \in {0, 1} /\ status \in ProjectStatus
  BY DEF ProjectStatus
<1>9. job # NoJob => JobOK
  <2> SUFFICES ASSUME job = [revision |-> 1, spec |-> BuildCompositionSpec,
                             status |-> "pending", dispatched |-> FALSE]
               PROVE  JobOK
    BY <1>7
  <2>1. SceneTable(BuildCompositionSpec.scenes, Cadre) /\ BuildCompositionSpec.details \in {0, 1}
    BY <1>4, <1>8 DEF BuildCompositionSpec, SceneTable, Cadre, Row, Existing
  <2> QED
    BY <2>1 DEF JobOK, JobStatus
<1> QED
  BY <1>4, <1>5, <1>6, <1>7, <1>8, <1>9 DEF StudioInv, TypeOK, RequestFresh

(* Every step keeps the invariant.                                         *)
LEMMA InvStep ==
  ASSUME StudioInv, [Next]_vars
  PROVE  StudioInv'
<1>1. CASE Handlers
  BY <1>1, InvUpdateProject, InvEditScene, InvApproveScene, InvDeleteScene, InvReorderScenes,
     InvRest DEF Handlers
<1>2. CASE RequestSteps
  BY <1>2, InvStart, InvFinishPreview, InvFinishVerify, InvEnd DEF RequestSteps
<1>3. CASE Rendering
  BY <1>3, InvSubmitRender, InvJob DEF Rendering
<1>4. CASE UNCHANGED vars
  BY <1>4 DEF vars, projectVars, StudioInv, TypeOK, SceneTable, JobOK, RequestOK,
     PicturesShowPrompts, RequestFresh, Unchallenged, Targets, Existing
<1> QED
  BY <1>1, <1>2, <1>3, <1>4 DEF Next

(* No request that was overtaken can store a picture, whatever comes in    *)
(* between its two transactions: types, pictures and requests in flight    *)
(* stay sound.                                                             *)
THEOREM StudioInvariant == Spec => []StudioInv
  BY InvInit, InvStep, PTL DEF Spec

(* Every row has the shape its readers expect, always.                     *)
THEOREM StudioTypes == Spec => []TypeOK
<1>1. StudioInv => TypeOK
  BY DEF StudioInv
<1> QED
  BY <1>1, StudioInvariant, PTL

(* What is shown, approved and given to a render is a picture of the very  *)
(* prompt beside it.                                                       *)
THEOREM PicturesHonest == Spec => []PicturesShowPrompts
<1>1. StudioInv => PicturesShowPrompts
  BY DEF StudioInv
<1> QED
  BY <1>1, StudioInvariant, PTL

(***************************************************************************)
(* The project implements the board.                                       *)
(***************************************************************************)
LEMMA StoryboardHonest ==
  ASSUME StudioInv
  PROVE  Board!Honest(Storyboard)
  BY DEF StudioInv, PicturesShowPrompts, Storyboard, Board!Honest

(* A change of the project that submits no job edits the board.            *)
LEMMA ChangeEdits ==
  ASSUME StudioInv', Bump, UNCHANGED job
  PROVE  Board!Edit
<1>1. Board!Honest(Storyboard')
  BY StoryboardHonest DEF StudioInv, PicturesShowPrompts, Storyboard, Board!Honest
<1> QED
  BY <1>1 DEF Board!Edit, Bump

(* What only touches the rows is invisible on the board.                   *)
LEMMA TouchHidden ==
  ASSUME OnlyTouched, UNCHANGED <<details, revision, job>>
  PROVE  UNCHANGED Board!vars
<1>1. Storyboard' = Storyboard
  BY DEF OnlyTouched, Touched, Storyboard, Existing
<1> QED
  BY <1>1 DEF Board!vars

LEMMA SubmitRenders ==
  ASSUME StudioInv, SubmitRender
  PROVE  Board!Render
<1> USE DEF SubmitRender
<1>1. \A s \in Existing : Approved(scene, s) /\ scene[s].picture # NoPicture
  BY DEF AllApproved, Approved, StudioInv, PicturesShowPrompts, Existing
<1>2. BuildCompositionSpec = Storyboard
  BY <1>1 DEF BuildCompositionSpec, Storyboard
<1>3. Board!Pictured(Storyboard)
  BY <1>1 DEF Board!Pictured, Storyboard
<1>4. Storyboard' = Storyboard
  BY DEF Storyboard, Existing
<1>5. job'.revision = revision' /\ job'.spec = Storyboard /\ job' # NoJob
  BY <1>2 DEF NoJob
<1> QED
  BY <1>3, <1>4, <1>5 DEF Board!Render, Board!Video, Bump

LEMMA StartImplements ==
  ASSUME Init, StudioInv
  PROVE  Board!Init
<1>1. Board!Honest(Storyboard)
  BY StoryboardHonest
<1>2. BuildCompositionSpec = Storyboard
  <2>1. \A s \in Existing : scene[s].picture = NoPicture
    BY DEF Init, Existing
  <2> QED
    BY <2>1 DEF BuildCompositionSpec, Storyboard
<1> QED
  BY <1>1, <1>2 DEF Init, Board!Init, NoJob

LEMMA StepImplements ==
  ASSUME StudioInv, StudioInv', [Next]_vars
  PROVE  [Board!Next]_Board!vars
<1>1. CASE Handlers
  <2>1. Bump /\ UNCHANGED job
    BY <1>1 DEF Handlers, UpdateProject, EditScene, ApproveScene, DescribeScene, DeleteScene,
       CleanTranscript, AddReferences, ReorderScenes
  <2> QED
    BY <2>1, ChangeEdits DEF Board!Next
<1>2. ASSUME NEW r \in Requests,
             \/ PreviewAnchor(r)
             \/ PreviewScenes(r)
             \/ \E s \in Existing : RegenerateScene(r, s) \/ VerifyScene(r, s)
      PROVE  UNCHANGED Board!vars
  <2>1. UNCHANGED <<details, revision, job>>
    BY <1>2 DEF PreviewAnchor, PreviewScenes, RegenerateScene, VerifyScene, Start
  <2> QED
    BY <1>2, <2>1, StartTouches, TouchHidden
<1>3. ASSUME NEW r \in Requests, FinishPreview(r) \/ FinishVerify(r)
      PROVE  Board!Edit
  BY <1>3, ChangeEdits DEF FinishPreview, FinishVerify
<1>4. ASSUME NEW r \in Requests, FailVerify(r) \/ Abandon(r)
      PROVE  UNCHANGED Board!vars
  <2>1. UNCHANGED <<details, revision, job>>
    BY <1>4 DEF FailVerify, Abandon, projectVars
  <2> QED
    BY <1>4, <2>1, EndTouches, TouchHidden
<1>5. CASE SubmitRender
  BY <1>5, SubmitRenders DEF Board!Next
<1>6. CASE DispatchJob \/ EndJob
  <2>1. Storyboard' = Storyboard /\ revision' = revision
    BY <1>6, JobProgress DEF projectVars, Storyboard, Existing
  <2> QED
    BY <1>6, <2>1, JobProgress DEF Board!vars
<1>7. CASE UNCHANGED vars
  BY <1>7 DEF vars, projectVars, Storyboard, Existing, Board!vars
<1> QED
  BY <1>1, <1>2, <1>3, <1>4, <1>5, <1>6, <1>7 DEF Next, RequestSteps, Rendering, Board!Next

(* Edits, previews and renders, in whatever order their transactions come, *)
(* keep the promise of the board: one storyboard per revision, and a job   *)
(* of the current revision renders the current storyboard.                 *)
THEOREM ProjectImplementsBoard == Spec => ImplementsBoard
<1>1. Init => Board!Init
  BY InvInit, StartImplements
<1>2. StudioInv /\ StudioInv' /\ [Next]_vars => [Board!Next]_Board!vars
  BY StepImplements
<1> QED
  BY <1>1, <1>2, StudioInvariant, PTL DEF Spec, ImplementsBoard, Board!Spec

(* A finished video is offered only with the storyboard it renders.        *)
THEOREM OfferedVideo == Spec => []OfferedVideoCurrent
  BY ProjectImplementsBoard, Board!VideoIsCurrent, PTL DEF ImplementsBoard, OfferedVideoCurrent

(***************************************************************************)
(* The order of the scenes.  Only two handlers move scenes, and only one   *)
(* of them removes any.                                                    *)
(***************************************************************************)
Apart == \A s, t \in Existing : scene[s].position = scene[t].position => s = t

SamePlaces ==
  /\ Existing' = Existing
  /\ \A s \in Existing : scene'[s].position = scene[s].position

LEMMA SamePlacesApart ==
  ASSUME Apart, SamePlaces
  PROVE  Apart'
  BY DEF Apart, SamePlaces

LEMMA TouchedSamePlaces ==
  ASSUME OnlyTouched
  PROVE  SamePlaces
  BY DEF OnlyTouched, Touched, SamePlaces, Existing

LEMMA HandlersSamePlaces ==
  ASSUME StudioInv, Handlers
  PROVE  \/ SamePlaces
         \/ ReorderScenes
         \/ \E s \in Existing : DeleteScene(s)
<1> USE DEF SamePlaces, Existing
<1>1. ASSUME NEW s \in Existing, NEW p \in Prompts, EditScene(s, p)
      PROVE  SamePlaces
  BY <1>1 DEF EditScene, SetScene, StudioInv, TypeOK, SceneTable, Row
<1>2. ASSUME NEW s \in Existing, NEW approval \in BOOLEAN, ApproveScene(s, approval)
      PROVE  SamePlaces
  BY <1>2 DEF ApproveScene, StudioInv, TypeOK, SceneTable, Row
<1>3. ASSUME NEW a, UpdateProject(a)
      PROVE  SamePlaces
  BY <1>3 DEF UpdateProject
<1>4. CASE DescribeScene \/ CleanTranscript \/ AddReferences
  BY <1>4 DEF DescribeScene, CleanTranscript, AddReferences
<1> QED
  BY <1>1, <1>2, <1>3, <1>4 DEF Handlers

LEMMA StoreSamePlaces ==
  ASSUME StudioInv, NEW r \in Requests, FinishPreview(r)
  PROVE  SamePlaces
<1>1. PICK made \in SUBSET Targets(r) : scene' = StorePictures(r, made)
  BY DEF FinishPreview
<1>2. ASSUME NEW s \in Existing
      PROVE  scene'[s].position = scene[s].position
  <2>1. scene[s] \in Row
    BY DEF StudioInv, TypeOK, SceneTable, Existing
  <2>2. PICK status1, picture1 :
          scene'[s] \in {scene[s], [scene[s] EXCEPT !.status = status1,
                                      !.picture = picture1, !.approved = FALSE]}
    BY <1>1 DEF StorePictures
  <2> QED
    BY <2>1, <2>2 DEF Row
<1> QED
  BY <1>1, <1>2 DEF SamePlaces, StorePictures, Existing

LEMMA StepSamePlaces ==
  ASSUME StudioInv, [Next]_vars
  PROVE  \/ SamePlaces
         \/ ReorderScenes
         \/ \E s \in Existing : DeleteScene(s)
<1>1. ASSUME NEW r \in Requests,
             \/ PreviewAnchor(r)
             \/ PreviewScenes(r)
             \/ \E s \in Existing : RegenerateScene(r, s) \/ VerifyScene(r, s)
      PROVE  SamePlaces
  BY <1>1, StartTouches, TouchedSamePlaces
<1>2. ASSUME NEW r \in Requests, FinishVerify(r)
      PROVE  SamePlaces
  BY <1>2, MarkTouches, TouchedSamePlaces DEF FinishVerify, PreviewStatus
<1>3. ASSUME NEW r \in Requests, FailVerify(r) \/ Abandon(r)
      PROVE  SamePlaces
  BY <1>3, EndTouches, TouchedSamePlaces
<1>4. CASE RequestSteps
  BY <1>1, <1>2, <1>3, <1>4, StoreSamePlaces DEF RequestSteps
<1>5. CASE Rendering \/ UNCHANGED vars
  BY <1>5 DEF Rendering, SubmitRender, DispatchJob, EndJob, vars, projectVars, SamePlaces, Existing
<1> QED
  BY <1>4, <1>5, HandlersSamePlaces DEF Next

(* A payload that names a scene twice places it last, and no other there.  *)
LEMMA ReorderApart ==
  ASSUME StudioInv, ReorderScenes
  PROVE  Apart' /\ Existing' = Existing
<1>1. PICK n \in 1 .. MaxPayload :
        \E ids \in [1 .. n -> Existing], place \in [Existing -> 1 .. n] :
          /\ LastPlaces(ids, n, place)
          /\ scene' = [s \in Existing |-> [scene[s] EXCEPT !.position = place[s] - 1]]
  BY DEF ReorderScenes
<1>2. PICK ids \in [1 .. n -> Existing], place \in [Existing -> 1 .. n] :
          /\ LastPlaces(ids, n, place)
          /\ scene' = [s \in Existing |-> [scene[s] EXCEPT !.position = place[s] - 1]]
  BY <1>1
<1>3. Existing' = Existing
  BY <1>2 DEF Existing
<1>4. \A s \in Existing : scene'[s].position = place[s] - 1
  BY <1>2 DEF StudioInv, TypeOK, SceneTable, Row, Existing
<1>5. ASSUME NEW s \in Existing, NEW t \in Existing, place[s] - 1 = place[t] - 1
      PROVE  s = t
  <2>1. place[s] = place[t]
    BY <1>5
  <2> QED
    BY <1>2, <2>1 DEF LastPlaces
<1> QED
  BY <1>3, <1>4, <1>5 DEF Apart

(***************************************************************************)
(* The positions RecompactPositions gives: a scene stands behind as many   *)
(* scenes as stood before it.                                              *)
(***************************************************************************)
Before(s, t) == {u \in Existing \ {s} : scene[u].position < scene[t].position}

LEMMA DeletePlaces ==
  ASSUME StudioInv, NEW s \in Existing, DeleteScene(s)
  PROVE  /\ Existing' = Existing \ {s}
         /\ \A t \in Existing' : scene'[t].position = Cardinality(Before(s, t))
<1> DEFINE S == Existing \ {s}
<1>1. DOMAIN Remaining(s) = S /\ \A t \in S : Remaining(s)[t] = scene[t]
  BY DEF Remaining
<1>2. scene' = RecompactPositions(Remaining(s))
  BY DEF DeleteScene
<1>3. Existing' = S
  BY <1>1, <1>2 DEF RecompactPositions, Existing
<1>4. ASSUME NEW t \in S
      PROVE  scene'[t].position = Cardinality(Before(s, t))
  <2>1. {u \in S : Remaining(s)[u].position < Remaining(s)[t].position} = Before(s, t)
    BY <1>1 DEF Before
  <2>2. scene'[t] = [scene[t] EXCEPT !.position = Cardinality(Before(s, t))]
    BY <1>1, <1>2, <2>1 DEF RecompactPositions
  <2>3. scene[t] \in Row
    BY DEF StudioInv, TypeOK, SceneTable, Existing
  <2> QED
    BY <2>2, <2>3 DEF Row
<1> QED
  BY <1>3, <1>4

LEMMA BeforeFinite ==
  ASSUME StudioInv, NEW s, NEW t
  PROVE  /\ IsFiniteSet(Existing \ {s})
         /\ IsFiniteSet(Before(s, t))
<1>1. /\ IsFiniteSet(Scenes)
      /\ Existing \ {s} \in SUBSET Scenes
      /\ Before(s, t) \in SUBSET Scenes
  BY StudioAssumption DEF StudioInv, TypeOK, SceneTable, Existing, Before
<1> QED
  BY <1>1, FS_Subset

(* The scene behind another stands behind more scenes.                     *)
LEMMA BeforeGrows ==
  ASSUME StudioInv, NEW s, NEW t \in Existing \ {s}, NEW u \in Before(s, t)
  PROVE  /\ Before(s, u) \subseteq Before(s, t)
         /\ Before(s, u) # Before(s, t)
         /\ Cardinality(Before(s, u)) # Cardinality(Before(s, t))
<1>1. \A v \in Existing : scene[v].position \in Nat
  BY DEF StudioInv, TypeOK, SceneTable, Row, Existing
<1>2. Before(s, u) \subseteq Before(s, t)
  <2> SUFFICES ASSUME NEW v \in Before(s, u)
               PROVE  scene[v].position < scene[t].position
    BY DEF Before
  <2>1. /\ scene[v].position < scene[u].position
        /\ scene[u].position < scene[t].position
        /\ scene[v].position \in Nat /\ scene[u].position \in Nat
        /\ scene[t].position \in Nat
    BY <1>1 DEF Before
  <2> QED
    BY <2>1
<1>3. u \notin Before(s, u)
  <2>1. scene[u].position \in Nat
    BY <1>1 DEF Before
  <2> QED
    BY <2>1 DEF Before
<1>4. IsFiniteSet(Before(s, t))
  BY BeforeFinite
<1> QED
  BY <1>2, <1>3, <1>4, FS_Subset

LEMMA DeleteApart ==
  ASSUME StudioInv, Apart, NEW s \in Existing, DeleteScene(s)
  PROVE  Apart'
<1> SUFFICES ASSUME NEW t \in Existing', NEW u \in Existing',
                    scene'[t].position = scene'[u].position, t # u
             PROVE  FALSE
  BY DEF Apart
<1>1. /\ t \in Existing \ {s} /\ u \in Existing \ {s}
      /\ Cardinality(Before(s, t)) = Cardinality(Before(s, u))
  BY DeletePlaces
<1>2. /\ scene[t].position \in Nat /\ scene[u].position \in Nat
      /\ scene[t].position # scene[u].position
  BY <1>1 DEF StudioInv, TypeOK, SceneTable, Row, Existing, Apart
<1>3. t \in Before(s, u) \/ u \in Before(s, t)
  BY <1>1, <1>2 DEF Before
<1> QED
  BY <1>1, <1>3, BeforeGrows

(* Of the scenes that remain one has none before it, and SceneAt finds it. *)
LEMMA DeleteFindsFirst ==
  ASSUME StudioInv, NEW s \in Existing, DeleteScene(s)
  PROVE  SceneAt(scene', 0) \in Existing'
<1> DEFINE S == Existing \ {s}
           Befores == {Before(s, t) : t \in S}
<1>1. S # {}
  BY DEF DeleteScene
<1>2. IsWellFoundedOn(StrictSubsetOrdering(S), FiniteSubsetsOf(S))
  BY FS_StrictSubsetOrderingWellFounded
<1>3. Befores \subseteq FiniteSubsetsOf(S) /\ Befores # {}
  <2>1. \A t \in S : Before(s, t) \in SUBSET S
    BY DEF Before
  <2>2. \A t \in S : IsFiniteSet(Before(s, t))
    BY BeforeFinite
  <2> QED
    BY <1>1, <2>1, <2>2 DEF FiniteSubsetsOf
<1>4. PICK B \in Befores : \A C \in Befores : ~ (<<C, B>> \in StrictSubsetOrdering(S))
  <2> HIDE DEF Befores
  <2> QED
    BY <1>2, <1>3, WFMin
<1>5. PICK t \in S : B = Before(s, t)
  OBVIOUS
<1>6. Before(s, t) = {}
  <2> SUFFICES ASSUME NEW u \in Before(s, t)
               PROVE  FALSE
    OBVIOUS
  <2>1. u \in S
    BY DEF Before
  <2>2. Before(s, u) \subseteq Before(s, t) /\ Before(s, u) # Before(s, t)
    BY BeforeGrows
  <2>3. <<Before(s, u), Before(s, t)>> \in StrictSubsetOrdering(S)
    BY <2>2 DEF StrictSubsetOrdering, Before
  <2>4. Before(s, u) \in Befores
    BY <2>1
  <2> QED
    BY <1>4, <1>5, <2>3, <2>4
<1>7. t \in Existing' /\ scene'[t].position = 0
  BY <1>6, DeletePlaces, FS_EmptySet
<1> QED
  BY <1>7 DEF SceneAt, Existing

LEMMA InitApart == Init => Apart
<1> SUFFICES ASSUME Init PROVE Apart
  OBVIOUS
<1>1. PICK S \in SUBSET Scenes, prompt \in Prompts :
     \E place \in [S -> 0 .. Cardinality(S) - 1] :
       /\ \A s, t \in S : place[s] = place[t] => s = t
       /\ scene = [s \in S |->
            [position |-> place[s], prompt |-> prompt, status |-> "idle",
             picture |-> NoPicture, approved |-> FALSE]]
  BY DEF Init
<1> QED
  BY <1>1 DEF Apart, Existing

LEMMA StepApart ==
  ASSUME StudioInv, Apart, [Next]_vars
  PROVE  Apart'
  BY StepSamePlaces, SamePlacesApart, ReorderApart, DeleteApart

(* Whatever is reordered and deleted, no two scenes share a position and   *)
(* the anchor, if any, is a scene of the project.                          *)
THEOREM BoardStaysInOrder == Spec => []BoardInOrder
<1>1. Init => Apart
  BY InitApart
<1>2. StudioInv /\ Apart /\ [Next]_vars => Apart'
  BY StepApart
<1>3. StudioInv /\ Apart => BoardInOrder
  BY DEF StudioInv, Apart, BoardInOrder
<1> QED
  BY <1>1, <1>2, <1>3, StudioInvariant, PTL DEF Spec

(* A scene that goes leaves a project that had an anchor with one.         *)
THEOREM DeletionKeepsAnchor == Spec => DeleteKeepsAnchor
<1>1. ASSUME StudioInv, [Next]_vars, anchor # NoScene, Existing' # Existing
      PROVE  anchor' # NoScene
  <2>1. PICK s \in Existing : DeleteScene(s)
    BY <1>1, StepSamePlaces, ReorderApart DEF SamePlaces
  <2>2. SceneAt(scene', 0) \in Existing' /\ Existing' \subseteq Existing
    BY <1>1, <2>1, DeleteFindsFirst, DeletePlaces
  <2>3. NoScene \notin Existing
    BY <1>1, StudioAssumption DEF StudioInv, TypeOK, SceneTable, Existing
  <2> QED
    BY <1>1, <2>1, <2>2, <2>3 DEF DeleteScene
<1>2. StudioInv /\ [Next]_vars
        => [anchor # NoScene /\ Existing' # Existing => anchor' # NoScene]_vars
  BY <1>1
<1> QED
  BY <1>2, StudioInvariant, PTL DEF Spec, DeleteKeepsAnchor

(* Approvals are only ever added by a change of the revision: a client     *)
(* whose revision still stands has seen what it approves.                  *)
THEOREM ApprovalNeedsRevision == Spec => ApprovalsNeedRevision
<1> DEFINE NoneAdded == revision' = revision =>
             \A s \in Existing' : scene'[s].approved => scene[s].approved
<1>1. ASSUME StudioInv, [Next]_vars, revision' = revision
      PROVE  \A s \in Existing' : scene'[s].approved => scene[s].approved
  <2>1. revision' # revision + 1
    BY <1>1 DEF StudioInv, TypeOK
  <2>2. CASE Handlers
    BY <2>1, <2>2 DEF Handlers, UpdateProject, EditScene, ApproveScene, DescribeScene,
       DeleteScene, CleanTranscript, AddReferences, ReorderScenes, Bump
  <2>3. CASE OnlyTouched
    BY <2>3 DEF OnlyTouched, Touched, Existing
  <2>4. CASE RequestSteps
    <3> PICK r \in Requests :
          \/ PreviewAnchor(r) \/ PreviewScenes(r)
          \/ \E s \in Existing : RegenerateScene(r, s) \/ VerifyScene(r, s)
          \/ FinishPreview(r) \/ FinishVerify(r)
          \/ FailVerify(r) \/ Abandon(r)
      BY <2>4 DEF RequestSteps
    <3>1. ~ FinishPreview(r) /\ ~ FinishVerify(r)
      BY <2>1 DEF FinishPreview, FinishVerify, Bump
    <3> QED
      BY <1>1, <2>3, <3>1, StartTouches, EndTouches
  <2>5. CASE Rendering \/ UNCHANGED vars
    BY <2>1, <2>5 DEF Rendering, SubmitRender, DispatchJob, EndJob, Bump, vars, projectVars,
       Existing
  <2> QED
    BY <1>1, <2>2, <2>4, <2>5 DEF Next
<1>2. StudioInv /\ [Next]_vars => [NoneAdded]_vars
  BY <1>1
<1> QED
  BY <1>2, StudioInvariant, PTL DEF Spec, ApprovalsNeedRevision
=============================================================================
