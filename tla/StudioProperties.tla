--------------------------- MODULE StudioProperties ---------------------------
(***************************************************************************)
(* What the handlers of a video project must keep true, in whatever order  *)
(* edits, preview requests and renders come in.                            *)
(***************************************************************************)
EXTENDS StudioProject

Row == [position : Nat, prompt : Prompts, status : PreviewStatus,
        picture : Prompts \cup {NoPicture}, approved : BOOLEAN]
Cadre == [position : Nat, prompt : Prompts, picture : Prompts \cup {NoPicture}]

SceneTable(f, R) == DOMAIN f \subseteq Scenes /\ f \in [DOMAIN f -> R]

JobOK ==
  /\ job \in [revision : Nat, spec : {job.spec}, status : JobStatus,
             dispatched : BOOLEAN]
  /\ SceneTable(job.spec.scenes, Cadre)
  /\ job.spec.details \in {0, 1}

RequestOK(r) ==
  /\ request[r].op \in Operations
  /\ request[r].revision \in Nat
  /\ SceneTable(request[r].prompts, Prompts)

(* Every row has the shape its readers expect.                             *)
TypeOK ==
  /\ SceneTable(scene, Row)
  /\ anchor \in Scenes \cup {NoScene}
  /\ details \in {0, 1}
  /\ revision \in Nat
  /\ status \in ProjectStatus
  /\ job # NoJob => JobOK
  /\ DOMAIN request = Requests
  /\ \A r \in Requests : request[r] # NoRequest => RequestOK(r)

(* A picture shows the prompt that stands beside it and an approval is of  *)
(* a picture: neither survives an edit, and a request that was overtaken   *)
(* stores nothing.                                                         *)
PicturesShowPrompts ==
  \A s \in Existing :
    /\ scene[s].picture # NoPicture => scene[s].picture = scene[s].prompt
    /\ scene[s].approved => scene[s].picture # NoPicture

(* No two scenes share a position and the anchor is a scene of the         *)
(* project, though reordering may leave gaps and any scene may go.         *)
BoardInOrder ==
  /\ \A s, t \in Existing : scene[s].position = scene[t].position => s = t
  /\ anchor \in Existing \cup {NoScene}

(* Deleting the anchor makes another scene the anchor.                     *)
DeleteKeepsAnchor ==
  [][anchor # NoScene /\ Existing' # Existing => anchor' # NoScene]_vars

-----------------------------------------------------------------------------
(* The storyboard as its viewers know it: the rows without what a request  *)
(* may change on its way.                                                  *)
Storyboard ==
  [scenes  |-> [s \in Existing |->
                 [position |-> scene[s].position,
                  prompt   |-> scene[s].prompt,
                  picture  |-> scene[s].picture]],
   details |-> details]

Board == INSTANCE StudioBoard WITH
  NoVideo <- NoJob,
  board   <- Storyboard,
  video   <- IF job = NoJob THEN NoJob
             ELSE [revision |-> job.revision, board |-> job.spec]

(* The project implements the board: a revision names one storyboard, and  *)
(* a job with the revision of the project renders what the project shows.  *)
ImplementsBoard == Board!Spec

(* The video that _serialize_snapshot offers, one of the current revision, *)
(* is a rendering of the scenes, prompts and pictures it is shown with.    *)
OfferedVideoCurrent == Board!VideoCurrent

(* While a revision stands, what a client saw of a picture it approves     *)
(* stands too: requests on their way withdraw approvals and add none.      *)
ApprovalsNeedRevision ==
  [][revision' = revision =>
       \A s \in Existing' : scene'[s].approved => scene[s].approved]_vars

-----------------------------------------------------------------------------
(* The inductive invariant: a request that nothing has overtaken still has *)
(* the scenes and the prompts it took.                                     *)
RequestFresh(r) ==
  request[r] # NoRequest =>
    /\ request[r].revision <= revision
    /\ Unchallenged(r) =>
         \A s \in Targets(r) :
           s \in Existing /\ request[r].prompts[s] = scene[s].prompt

StudioInv ==
  /\ TypeOK
  /\ PicturesShowPrompts
  /\ anchor \in Existing \cup {NoScene}
  /\ \A r \in Requests : RequestFresh(r)
=============================================================================
