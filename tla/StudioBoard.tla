----------------------------- MODULE StudioBoard ------------------------------
(***************************************************************************)
(* What a video project promises to whoever edits it: its revision names   *)
(* one storyboard, in which every picture shows the prompt beside it, and  *)
(* a video is that of the storyboard whose revision it carries.  How the   *)
(* pictures come about, by requests that run for minutes while others      *)
(* edit, is left out.                                                      *)
(***************************************************************************)
EXTENDS Naturals, TLAPS

CONSTANTS
  NoPicture,   \* of a scene that has none
  NoVideo

VARIABLES revision, board, video
vars == <<revision, board, video>>

(* A board has a row for every scene and tells the rest of a project from  *)
(* what it was before a change; a picture is known by what it shows.       *)
Honest(b) ==
  \A s \in DOMAIN b.scenes :
    b.scenes[s].picture # NoPicture
      => b.scenes[s].picture = b.scenes[s].prompt

Pictured(b) == \A s \in DOMAIN b.scenes : b.scenes[s].picture # NoPicture

Video == [revision |-> revision', board |-> board]

(* A project starts as a draft, or with its first video submitted.         *)
Init ==
  /\ Honest(board)
  /\ \/ revision = 0 /\ video = NoVideo
     \/ revision = 1 /\ video = [revision |-> 1, board |-> board]

Edit ==
  /\ revision' = revision + 1
  /\ Honest(board')
  /\ UNCHANGED video

Render ==
  /\ revision' = revision + 1
  /\ Pictured(board)
  /\ video' = Video
  /\ UNCHANGED board

Next == Edit \/ Render

Spec == Init /\ [][Next]_vars

(* The current video is that of the current board.                         *)
VideoCurrent ==
  video # NoVideo /\ video.revision = revision => video.board = board

VideoInv ==
  /\ revision \in Nat
  /\ video # NoVideo => video.revision \in 0 .. revision
  /\ VideoCurrent

(* A video that is not behind the project is a video of what it shows.     *)
THEOREM VideoIsCurrent == Spec => []VideoCurrent
<1> USE DEF VideoInv, VideoCurrent
<1>1. Init => VideoInv
  BY DEF Init
<1>2. VideoInv /\ [Next]_vars => VideoInv'
  BY DEF Next, Edit, Render, Video, vars
<1>3. VideoInv => VideoCurrent
  OBVIOUS
<1> QED
  BY <1>1, <1>2, <1>3, PTL DEF Spec
=============================================================================
