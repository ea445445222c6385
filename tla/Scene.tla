-------------------------------- MODULE Scene --------------------------------
(***************************************************************************)
(* What the client creates with the rendering engine and has to destroy    *)
(* again, in an order: the objects of Application (application.cpp), of    *)
(* the interface's renderer (ui/ui_renderer.cpp) and of the world          *)
(* (scene.cpp).  The engine is external: it wants an object to be destroyed*)
(* once, and only when nothing that still exists uses it.  A null pointer  *)
(* it ignores.                                                             *)
(*                                                                         *)
(* A value s of this module is a DemoScene (mLoaded, mPlayers, and in discs*)
(* which of its two ...InScene flags are set), the objects that exist by   *)
(* name (alive; a player in mPlayers has the ones of Visual), the entities *)
(* the engine's scene holds (inScene), and whether the engine was misused. *)
(***************************************************************************)
EXTENDS Naturals, Sequences, SequencesExt

\* In the order they are destroyed.
UiObjects == <<"uiRenderable", "uiCamera", "uiView", "uiScene", "uiVertexBuffer",
               "uiIndexBuffer", "uiAtlas", "uiMaterialInstance", "uiMaterial">>
AppObjects == <<"view", "scene", "renderer", "camera", "swapChain", "engine">>

Entities == <<"plane", "cube", "sun", "sunDisc", "moonDisc">>
Discs == {"sunDisc", "moonDisc"}
IndirectLight == "indirectLight"
Meshes == <<"planeMesh", "cubeMesh", "capsuleMesh", "markerMesh", "discMesh">>
Materials == <<"planeMaterial", "cubeMaterial", "sunMaterial", "moonMaterial",
               "material", "unlitBase", "characterBase">>
Resources == Meshes \o Materials

\* The objects of one player.
Visual == <<"entity", "playerMaterial", "marker", "markerMaterial">>
Objects == Range(UiObjects \o AppObjects \o Entities \o Resources \o Visual) \cup {IndirectLight}

\* Who needs an object to exist until it is destroyed itself: a renderable its mesh
\* and its material's instance, an instance its material, and all the engine.
Users ==
  [object \in Objects |->
     CASE object = "engine" -> Objects \ {"engine"}
       [] object \in {"uiVertexBuffer", "uiIndexBuffer", "uiMaterialInstance"} -> {"uiRenderable"}
       [] object = "uiMaterial" -> {"uiMaterialInstance"}
       [] object \in {"planeMesh", "planeMaterial"} -> {"plane"}
       [] object \in {"cubeMesh", "cubeMaterial"} -> {"cube"}
       [] object = "discMesh" -> Discs
       [] object = "sunMaterial" -> {"sunDisc"}
       [] object = "moonMaterial" -> {"moonDisc"}
       [] object = "material" -> {"planeMaterial", "cubeMaterial"}
       [] object = "unlitBase" -> {"sunMaterial", "moonMaterial", "markerMaterial"}
       [] object = "characterBase" -> {"playerMaterial"}
       [] object \in {"capsuleMesh", "playerMaterial"} -> {"entity"}
       [] object \in {"markerMesh", "markerMaterial"} -> {"marker"}
       [] OTHER -> {}]
-----------------------------------------------------------------------------
NoWorld == [mLoaded |-> FALSE, mPlayers |-> {}, discs |-> {}, inScene |-> {},
            alive |-> {}, misused |-> FALSE]

\* The values of this module.
Scenes(players) ==
  [mLoaded : BOOLEAN, mPlayers : SUBSET players, discs : SUBSET Discs,
   inScene : SUBSET Objects, alive : SUBSET Objects, misused : BOOLEAN]

VisualsOf(players) == IF players = {} THEN <<>> ELSE Visual

\* Destroying in this order, null pointers aside, each object when it exists and
\* nobody who exists uses it.
Misuse(existing, order, null) ==
  \E i \in DOMAIN order :
    /\ order[i] \notin null
    /\ \/ order[i] \notin existing
       \/ \E user \in Users[order[i]] : user \in existing /\ \A j \in 1..i : order[j] # user
-----------------------------------------------------------------------------
(* DemoScene.                                                              *)

WorldObjects == Range(Entities \o Resources) \cup {IndirectLight}

\* What would exist twice is lost: nobody could destroy the first one any more.
build(s) ==
  IF s.mLoaded THEN s
  ELSE [s EXCEPT !.mLoaded = TRUE,
                 !.inScene = @ \cup {"plane", "cube", "sun"},
                 !.alive = @ \cup WorldObjects,
                 !.misused = @ \/ s.alive \cap WorldObjects # {}]

\* Only a change of what is visible changes the scene.
applySky(s, visible) ==
  IF ~s.mLoaded THEN s
  ELSE [s EXCEPT !.discs = visible,
                 !.inScene = (@ \cup (visible \ s.discs)) \ (s.discs \ visible)]

\* setPlayerTransform creates a player's objects once, and removeAbsentPlayers
\* destroys those of the ones that are not among the present.
PlayersAfter(s, transformed, present) ==
  IF ~s.mLoaded THEN s
  ELSE LET gone == (s.mPlayers \cup transformed) \ present
       IN [s EXCEPT !.mPlayers = (@ \cup transformed) \cap present,
                    !.misused = \/ @
                                \/ Misuse(s.alive \cup Range(Visual), VisualsOf(gone), {})]

DiscsKept(s) == s.discs
DiscsForgotten(s) == {}

PlayersLast(s) == Entities \o <<IndirectLight>> \o Resources \o VisualsOf(s.mPlayers)
InOrder(s) == Entities \o <<IndirectLight>> \o VisualsOf(s.mPlayers) \o Resources

destroy(s) ==
  IF ~s.mLoaded THEN s
  ELSE [s EXCEPT !.mLoaded = FALSE,
                 !.discs = DiscsForgotten(s),
                 !.inScene = @ \ Range(Entities),
                 !.alive = @ \ WorldObjects,
                 !.mPlayers = {},
                 !.misused = \/ @
                              \/ Misuse(s.alive \cup Range(VisualsOf(s.mPlayers)), InOrder(s), {})]
-----------------------------------------------------------------------------
(* Application.                                                            *)

\* init creates the engine, then everything of its own, then the interface's; it
\* can fail after the engine, after its own objects, and in the interface when
\* that has only its material and the instance of it.
InitStages == {"engine", "application", "font", "done"}
initialised(stage) ==
  [NoWorld EXCEPT
     !.alive = {"engine"}
               \cup (IF stage = "engine" THEN {} ELSE Range(AppObjects))
               \cup (IF stage = "font" THEN {"uiMaterial", "uiMaterialInstance"}
                     ELSE IF stage = "done" THEN Range(UiObjects) ELSE {})]

\* ~Application, whatever init got to: first the interface's objects, then the
\* world's, then its own.  The pointers init did not get to are null, and
\* UiRenderer::destroy calls its scene.
Torn(s) ==
  [destroy(s) EXCEPT
     !.alive = @ \ Range(UiObjects \o AppObjects),
     !.misused = \/ @
                 \/ "uiScene" \notin s.alive
                 \/ Misuse(s.alive \cup Range(VisualsOf(s.mPlayers)),
                           UiObjects \o (IF s.mLoaded THEN InOrder(s) ELSE <<>>) \o AppObjects,
                           Range(UiObjects \o AppObjects) \ s.alive)]
=============================================================================
