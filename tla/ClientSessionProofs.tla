-------------------------- MODULE ClientSessionProofs --------------------------
(***************************************************************************)
(* Proofs about ClientSession and Scene, for any other players, any time   *)
(* limit, any number of sessions and snapshots, and lost datagrams and     *)
(* crashes of the server at any time.                                      *)
(***************************************************************************)
EXTENDS ClientSession, TLAPS
-----------------------------------------------------------------------------
(* The objects of the engine, by name.                                     *)

LEMMA Concatenated ==
  ASSUME NEW S, NEW a \in Seq(S), NEW b \in Seq(S)
  PROVE  /\ a \o b \in Seq(S) /\ Len(a \o b) = Len(a) + Len(b)
         /\ DOMAIN (a \o b) = 1..(Len(a) + Len(b))
         /\ DOMAIN a = 1..Len(a) /\ DOMAIN b = 1..Len(b) /\ Len(a) \in Nat /\ Len(b) \in Nat
         /\ \A i \in 1..Len(a) : (a \o b)[i] = a[i]
         /\ \A i \in 1..Len(b) : (a \o b)[Len(a) + i] = b[i]
         /\ Range(a \o b) = Range(a) \cup Range(b)
<1>1. /\ a \o b \in Seq(S) /\ Len(a \o b) = Len(a) + Len(b)
      /\ DOMAIN a = 1..Len(a) /\ DOMAIN b = 1..Len(b) /\ Len(a) \in Nat /\ Len(b) \in Nat
  OBVIOUS
<1>2. DOMAIN (a \o b) = 1..(Len(a) + Len(b))
  BY <1>1
<1>3. \A i \in 1..Len(a) : (a \o b)[i] = a[i]
  BY <1>1
<1>4. \A i \in 1..Len(b) : (a \o b)[Len(a) + i] = b[i]
  <2>. TAKE i \in 1..Len(b)
  <2>1. Len(a) + i \in 1..(Len(a) + Len(b)) /\ ~(Len(a) + i <= Len(a)) /\ (Len(a) + i) - Len(a) = i
    BY <1>1
  <2>. QED
    BY <2>1
<1>. DEFINE c == a \o b
<1>. HIDE DEF c
<1>5. \A i \in 1..(Len(a) + Len(b)) :
        i \in 1..Len(a) \/ \E k \in 1..Len(b) : i = Len(a) + k
  <2>. TAKE i \in 1..(Len(a) + Len(b))
  <2>1. CASE i <= Len(a)
    BY <1>1, <2>1
  <2>2. CASE ~(i <= Len(a))
    <3>1. i - Len(a) \in 1..Len(b) /\ i = Len(a) + (i - Len(a))
      BY <1>1, <2>2
    <3>. QED
      BY <3>1
  <2>. QED
    BY <2>1, <2>2
<1>6. \A i \in 1..Len(a) : i \in 1..(Len(a) + Len(b))
  BY <1>1
<1>7. \A k \in 1..Len(b) : Len(a) + k \in 1..(Len(a) + Len(b))
  BY <1>1
<1>8. /\ DOMAIN c = 1..(Len(a) + Len(b)) /\ \A i \in 1..Len(a) : c[i] = a[i]
      /\ \A k \in 1..Len(b) : c[Len(a) + k] = b[k]
  BY <1>2, <1>3, <1>4 DEF c
<1>9. Range(c) \subseteq Range(a) \cup Range(b)
  <2>1. ASSUME NEW i \in 1..(Len(a) + Len(b)) PROVE c[i] \in Range(a) \cup Range(b)
    <3>1. CASE i \in 1..Len(a)
      BY <1>1, <1>8, <3>1 DEF Range
    <3>2. CASE \E k \in 1..Len(b) : i = Len(a) + k
      BY <1>1, <1>8, <3>2 DEF Range
    <3>. QED
      BY <1>5, <3>1, <3>2
  <2>. QED
    BY <1>8, <2>1 DEF Range
<1>10. Range(a) \subseteq Range(c)
  BY <1>1, <1>6, <1>8 DEF Range
<1>11. Range(b) \subseteq Range(c)
  BY <1>1, <1>7, <1>8 DEF Range
<1>. QED
  BY <1>1, <1>2, <1>3, <1>4, <1>9, <1>10, <1>11 DEF c

UiNames == {"uiRenderable", "uiCamera", "uiView", "uiScene", "uiVertexBuffer",
            "uiIndexBuffer", "uiAtlas", "uiMaterialInstance", "uiMaterial"}
AppNames == {"view", "scene", "renderer", "camera", "swapChain", "engine"}
EntityNames == {"plane", "cube", "sun", "sunDisc", "moonDisc"}
MeshNames == {"planeMesh", "cubeMesh", "capsuleMesh", "markerMesh", "discMesh"}
MaterialNames == {"planeMaterial", "cubeMaterial", "sunMaterial", "moonMaterial",
                  "material", "unlitBase", "characterBase"}
VisualNames == {"entity", "playerMaterial", "marker", "markerMaterial"}

AllNames == UiNames \cup AppNames \cup EntityNames \cup MeshNames \cup MaterialNames
            \cup VisualNames \cup {IndirectLight}

LEMMA Widened ==
  ASSUME NEW A, NEW B, A \subseteq B, NEW s \in Seq(A)
  PROVE  s \in Seq(B)
  OBVIOUS

LEMMA Names ==
  /\ UiObjects \in Seq(AllNames) /\ Range(UiObjects) = UiNames
  /\ AppObjects \in Seq(AllNames) /\ Range(AppObjects) = AppNames
  /\ Entities \in Seq(AllNames) /\ Range(Entities) = EntityNames
  /\ Meshes \in Seq(AllNames) /\ Range(Meshes) = MeshNames
  /\ Materials \in Seq(AllNames) /\ Range(Materials) = MaterialNames
  /\ Visual \in Seq(AllNames) /\ Range(Visual) = VisualNames
  /\ <<IndirectLight>> \in Seq(AllNames) /\ Range(<<IndirectLight>>) = {IndirectLight}
<1>1. UiObjects \in Seq(AllNames) /\ Range(UiObjects) = UiNames
  <2>1. UiObjects \in Seq(UiNames)
    BY DEF UiObjects, UiNames
  <2>2. Range(UiObjects) = UiNames
    BY DEF UiObjects, UiNames, Range
  <2>. QED
    BY <2>1, <2>2, Widened DEF AllNames
<1>2. AppObjects \in Seq(AllNames) /\ Range(AppObjects) = AppNames
  <2>1. AppObjects \in Seq(AppNames)
    BY DEF AppObjects, AppNames
  <2>2. Range(AppObjects) = AppNames
    BY DEF AppObjects, AppNames, Range
  <2>. QED
    BY <2>1, <2>2, Widened DEF AllNames
<1>3. Entities \in Seq(AllNames) /\ Range(Entities) = EntityNames
  <2>1. Entities \in Seq(EntityNames)
    BY DEF Entities, EntityNames
  <2>2. Range(Entities) = EntityNames
    BY DEF Entities, EntityNames, Range
  <2>. QED
    BY <2>1, <2>2, Widened DEF AllNames
<1>4. Meshes \in Seq(AllNames) /\ Range(Meshes) = MeshNames
  <2>1. Meshes \in Seq(MeshNames)
    BY DEF Meshes, MeshNames
  <2>2. Range(Meshes) = MeshNames
    BY DEF Meshes, MeshNames, Range
  <2>. QED
    BY <2>1, <2>2, Widened DEF AllNames
<1>5. Materials \in Seq(AllNames) /\ Range(Materials) = MaterialNames
  <2>1. Materials \in Seq(MaterialNames)
    BY DEF Materials, MaterialNames
  <2>2. Range(Materials) = MaterialNames
    BY DEF Materials, MaterialNames, Range
  <2>. QED
    BY <2>1, <2>2, Widened DEF AllNames
<1>6. Visual \in Seq(AllNames) /\ Range(Visual) = VisualNames
  <2>1. Visual \in Seq(VisualNames)
    BY DEF Visual, VisualNames
  <2>2. Range(Visual) = VisualNames
    BY DEF Visual, VisualNames, Range
  <2>. QED
    BY <2>1, <2>2, Widened DEF AllNames
<1>7. <<IndirectLight>> \in Seq(AllNames) /\ Range(<<IndirectLight>>) = {IndirectLight}
  <2>1. <<IndirectLight>> \in Seq({IndirectLight})
    OBVIOUS
  <2>2. Range(<<IndirectLight>>) = {IndirectLight}
    BY DEF Range
  <2>. QED
    BY <2>1, <2>2, Widened DEF AllNames
<1>. QED
  BY <1>1, <1>2, <1>3, <1>4, <1>5, <1>6, <1>7

LEMMA ComposedNames ==
  /\ Resources \in Seq(AllNames) /\ Range(Resources) = MeshNames \cup MaterialNames
  /\ Range(UiObjects \o AppObjects) = UiNames \cup AppNames
  /\ Range(AppObjects \o UiObjects) = UiNames \cup AppNames
  /\ WorldObjects = EntityNames \cup MeshNames \cup MaterialNames \cup {IndirectLight}
  /\ Objects = UiNames \cup AppNames \cup EntityNames \cup MeshNames \cup MaterialNames
               \cup VisualNames \cup {IndirectLight}
<1>1. Resources \in Seq(AllNames) /\ Range(Resources) = MeshNames \cup MaterialNames
  BY Names, Concatenated DEF Resources
<1>2. /\ UiObjects \o AppObjects \in Seq(AllNames)
      /\ Range(UiObjects \o AppObjects) = UiNames \cup AppNames
      /\ Range(AppObjects \o UiObjects) = UiNames \cup AppNames
  BY Names, Concatenated
<1>3. /\ Range(Entities \o Resources) = EntityNames \cup MeshNames \cup MaterialNames
  BY <1>1, Names, Concatenated
<1>. DEFINE ua == UiObjects \o AppObjects
            uae == ua \o Entities
            uaer == uae \o Resources
<1>4. ua \in Seq(AllNames) /\ Range(ua) = UiNames \cup AppNames
  BY <1>2
<1>. HIDE DEF ua
<1>5. uae \in Seq(AllNames) /\ Range(uae) = UiNames \cup AppNames \cup EntityNames
  BY <1>4, Names, Concatenated
<1>. HIDE DEF uae
<1>6. /\ uaer \in Seq(AllNames)
      /\ Range(uaer) = UiNames \cup AppNames \cup EntityNames \cup MeshNames \cup MaterialNames
  BY <1>1, <1>5, Concatenated
<1>. HIDE DEF uaer
<1>7. Range(uaer \o Visual)
        = UiNames \cup AppNames \cup EntityNames \cup MeshNames \cup MaterialNames \cup VisualNames
  BY <1>6, Names, Concatenated
<1>. QED
  BY <1>1, <1>2, <1>3, <1>7 DEF WorldObjects, Objects, ua, uae, uaer

\* Who uses what.
LEMMA UsersOf ==
  /\ Users[IndirectLight] = {}
  /\ \A x \in {"uiRenderable", "uiCamera", "uiView", "uiScene", "uiAtlas"} : Users[x] = {}
  /\ Users["uiVertexBuffer"] = {"uiRenderable"}
  /\ Users["uiIndexBuffer"] = {"uiRenderable"}
  /\ Users["uiMaterialInstance"] = {"uiRenderable"}
  /\ Users["uiMaterial"] = {"uiMaterialInstance"}
  /\ \A x \in {"view", "scene", "renderer", "camera", "swapChain"} : Users[x] = {}
  /\ Users["engine"] = AllNames \ {"engine"}
  /\ \A x \in {"plane", "cube", "sun", "sunDisc", "moonDisc"} : Users[x] = {}
  /\ Users["planeMesh"] = {"plane"}
  /\ Users["cubeMesh"] = {"cube"}
  /\ Users["capsuleMesh"] = {"entity"}
  /\ Users["markerMesh"] = {"marker"}
  /\ Users["discMesh"] = {"sunDisc", "moonDisc"}
  /\ Users["planeMaterial"] = {"plane"}
  /\ Users["cubeMaterial"] = {"cube"}
  /\ Users["sunMaterial"] = {"sunDisc"}
  /\ Users["moonMaterial"] = {"moonDisc"}
  /\ Users["material"] = {"planeMaterial", "cubeMaterial"}
  /\ Users["unlitBase"] = {"sunMaterial", "moonMaterial", "markerMaterial"}
  /\ Users["characterBase"] = {"playerMaterial"}
  /\ \A x \in {"entity", "marker"} : Users[x] = {}
  /\ Users["playerMaterial"] = {"entity"}
  /\ Users["markerMaterial"] = {"marker"}
<1>. Objects = AllNames /\ DOMAIN Users = Objects
  BY ComposedNames DEF AllNames, Users
<1>1. /\ Users[IndirectLight] = {}
  BY DEF Users, AllNames, Discs, IndirectLight
<1>2. /\ \A x \in {"uiRenderable", "uiCamera", "uiView", "uiScene", "uiAtlas"} : Users[x] = {}
      /\ Users["uiVertexBuffer"] = {"uiRenderable"}
      /\ Users["uiIndexBuffer"] = {"uiRenderable"}
      /\ Users["uiMaterialInstance"] = {"uiRenderable"}
      /\ Users["uiMaterial"] = {"uiMaterialInstance"}
  BY DEF Users, AllNames, Discs, UiNames
<1>3. /\ \A x \in {"view", "scene", "renderer", "camera", "swapChain"} : Users[x] = {}
      /\ Users["engine"] = AllNames \ {"engine"}
  BY DEF Users, AllNames, Discs, AppNames
<1>4. /\ \A x \in {"plane", "cube", "sun", "sunDisc", "moonDisc"} : Users[x] = {}
  BY DEF Users, AllNames, Discs, EntityNames
<1>5. /\ Users["planeMesh"] = {"plane"}
      /\ Users["cubeMesh"] = {"cube"}
      /\ Users["capsuleMesh"] = {"entity"}
      /\ Users["markerMesh"] = {"marker"}
      /\ Users["discMesh"] = {"sunDisc", "moonDisc"}
  BY DEF Users, AllNames, Discs, MeshNames
<1>6. /\ Users["planeMaterial"] = {"plane"}
      /\ Users["cubeMaterial"] = {"cube"}
      /\ Users["sunMaterial"] = {"sunDisc"}
      /\ Users["moonMaterial"] = {"moonDisc"}
      /\ Users["material"] = {"planeMaterial", "cubeMaterial"}
      /\ Users["unlitBase"] = {"sunMaterial", "moonMaterial", "markerMaterial"}
      /\ Users["characterBase"] = {"playerMaterial"}
  BY DEF Users, AllNames, Discs, MaterialNames
<1>7. /\ \A x \in {"entity", "marker"} : Users[x] = {}
      /\ Users["playerMaterial"] = {"entity"}
      /\ Users["markerMaterial"] = {"marker"}
  BY DEF Users, AllNames, Discs, VisualNames
<1>. QED
  BY <1>1, <1>2, <1>3, <1>4, <1>5, <1>6, <1>7
-----------------------------------------------------------------------------
(* Orders of destruction.                                                  *)

\* Every object of the order exists, and its users are destroyed before it: in
\* the order itself or with the ones that went before.
Safe(existing, before, order) ==
  \A i \in DOMAIN order :
    /\ order[i] \in existing
    /\ \A user \in Users[order[i]] :
         user \in existing => user \in before \/ \E j \in 1..i : order[j] = user

LEMMA SafeIsNoMisuse ==
  ASSUME NEW existing, NEW order, Safe(existing, {}, order), NEW null
  PROVE  ~Misuse(existing, order, null)
  BY DEF Safe, Misuse

LEMMA SafeChain ==
  ASSUME NEW existing, NEW before, NEW a \in Seq(AllNames), NEW b \in Seq(AllNames),
         Safe(existing, before, a), Safe(existing, before \cup Range(a), b)
  PROVE  Safe(existing, before, a \o b)
<1>. DEFINE c == a \o b
<1>1. /\ DOMAIN c = 1..(Len(a) + Len(b)) /\ DOMAIN a = 1..Len(a) /\ DOMAIN b = 1..Len(b)
      /\ Len(a) \in Nat /\ Len(b) \in Nat
      /\ \A i \in 1..Len(a) : c[i] = a[i]
      /\ \A i \in 1..Len(b) : c[Len(a) + i] = b[i]
  BY Concatenated
<1>. HIDE DEF c
<1>2. ASSUME NEW i \in 1..(Len(a) + Len(b))
      PROVE  /\ c[i] \in existing
             /\ \A user \in Users[c[i]] :
                  user \in existing => user \in before \/ \E j \in 1..i : c[j] = user
  <2>1. CASE i <= Len(a)
    <3>1. i \in DOMAIN a /\ c[i] = a[i] /\ \A j \in 1..i : c[j] = a[j]
      BY <1>1, <2>1
    <3>. QED
      BY <3>1 DEF Safe
  <2>2. CASE ~(i <= Len(a))
    <3>. DEFINE k == i - Len(a)
    <3>1. k \in 1..Len(b) /\ i = Len(a) + k /\ k \in DOMAIN b
      BY <1>1, <2>2
    <3>2. \A j \in 1..k : Len(a) + j \in 1..i /\ j \in 1..Len(b)
      BY <1>1, <3>1
    <3>3. \A j \in DOMAIN a : j \in 1..i /\ c[j] = a[j]
      BY <1>1, <3>1
    <3>. HIDE DEF k
    <3>4. c[i] = b[k]
      BY <1>1, <3>1
    <3>5. ASSUME NEW user \in Users[c[i]], user \in existing, user \notin before
          PROVE  \E j \in 1..i : c[j] = user
      <4>1. user \in Range(a) \/ \E j \in 1..k : b[j] = user
        BY <3>1, <3>4, <3>5 DEF Safe
      <4>2. CASE user \in Range(a)
        BY <3>3, <4>2 DEF Range
      <4>3. CASE \E j \in 1..k : b[j] = user
        <5>1. PICK j \in 1..k : b[j] = user
          BY <4>3
        <5>2. c[Len(a) + j] = user
          BY <1>1, <3>2, <5>1
        <5>. QED
          BY <3>2, <5>1, <5>2
      <4>. QED
        BY <4>1, <4>2, <4>3
    <3>. QED
      BY <3>1, <3>4, <3>5 DEF Safe
  <2>. QED
    BY <2>1, <2>2
<1>3. Safe(existing, before, c)
  BY <1>1, <1>2 DEF Safe
<1>. QED
  BY <1>3 DEF c

LEMMA UiSafe ==
  ASSUME NEW existing, NEW before, UiNames \subseteq existing
  PROVE  Safe(existing, before, UiObjects)
<1>1. DOMAIN UiObjects = 1..9
  BY DEF UiObjects
<1>2. /\ UiObjects[1] = "uiRenderable" /\ UiObjects[2] = "uiCamera" /\ UiObjects[3] = "uiView"
      /\ UiObjects[4] = "uiScene" /\ UiObjects[5] = "uiVertexBuffer" /\ UiObjects[6] = "uiIndexBuffer"
      /\ UiObjects[7] = "uiAtlas" /\ UiObjects[8] = "uiMaterialInstance"
      /\ UiObjects[9] = "uiMaterial"
  BY DEF UiObjects
<1>3. \A i \in 1..9 : i \in {1, 2, 3, 4, 5, 6, 7, 8, 9}
  OBVIOUS
<1>4. /\ 1 \in 1..5 /\ 1 \in 1..6 /\ 1 \in 1..8 /\ 8 \in 1..9
  OBVIOUS
<1>. QED
  BY <1>1, <1>2, <1>3, <1>4, UsersOf DEF Safe, UiNames

LEMMA EntitiesSafe ==
  ASSUME NEW existing, NEW before, EntityNames \subseteq existing
  PROVE  Safe(existing, before, Entities)
<1>1. \A i \in DOMAIN Entities : Entities[i] \in EntityNames
  BY Names DEF Range
<1>. QED
  BY <1>1, UsersOf DEF Safe, EntityNames

LEMMA LightSafe ==
  ASSUME NEW existing, NEW before, IndirectLight \in existing
  PROVE  Safe(existing, before, <<IndirectLight>>)
<1>1. \A i \in DOMAIN <<IndirectLight>> : <<IndirectLight>>[i] = IndirectLight
  OBVIOUS
<1>. QED
  BY <1>1, UsersOf DEF Safe

LEMMA VisualSafe ==
  ASSUME NEW existing, NEW before, VisualNames \subseteq existing
  PROVE  Safe(existing, before, Visual)
<1>1. DOMAIN Visual = 1..4 /\ Visual[1] = "entity" /\ Visual[2] = "playerMaterial"
      /\ Visual[3] = "marker" /\ Visual[4] = "markerMaterial"
  BY DEF Visual
<1>2. \A i \in 1..4 : i \in {1, 2, 3, 4}
  OBVIOUS
<1>3. 1 \in 1..2 /\ 3 \in 1..4
  OBVIOUS
<1>. QED
  BY <1>1, <1>2, <1>3, UsersOf DEF Safe, VisualNames

LEMMA MeshesSafe ==
  ASSUME NEW existing, NEW before, MeshNames \subseteq existing,
         (EntityNames \cup VisualNames) \cap existing \subseteq before
  PROVE  Safe(existing, before, Meshes)
<1>1. \A i \in DOMAIN Meshes : Meshes[i] \in MeshNames
  BY Names DEF Range
<1>2. \A x \in MeshNames : Users[x] \subseteq EntityNames \cup VisualNames
  BY UsersOf DEF MeshNames, EntityNames, VisualNames
<1>. QED
  BY <1>1, <1>2 DEF Safe

LEMMA MaterialsSafe ==
  ASSUME NEW existing, NEW before, MaterialNames \subseteq existing,
         (EntityNames \cup VisualNames) \cap existing \subseteq before
  PROVE  Safe(existing, before, Materials)
<1>1. DOMAIN Materials = 1..7 /\ Materials[1] = "planeMaterial" /\ Materials[2] = "cubeMaterial"
      /\ Materials[3] = "sunMaterial" /\ Materials[4] = "moonMaterial" /\ Materials[5] = "material"
      /\ Materials[6] = "unlitBase" /\ Materials[7] = "characterBase"
  BY DEF Materials
<1>2. \A i \in 1..7 : i \in {1, 2, 3, 4, 5, 6, 7}
  OBVIOUS
<1>3. 1 \in 1..5 /\ 2 \in 1..5 /\ 3 \in 1..6 /\ 4 \in 1..6
  OBVIOUS
<1>4. "plane" \in EntityNames /\ "cube" \in EntityNames /\ "sunDisc" \in EntityNames
      /\ "moonDisc" \in EntityNames /\ "playerMaterial" \in VisualNames /\ "markerMaterial" \in VisualNames
  BY DEF EntityNames, VisualNames
<1>. QED
  BY <1>1, <1>2, <1>3, <1>4, UsersOf DEF Safe, MaterialNames

LEMMA AppSafe ==
  ASSUME NEW existing, NEW before, AppNames \subseteq existing,
         existing \subseteq before \cup AppNames
  PROVE  Safe(existing, before, AppObjects)
<1>1. DOMAIN AppObjects = 1..6 /\ AppObjects[1] = "view" /\ AppObjects[2] = "scene"
      /\ AppObjects[3] = "renderer" /\ AppObjects[4] = "camera" /\ AppObjects[5] = "swapChain"
      /\ AppObjects[6] = "engine"
  BY DEF AppObjects
<1>2. \A i \in 1..6 : i \in {1, 2, 3, 4, 5, 6}
  OBVIOUS
<1>3. \A x \in AppNames : \E j \in 1..6 : AppObjects[j] = x
  BY Names, <1>1 DEF Range
<1>. QED
  BY <1>1, <1>2, <1>3, UsersOf DEF Safe, AppNames

\* The world goes after its players, and the interface's and Application's own
\* objects around it: no order that the client uses destroys what is in use.
LEMMA VisualsSafe ==
  ASSUME NEW existing, NEW before, NEW players, VisualNames \subseteq existing \/ players = {}
  PROVE  /\ VisualsOf(players) \in Seq(AllNames)
         /\ Range(VisualsOf(players)) = (IF players = {} THEN {} ELSE VisualNames)
         /\ Safe(existing, before, VisualsOf(players))
<1>1. CASE players = {}
  <2>1. VisualsOf(players) = <<>>
    BY <1>1 DEF VisualsOf
  <2>2. <<>> \in Seq(AllNames) /\ DOMAIN <<>> = {}
    OBVIOUS
  <2>. QED
    BY <1>1, <2>1, <2>2 DEF Safe, Range
<1>2. CASE players # {}
  BY <1>2, VisualSafe, Names DEF VisualsOf
<1>. QED
  BY <1>1, <1>2

WorldNames == EntityNames \cup MeshNames \cup MaterialNames \cup {IndirectLight}

LEMMA InOrderSafe ==
  ASSUME NEW s, NEW existing, NEW before, WorldNames \subseteq existing,
         IF s.mPlayers = {} THEN VisualNames \cap existing = {} ELSE VisualNames \subseteq existing
  PROVE  /\ InOrder(s) \in Seq(AllNames)
         /\ Range(InOrder(s)) = WorldNames \cup (VisualNames \cap existing)
         /\ Safe(existing, before, InOrder(s))
<1>. DEFINE p == VisualsOf(s.mPlayers)
            l == <<IndirectLight>>
            e == Entities \o l
            v == e \o p
<1>1. p \in Seq(AllNames) /\ Range(p) = VisualNames \cap existing
  BY VisualsSafe
<1>2. \A b : Safe(existing, b, p)
  BY VisualsSafe
<1>3. e \in Seq(AllNames) /\ Range(e) = EntityNames \cup {IndirectLight}
  <2>1. l \in Seq(AllNames) /\ Range(l) = {IndirectLight}
    BY Names
  <2>. HIDE DEF l
  <2>. QED
    BY <2>1, Names, Concatenated
<1>4. Safe(existing, before, e)
  <2>1. Safe(existing, before, Entities)
    BY EntitiesSafe DEF WorldNames
  <2>2. Safe(existing, before \cup Range(Entities), <<IndirectLight>>)
    BY LightSafe DEF WorldNames
  <2>. QED
    BY <2>1, <2>2, Names, SafeChain
<1>. HIDE DEF p, e
<1>5. v \in Seq(AllNames) /\ Range(v) = EntityNames \cup {IndirectLight} \cup (VisualNames \cap existing)
  BY <1>1, <1>3, Concatenated
<1>6. Safe(existing, before, v)
  BY <1>1, <1>2, <1>3, <1>4, SafeChain
<1>. HIDE DEF v
<1>7. Safe(existing, before \cup Range(v), Resources)
  <2>1. Safe(existing, before \cup Range(v), Meshes)
    <3>1. MeshNames \subseteq existing
      BY DEF WorldNames
    <3>2. (EntityNames \cup VisualNames) \cap existing \subseteq before \cup Range(v)
      BY <1>5
    <3>. QED
      BY <3>1, <3>2, MeshesSafe
  <2>2. Safe(existing, (before \cup Range(v)) \cup Range(Meshes), Materials)
    <3>1. MaterialNames \subseteq existing
      BY DEF WorldNames
    <3>2. (EntityNames \cup VisualNames) \cap existing \subseteq (before \cup Range(v)) \cup Range(Meshes)
      BY <1>5
    <3>. QED
      BY <3>1, <3>2, MaterialsSafe
  <2>. QED
    BY <2>1, <2>2, Names, SafeChain DEF Resources
<1>8. InOrder(s) = v \o Resources
  BY DEF InOrder, v, e, l, p
<1>9. v \o Resources \in Seq(AllNames) /\ Range(v \o Resources) = Range(v) \cup Range(Resources)
  BY <1>5, ComposedNames, Concatenated
<1>10. Safe(existing, before, v \o Resources)
  BY <1>5, <1>6, <1>7, ComposedNames, SafeChain
<1>. QED
  BY <1>5, <1>8, <1>9, <1>10, ComposedNames DEF WorldNames

LEMMA TornSafe ==
  ASSUME NEW s, NEW existing, UiNames \subseteq existing, AppNames \subseteq existing,
         IF s.mLoaded
         THEN /\ WorldNames \subseteq existing
              /\ IF s.mPlayers = {} THEN VisualNames \cap existing = {} ELSE VisualNames \subseteq existing
         ELSE existing \subseteq UiNames \cup AppNames,
         existing \subseteq AllNames
  PROVE  Safe(existing, {}, UiObjects \o (IF s.mLoaded THEN InOrder(s) ELSE <<>>) \o AppObjects)
<1>. DEFINE w == IF s.mLoaded THEN InOrder(s) ELSE <<>>
            u == UiObjects \o w
<1>1. /\ w \in Seq(AllNames)
      /\ existing \subseteq UiNames \cup Range(w) \cup AppNames
      /\ Safe(existing, UiNames, w)
  <2>1. CASE s.mLoaded
    <3>1. w = InOrder(s)
      BY <2>1
    <3>2. /\ InOrder(s) \in Seq(AllNames)
          /\ Range(InOrder(s)) = WorldNames \cup (VisualNames \cap existing)
          /\ Safe(existing, UiNames, InOrder(s))
      BY <2>1, InOrderSafe
    <3>. QED
      BY <3>1, <3>2 DEF AllNames, WorldNames
  <2>2. CASE ~s.mLoaded
    <3>1. w = <<>>
      BY <2>2
    <3>2. <<>> \in Seq(AllNames) /\ DOMAIN <<>> = {}
      OBVIOUS
    <3>. QED
      BY <2>2, <3>1, <3>2 DEF Safe, Range
  <2>. QED
    BY <2>1, <2>2
<1>. HIDE DEF w
<1>2. u \in Seq(AllNames) /\ Range(u) = UiNames \cup Range(w)
  BY <1>1, Names, Concatenated
<1>3. Safe(existing, {}, u)
  <2>1. Safe(existing, {}, UiObjects)
    BY UiSafe
  <2>2. {} \cup Range(UiObjects) = UiNames
    BY Names
  <2>. QED
    BY <1>1, <2>1, <2>2, Names, SafeChain
<1>. HIDE DEF u
<1>4. Safe(existing, {} \cup Range(u), AppObjects)
  BY <1>1, <1>2, AppSafe
<1>5. Safe(existing, {}, u \o AppObjects)
  BY <1>2, <1>3, <1>4, Names, SafeChain
<1>. QED
  BY <1>5 DEF u, w
-----------------------------------------------------------------------------
(* The scene.                                                              *)

\* What is rendered exists and is what the flags say; without a world there is
\* nobody and nothing in it.
SceneOK(s) ==
  /\ s \in Scenes(Others \cup {Own})
  /\ s.inScene \subseteq EntityNames
  /\ s.mLoaded => s.inScene \cap Discs = s.discs
  /\ ~s.mLoaded => s.inScene = {} /\ s.discs = {} /\ s.mPlayers = {}

\* Nothing is missing, nothing is left over, and nothing was misused.
Whole(s) ==
  /\ ~s.misused
  /\ s.alive = UiNames \cup AppNames \cup (IF s.mLoaded THEN WorldNames ELSE {})

\* The names of one part are none of another's.
LEMMA Disjoint ==
  /\ WorldObjects = WorldNames /\ Objects = AllNames
  /\ Range(UiObjects \o AppObjects) = UiNames \cup AppNames
  /\ Range(AppObjects \o UiObjects) = UiNames \cup AppNames
  /\ Range(Entities) = EntityNames /\ Range(Visual) = VisualNames
  /\ (UiNames \cup AppNames) \cap WorldNames = {}
  /\ (UiNames \cup AppNames) \cap VisualNames = {} /\ WorldNames \cap VisualNames = {}
  /\ Discs \subseteq EntityNames /\ Discs \cap {"plane", "cube", "sun"} = {}
  /\ {"plane", "cube", "sun"} \subseteq EntityNames
  /\ UiNames \cup AppNames \cup WorldNames \subseteq AllNames /\ EntityNames \subseteq AllNames
<1>1. /\ WorldObjects = WorldNames /\ Objects = AllNames
      /\ Range(UiObjects \o AppObjects) = UiNames \cup AppNames
      /\ Range(AppObjects \o UiObjects) = UiNames \cup AppNames
      /\ Range(Entities) = EntityNames /\ Range(Visual) = VisualNames
  BY Names, ComposedNames DEF WorldNames, AllNames
<1>2. (UiNames \cup AppNames) \cap WorldNames = {}
  BY DEF UiNames, AppNames, WorldNames, EntityNames, MeshNames, MaterialNames, IndirectLight
<1>3. (UiNames \cup AppNames) \cap VisualNames = {}
  BY DEF UiNames, AppNames, VisualNames
<1>4. WorldNames \cap VisualNames = {}
  BY DEF VisualNames, WorldNames, EntityNames, MeshNames, MaterialNames, IndirectLight
<1>5. /\ Discs \subseteq EntityNames /\ Discs \cap {"plane", "cube", "sun"} = {}
      /\ {"plane", "cube", "sun"} \subseteq EntityNames
  BY DEF Discs, EntityNames
<1>6. UiNames \cup AppNames \cup WorldNames \subseteq AllNames /\ EntityNames \subseteq AllNames
  BY DEF AllNames, WorldNames
<1>. QED
  BY <1>1, <1>2, <1>3, <1>4, <1>5, <1>6

LEMMA Built ==
  ASSUME NEW s, SceneOK(s), Whole(s), ~s.mLoaded
  PROVE  SceneOK(build(s)) /\ Whole(build(s)) /\ build(s).mLoaded
<1>. DEFINE b == build(s)
<1>1. /\ b.mLoaded = TRUE /\ b.mPlayers = s.mPlayers /\ b.discs = s.discs
      /\ b.inScene = s.inScene \cup {"plane", "cube", "sun"}
      /\ b.alive = s.alive \cup WorldObjects
      /\ b.misused = (s.misused \/ s.alive \cap WorldObjects # {})
  BY DEF SceneOK, Scenes, build
<1>2. b \in Scenes(Others \cup {Own})
  <2>1. s.inScene \cup {"plane", "cube", "sun"} \in SUBSET Objects
        /\ s.alive \cup WorldObjects \in SUBSET Objects
    BY Disjoint DEF SceneOK, Scenes
  <2>. QED
    BY <2>1 DEF SceneOK, Scenes, build
<1>. HIDE DEF b
<1>3. ~b.misused
  BY <1>1, Disjoint DEF Whole
<1>4. b.alive = UiNames \cup AppNames \cup WorldNames
  BY <1>1, Disjoint DEF Whole
<1>5. b.inScene \subseteq EntityNames /\ b.inScene \cap Discs = b.discs
  BY <1>1, Disjoint DEF SceneOK
<1>6. SceneOK(b) /\ Whole(b) /\ b.mLoaded
  BY <1>1, <1>2, <1>3, <1>4, <1>5 DEF SceneOK, Whole
<1>. QED
  BY <1>6 DEF b

LEMMA SkyApplied ==
  ASSUME NEW s, SceneOK(s), Whole(s), NEW visible \in SUBSET Discs
  PROVE  /\ SceneOK(applySky(s, visible)) /\ Whole(applySky(s, visible))
         /\ applySky(s, visible).mLoaded = s.mLoaded
<1>1. CASE ~s.mLoaded
  BY <1>1 DEF applySky
<1>2. CASE s.mLoaded
  <2>. DEFINE b == applySky(s, visible)
  <2>1. /\ b.mLoaded = s.mLoaded /\ b.mPlayers = s.mPlayers /\ b.discs = visible
        /\ b.inScene = (s.inScene \cup (visible \ s.discs)) \ (s.discs \ visible)
        /\ b.alive = s.alive /\ b.misused = s.misused
    BY <1>2 DEF SceneOK, Scenes, applySky
  <2>2. b \in Scenes(Others \cup {Own})
    <3>1. (s.inScene \cup (visible \ s.discs)) \ (s.discs \ visible) \in SUBSET Objects
      BY Disjoint DEF SceneOK, Scenes
    <3>. QED
      BY <1>2, <3>1 DEF SceneOK, Scenes, applySky
  <2>. HIDE DEF b
  <2>3. b.inScene \subseteq EntityNames /\ b.inScene \cap Discs = b.discs
    BY <1>2, <2>1, Disjoint DEF SceneOK
  <2>4. SceneOK(b) /\ Whole(b) /\ b.mLoaded = s.mLoaded
    BY <1>2, <2>1, <2>2, <2>3 DEF SceneOK, Whole
  <2>. QED
    BY <2>4 DEF b
<1>3. s.mLoaded \in BOOLEAN
  BY DEF SceneOK, Scenes
<1>. QED
  BY <1>1, <1>2, <1>3

\* Who is gone goes with all of its objects.
LEMMA PlayersReplicated ==
  ASSUME NEW s, SceneOK(s), Whole(s), s.mLoaded, NEW present \in SUBSET (Others \cup {Own})
  PROVE  /\ SceneOK(PlayersAfter(s, present, present)) /\ Whole(PlayersAfter(s, present, present))
         /\ PlayersAfter(s, present, present).mLoaded
         /\ PlayersAfter(s, present, present).mPlayers = present
<1>. DEFINE gone == (s.mPlayers \cup present) \ present
            b == PlayersAfter(s, present, present)
            bad == Misuse(s.alive \cup Range(Visual), VisualsOf(gone), {})
<1>. HIDE DEF bad
<1>1. ~bad
  <2>1. Safe(s.alive \cup Range(Visual), {}, VisualsOf(gone))
    BY Disjoint, VisualsSafe
  <2>. QED
    BY <2>1, SafeIsNoMisuse DEF bad
<1>2. b = [s EXCEPT !.mPlayers = (s.mPlayers \cup present) \cap present,
                    !.misused = s.misused \/ bad]
  BY DEF PlayersAfter, bad
<1>3. (s.mPlayers \cup present) \cap present = present
  OBVIOUS
<1>4. (s.misused \/ bad) = FALSE
  BY <1>1 DEF Whole
<1>5. b = [s EXCEPT !.mPlayers = present, !.misused = FALSE]
  BY <1>2, <1>3, <1>4
<1>. HIDE DEF b
<1>6. /\ b.mLoaded = s.mLoaded /\ b.mPlayers = present /\ b.discs = s.discs
      /\ b.inScene = s.inScene /\ b.alive = s.alive /\ b.misused = FALSE
  BY <1>5 DEF SceneOK, Scenes
<1>7. b \in Scenes(Others \cup {Own})
  BY <1>5 DEF SceneOK, Scenes
<1>8. SceneOK(b) /\ Whole(b) /\ b.mLoaded /\ b.mPlayers = present
  BY <1>6, <1>7 DEF SceneOK, Whole
<1>. QED
  BY <1>8 DEF b

LEMMA Existing ==
  ASSUME NEW s, SceneOK(s), Whole(s),
         NEW existing, existing = s.alive \cup Range(VisualsOf(s.mPlayers))
  PROVE  /\ UiNames \subseteq existing /\ AppNames \subseteq existing /\ existing \subseteq AllNames
         /\ IF s.mLoaded
            THEN /\ WorldNames \subseteq existing
                 /\ IF s.mPlayers = {} THEN VisualNames \cap existing = {} ELSE VisualNames \subseteq existing
            ELSE existing \subseteq UiNames \cup AppNames
<1>1. Range(VisualsOf(s.mPlayers)) = (IF s.mPlayers = {} THEN {} ELSE VisualNames)
  <2>1. VisualNames \subseteq VisualNames \/ s.mPlayers = {}
    OBVIOUS
  <2>. QED
    BY <2>1, VisualsSafe
<1>2. VisualNames \subseteq AllNames
  BY DEF AllNames
<1>3. UiNames \subseteq existing /\ AppNames \subseteq existing
  BY DEF Whole
<1>4. existing \subseteq AllNames
  BY <1>1, <1>2, Disjoint DEF Whole
<1>5. CASE s.mLoaded
  BY <1>1, <1>3, <1>4, <1>5, Disjoint DEF Whole
<1>6. CASE ~s.mLoaded
  BY <1>1, <1>3, <1>4, <1>6 DEF Whole, SceneOK
<1>. QED
  BY <1>5, <1>6

LEMMA Destroyed ==
  ASSUME NEW s, SceneOK(s), Whole(s)
  PROVE  SceneOK(destroy(s)) /\ Whole(destroy(s)) /\ ~destroy(s).mLoaded
<1>1. CASE ~s.mLoaded
  BY <1>1 DEF destroy
<1>2. CASE s.mLoaded
  <2>. DEFINE existing == s.alive \cup Range(VisualsOf(s.mPlayers))
              bad == Misuse(existing, InOrder(s), {})
              b == destroy(s)
  <2>. HIDE DEF bad
  <2>1. ~bad
    <3>. HIDE DEF existing
    <3>1. /\ WorldNames \subseteq existing
          /\ IF s.mPlayers = {} THEN VisualNames \cap existing = {} ELSE VisualNames \subseteq existing
      BY <1>2, Existing DEF existing
    <3>2. Safe(existing, {}, InOrder(s))
      BY <3>1, InOrderSafe
    <3>. QED
      BY <3>2, SafeIsNoMisuse DEF bad
  <2>2. b = [s EXCEPT !.mLoaded = FALSE, !.discs = {}, !.inScene = s.inScene \ Range(Entities),
                      !.alive = s.alive \ WorldObjects, !.mPlayers = {},
                      !.misused = s.misused \/ bad]
    BY <1>2 DEF destroy, bad, DiscsForgotten
  <2>3. (s.misused \/ bad) = FALSE
    BY <2>1 DEF Whole
  <2>4. s.inScene \ Range(Entities) = {} /\ s.alive \ WorldObjects = UiNames \cup AppNames
    BY <1>2, Disjoint DEF SceneOK, Whole
  <2>5. b = [s EXCEPT !.mLoaded = FALSE, !.discs = {}, !.inScene = {},
                      !.alive = UiNames \cup AppNames, !.mPlayers = {}, !.misused = FALSE]
    BY <2>2, <2>3, <2>4
  <2>. HIDE DEF b
  <2>6. /\ b.mLoaded = FALSE /\ b.mPlayers = {} /\ b.discs = {}
        /\ b.inScene = {} /\ b.alive = UiNames \cup AppNames /\ b.misused = FALSE
    BY <2>5 DEF SceneOK, Scenes
  <2>7. b \in Scenes(Others \cup {Own})
    <3>1. UiNames \cup AppNames \in SUBSET Objects
      BY Disjoint
    <3>. QED
      BY <2>5, <3>1 DEF SceneOK, Scenes
  <2>8. SceneOK(b) /\ Whole(b) /\ ~b.mLoaded
    BY <2>6, <2>7 DEF SceneOK, Whole
  <2>. QED
    BY <2>8 DEF b
<1>3. s.mLoaded \in BOOLEAN
  BY DEF SceneOK, Scenes
<1>. QED
  BY <1>1, <1>2, <1>3

\* ~Application of a client that was initialised leaves nothing.
LEMMA TornDown ==
  ASSUME NEW s, SceneOK(s), Whole(s)
  PROVE  /\ SceneOK(Torn(s)) /\ ~Torn(s).mLoaded
         /\ ~Torn(s).misused /\ Torn(s).alive = {} /\ Torn(s).mPlayers = {}
<1>. DEFINE existing == s.alive \cup Range(VisualsOf(s.mPlayers))
            order == UiObjects \o (IF s.mLoaded THEN InOrder(s) ELSE <<>>) \o AppObjects
            null == Range(UiObjects \o AppObjects) \ s.alive
            bad == Misuse(existing, order, null)
            d == destroy(s)
            b == Torn(s)
<1>. HIDE DEF bad, d
<1>1. ~bad
  <2>1. Safe(existing, {}, order)
    <3>. HIDE DEF existing
    <3>1. /\ UiNames \subseteq existing /\ AppNames \subseteq existing /\ existing \subseteq AllNames
          /\ IF s.mLoaded
             THEN /\ WorldNames \subseteq existing
                  /\ IF s.mPlayers = {} THEN VisualNames \cap existing = {} ELSE VisualNames \subseteq existing
             ELSE existing \subseteq UiNames \cup AppNames
      BY Existing DEF existing
    <3>. QED
      BY <3>1, TornSafe
  <2>. HIDE DEF existing, order, null
  <2>. QED
    BY <2>1, SafeIsNoMisuse DEF bad
<1>2. SceneOK(d) /\ Whole(d) /\ ~d.mLoaded
  BY Destroyed DEF d
<1>3. b = [d EXCEPT !.alive = d.alive \ Range(UiObjects \o AppObjects),
                    !.misused = d.misused \/ "uiScene" \notin s.alive \/ bad]
  BY DEF Torn, d, bad
<1>4. (d.misused \/ "uiScene" \notin s.alive \/ bad) = FALSE
  <2>1. "uiScene" \in s.alive
    BY DEF Whole, UiNames
  <2>. QED
    BY <1>1, <1>2, <2>1 DEF Whole
<1>5. d.alive \ Range(UiObjects \o AppObjects) = {}
  BY <1>2, Disjoint DEF Whole
<1>6. b = [d EXCEPT !.alive = {}, !.misused = FALSE]
  BY <1>3, <1>4, <1>5
<1>. HIDE DEF b
<1>7. /\ b.mLoaded = d.mLoaded /\ b.mPlayers = d.mPlayers /\ b.discs = d.discs
      /\ b.inScene = d.inScene /\ b.alive = {} /\ b.misused = FALSE
  BY <1>2, <1>6 DEF SceneOK, Scenes
<1>8. b \in Scenes(Others \cup {Own})
  BY <1>2, <1>6 DEF SceneOK, Scenes
<1>9. SceneOK(b) /\ ~b.mLoaded /\ ~b.misused /\ b.alive = {} /\ b.mPlayers = {}
  BY <1>2, <1>7, <1>8 DEF SceneOK
<1>. QED
  BY <1>9 DEF b

LEMMA Initialised ==
  /\ SceneOK(initialised("done")) /\ Whole(initialised("done"))
  /\ ~initialised("done").mLoaded
<1>. DEFINE b == initialised("done")
<1>1. {"engine"} \cup AppNames \cup UiNames = UiNames \cup AppNames
  BY DEF AppNames
<1>2. b = [NoWorld EXCEPT !.alive = UiNames \cup AppNames]
  BY <1>1, Names DEF initialised
<1>. HIDE DEF b
<1>3. /\ b.mLoaded = FALSE /\ b.mPlayers = {} /\ b.discs = {}
      /\ b.inScene = {} /\ b.alive = UiNames \cup AppNames /\ b.misused = FALSE
  BY <1>2 DEF NoWorld
<1>4. b \in Scenes(Others \cup {Own})
  <2>1. UiNames \cup AppNames \in SUBSET Objects
    BY Disjoint
  <2>. QED
    BY <1>2, <2>1 DEF NoWorld, Scenes
<1>5. SceneOK(b) /\ Whole(b) /\ ~b.mLoaded
  BY <1>3, <1>4 DEF SceneOK, Whole
<1>. QED
  BY <1>5 DEF b

\* ~Application after an init that failed: there was no world to destroy.
LEMMA NeverStarted ==
  ASSUME NEW stage \in InitStages
  PROVE  SceneOK(Torn(initialised(stage))) /\ ~Torn(initialised(stage)).mLoaded
<1>. DEFINE i == initialised(stage)
            existing == {"engine"}
                        \cup (IF stage = "engine" THEN {} ELSE Range(AppObjects))
                        \cup (IF stage = "font" THEN {"uiMaterial", "uiMaterialInstance"}
                              ELSE IF stage = "done" THEN Range(UiObjects) ELSE {})
            bad == \/ "uiScene" \notin i.alive
                   \/ Misuse(i.alive \cup Range(VisualsOf(i.mPlayers)),
                             UiObjects \o (IF i.mLoaded THEN InOrder(i) ELSE <<>>) \o AppObjects,
                             Range(UiObjects \o AppObjects) \ i.alive)
            b == Torn(i)
<1>. HIDE DEF bad
<1>1. existing \in SUBSET Objects
  BY Names, Disjoint DEF UiNames, AppNames
<1>. HIDE DEF existing
<1>2. i = [NoWorld EXCEPT !.alive = existing]
  BY DEF initialised, existing
<1>. HIDE DEF i
<1>3. i.mLoaded = FALSE /\ i.misused = FALSE
  BY <1>2 DEF NoWorld
<1>4. destroy(i) = i
  BY <1>3 DEF destroy
<1>5. b = [i EXCEPT !.alive = i.alive \ Range(UiObjects \o AppObjects),
                    !.misused = i.misused \/ bad]
  BY <1>4 DEF Torn, bad
<1>. HIDE DEF b
<1>6. (i.misused \/ bad) \in BOOLEAN
  OBVIOUS
<1>7. /\ b.mLoaded = FALSE /\ b.mPlayers = {} /\ b.discs = {} /\ b.inScene = {}
  BY <1>2, <1>5 DEF NoWorld
<1>8. b \in Scenes(Others \cup {Own})
  <2>1. i \in Scenes(Others \cup {Own})
    BY <1>1, <1>2 DEF Scenes, NoWorld
  <2>2. i.alive \ Range(UiObjects \o AppObjects) \in SUBSET Objects
    BY <2>1 DEF Scenes
  <2>. QED
    BY <1>5, <1>6, <2>1, <2>2 DEF Scenes
<1>9. SceneOK(b) /\ ~b.mLoaded
  BY <1>7, <1>8 DEF SceneOK
<1>. QED
  BY <1>9 DEF b, i
-----------------------------------------------------------------------------
(* The session's invariant.                                                *)

\* The screen follows the connection's state, and that the connection; there is
\* a UDP address, and something on its way to the server, in the world only.
Connected ==
  /\ mState = "Login" => net \in {"Idle", "Failed"}
  /\ mState = "Connecting" => net \in {"ConnectingAuth", "AwaitingLogin", "ConnectingWorld",
                                       "AwaitingJoin", "Failed"}
  /\ mState \in {"InGame", "Menu"} => net = "InWorld"
  /\ mState = "Closed" => net = "Idle"
  /\ net \notin {"AwaitingJoin", "InWorld"} => link = "none"
  /\ net = "InWorld" => link \in {"joined", "closed"}
  /\ net # "InWorld" => datagrams = {} /\ ~bound
  /\ link = "closed" => ~bound

\* The client has entities for those of the newest snapshot and for nobody that
\* no snapshot of the session reported, and draws just them.
People ==
  /\ newest \subseteq mEntities /\ mEntities \subseteq reported
  /\ loaded => drawn = mEntities

\* The world exists on its screens, and nothing of it on the others.
Staged ==
  /\ SceneOK(scene)
  /\ loaded <=> mState \in {"InGame", "Menu"}
  /\ ~loaded /\ mState # "Closed" => ~active
  /\ mState # "Closed" => Whole(scene)
  /\ mState = "Closed" /\ "init" \notin Faults => scene.alive = {} /\ ~scene.misused

\* A client that plays on is heard every second: after a tick its input is on
\* its way, or the server has had it.
Audible ==
  /\ link = "closed" => excused
  /\ ~excused /\ net = "InWorld" => mState = "InGame"
  /\ ~excused /\ link = "joined" /\ bound =>
        silence <= 1 /\ (ticked => "input" \in datagrams \/ silence = 0)

SessionInv == TypeOK /\ Connected /\ People /\ Staged /\ Audible

NetStates == {"Idle", "ConnectingAuth", "AwaitingLogin", "ConnectingWorld",
              "AwaitingJoin", "InWorld", "Failed"}

\* The states poll can leave the client in, by the screen it is on.
Follows(n) ==
  /\ mState = "Login" => n \in {"Idle", "Failed"}
  /\ mState = "Connecting" => n \in NetStates \ {"Idle"}
  /\ mState \in {"InGame", "Menu"} => n \in {"InWorld", "Failed"}

\* loadWorld and unloadWorld.
LEMMA SceneFollows ==
  ASSUME SessionInv, mState # "Closed", NEW n \in NetStates, Follows(n)
  PROVE  /\ SceneOK(SceneFor(n)) /\ Whole(SceneFor(n))
         /\ SceneFor(n).mLoaded <=> Screen(n) \in {"InGame", "Menu"}
         /\ loaded \/ SceneFor(n).mLoaded \/ ~active
<1>1. SceneOK(scene) /\ Whole(scene) /\ (scene.mLoaded <=> mState \in {"InGame", "Menu"})
      /\ (~scene.mLoaded => ~active)
  BY DEF SessionInv, Staged, loaded
<1>2. mState \in {"Login", "Connecting", "InGame", "Menu"}
  BY DEF SessionInv, TypeOK
<1>3. CASE mState = "Connecting" /\ n = "InWorld"
  <2>1. Screen(n) = "InGame" /\ SceneFor(n) = build(scene)
    BY <1>3 DEF Screen, SceneFor
  <2>2. ~scene.mLoaded
    BY <1>1, <1>3
  <2>. QED
    BY <1>1, <2>1, <2>2, Built DEF loaded
<1>4. CASE mState \in {"InGame", "Menu"} /\ n = "Failed"
  <2>1. Screen(n) = "Login" /\ SceneFor(n) = destroy(scene)
    BY <1>4 DEF Screen, SceneFor
  <2>. QED
    BY <1>1, <1>4, <2>1, Destroyed DEF loaded
<1>5. CASE mState \in {"InGame", "Menu"} /\ n = "InWorld"
  <2>1. Screen(n) = mState /\ SceneFor(n) = scene
    BY <1>5 DEF Screen, SceneFor
  <2>. QED
    BY <1>1, <1>5, <2>1 DEF loaded
<1>6. CASE mState = "Login" \/ (mState = "Connecting" /\ n # "InWorld")
  <2>1. Screen(n) \in {"Login", "Connecting"} /\ SceneFor(n) = scene
    BY <1>6 DEF Screen, SceneFor
  <2>. QED
    BY <1>1, <1>6, <2>1 DEF loaded
<1>. QED
  BY <1>2, <1>3, <1>4, <1>5, <1>6 DEF Follows

\* What a frame leaves of the screen.
Framed(n, e) ==
  /\ SceneOK(scene') /\ Whole(scene')
  /\ scene'.mLoaded <=> Screen(n) \in {"InGame", "Menu"}
  /\ ~scene'.mLoaded => ~active'
  /\ scene'.mLoaded => scene'.mPlayers \ {Own} = e
  /\ active' \in BOOLEAN /\ upToDate' \in BOOLEAN
  /\ mLastReconciledSnapshot' \in 0..MaxSnapshots

LEMMA FrameScene ==
  ASSUME SessionInv, NEW n \in NetStates, Follows(n), NEW e \in SUBSET Others,
         NEW received \in 0..MaxSnapshots, NEW hello, Update(n, e, received, hello)
  PROVE  Framed(n, e)
<1>1. mState # "Closed" /\ active \in BOOLEAN /\ upToDate \in BOOLEAN
      /\ mLastReconciledSnapshot \in 0..MaxSnapshots
  BY DEF Update, SessionInv, TypeOK
<1>. DEFINE s == SceneFor(n)
<1>2. PICK sky \in IF s.mLoaded THEN Skies ELSE {{}} : Replicate(applySky(s, sky), e, received)
  BY DEF Update
<1>. DEFINE a == applySky(s, sky)
            present == e \cup (IF received > 0 THEN {Own} ELSE {})
<1>3. /\ SceneOK(s) /\ Whole(s) /\ (s.mLoaded <=> Screen(n) \in {"InGame", "Menu"})
      /\ (loaded \/ s.mLoaded \/ ~active)
  BY <1>1, SceneFollows
<1>. HIDE DEF s
<1>4. sky \in SUBSET Discs
  BY <1>2 DEF Skies
<1>5. SceneOK(a) /\ Whole(a) /\ a.mLoaded = s.mLoaded
  BY <1>3, <1>4, SkyApplied
<1>6. Replicate(a, e, received)
  BY <1>2
<1>. HIDE DEF a
<1>7. CASE a.mLoaded
  <2>1. present \in SUBSET (Others \cup {Own}) /\ present \ {Own} = e
    BY SessionAssumption
  <2>2. /\ scene' = PlayersAfter(a, present, present)
        /\ active' = (active \/ received > 0)
        /\ \/ upToDate' = TRUE /\ mLastReconciledSnapshot' = mLastReconciledSnapshot
           \/ upToDate' = TRUE /\ mLastReconciledSnapshot' = received
           \/ /\ upToDate' = (upToDate /\ received = mSnapshotsReceived)
              /\ mLastReconciledSnapshot' = mLastReconciledSnapshot
    BY <1>6, <1>7 DEF Replicate, Reconciled
  <2>. HIDE DEF present
  <2>3. SceneOK(scene') /\ Whole(scene') /\ scene'.mLoaded /\ scene'.mPlayers = present
    BY <1>5, <1>7, <2>1, <2>2, PlayersReplicated
  <2>4. active' \in BOOLEAN
    BY <2>2
  <2>5. upToDate' \in BOOLEAN
    BY <2>2
  <2>6. mLastReconciledSnapshot' \in 0..MaxSnapshots
    BY <1>1, <2>2
  <2>. QED
    BY <1>3, <1>5, <1>7, <2>1, <2>3, <2>4, <2>5, <2>6 DEF Framed
<1>8. CASE ~a.mLoaded
  <2>1. /\ scene' = a /\ active' = (IF loaded THEN FALSE ELSE active)
        /\ upToDate' = upToDate /\ mLastReconciledSnapshot' = mLastReconciledSnapshot
    BY <1>6, <1>8 DEF Replicate
  <2>2. ~active' /\ active' \in BOOLEAN
    BY <1>1, <1>3, <1>5, <1>8, <2>1
  <2>. QED
    BY <1>1, <1>3, <1>5, <1>8, <2>1, <2>2 DEF Framed
<1>. QED
  BY <1>7, <1>8

\* A frame keeps the invariant when what poll found of the connection agrees
\* with the state it leaves the client in.
LEMMA FrameKeeps ==
  ASSUME SessionInv, NEW n \in NetStates, Follows(n), NEW e \in SUBSET Others,
         NEW received \in 0..MaxSnapshots, NEW hello \in SUBSET {"hello", "input"},
         Update(n, e, received, hello),
         newest' \subseteq e, e \subseteq reported', reported' \subseteq Others,
         link' \in {"none", "joining", "joined", "refused", "closed"},
         bound' \in BOOLEAN, bound' => bound,
         n \notin {"AwaitingJoin", "InWorld"} => link' = "none",
         n = "InWorld" => link' = link /\ link \in {"joined", "closed"},
         n = "InWorld" => net = "InWorld" \/ ~bound,
         n # "InWorld" => ~bound',
         n \notin {"InWorld", "Failed"} => net # "InWorld" /\ hello = {},
         link' = "closed" => link = "closed",
         UNCHANGED <<silence, world, excused, sessions>>
  PROVE  SessionInv'
<1>1. Framed(n, e)
  BY FrameScene
<1>2. /\ mState # "Closed" /\ net' = n /\ mEntities' = e /\ mSnapshotsReceived' = received
      /\ mState' = Screen(n) /\ ticked' = TRUE
      /\ datagrams' = (IF n = "Failed" THEN {} ELSE datagrams \cup hello \cup Input(n))
      /\ snapshots' = (IF n = "Failed" THEN {} ELSE snapshots)
  BY DEF Update
<1>3. Screen(n) \in {"Login", "Connecting", "InGame", "Menu"}
  BY <1>2 DEF SessionInv, TypeOK, Screen
<1>4. Input(n) \in SUBSET {"input"}
  BY DEF Input
<1>5. TypeOK'
  <2>1. datagrams' \subseteq {"hello", "input"}
    BY <1>2, <1>4 DEF SessionInv, TypeOK
  <2>2. snapshots' \in SUBSET SUBSET Others
    BY <1>2 DEF SessionInv, TypeOK
  <2>3. scene' \in Scenes(Others \cup {Own})
    BY <1>1 DEF Framed, SceneOK
  <2>4. newest' \subseteq Others
    OBVIOUS
  <2>5. silence' \in 0..(Limit + 1) /\ world' \subseteq Others /\ excused' \in BOOLEAN
        /\ sessions' \in 0..MaxSessions
    BY DEF SessionInv, TypeOK
  <2>. QED
    BY <1>1, <1>2, <1>3, <2>1, <2>2, <2>3, <2>4, <2>5 DEF TypeOK, Framed, NetStates
<1>6. /\ Screen(n) = "Login" => n \in {"Idle", "Failed"}
      /\ Screen(n) = "Connecting" => n \in {"ConnectingAuth", "AwaitingLogin", "ConnectingWorld",
                                            "AwaitingJoin"}
      /\ Screen(n) \in {"InGame", "Menu"} => n = "InWorld"
      /\ n = "InWorld" /\ Screen(n) # "InGame" => mState = "Menu"
  <2>1. mState \in {"Login", "Connecting", "InGame", "Menu"}
    BY <1>2 DEF SessionInv, TypeOK
  <2>. QED
    BY <2>1 DEF Follows, Screen, NetStates
<1>7. Connected'
  <2>1. n # "InWorld" => datagrams' = {}
    BY <1>2 DEF SessionInv, Connected, Input
  <2>2. link' = "closed" => ~bound'
    BY DEF SessionInv, Connected
  <2>. QED
    BY <1>2, <1>3, <1>6, <2>1, <2>2 DEF Connected
<1>8. People'
  BY <1>1, <1>2 DEF People, Framed, loaded, drawn
<1>9. Staged'
  BY <1>1, <1>2, <1>3 DEF Staged, Framed, loaded
<1>10. Audible'
  <2>1. link' = "closed" => excused'
    BY DEF SessionInv, Audible
  <2>2. ~excused' /\ net' = "InWorld" => mState' = "InGame"
    BY <1>2, <1>6 DEF SessionInv, Audible, Connected
  <2>3. ASSUME ~excused', link' = "joined", bound'
        PROVE  silence' <= 1 /\ (ticked' => "input" \in datagrams' \/ silence' = 0)
    <3>1. n = "InWorld" /\ net = "InWorld" /\ link = "joined" /\ bound
      BY <2>3
    <3>2. silence <= 1
      BY <2>3, <3>1 DEF SessionInv, Audible
    <3>3. "input" \in datagrams'
      BY <1>2, <2>2, <2>3, <3>1 DEF Input
    <3>. QED
      BY <3>2, <3>3
  <2>. QED
    BY <2>1, <2>2, <2>3 DEF Audible
<1>. QED
  BY <1>5, <1>7, <1>8, <1>9, <1>10 DEF SessionInv

\* A frame in which poll finds no snapshot.
LEMMA MovesKeep ==
  ASSUME SessionInv, NEW n \in NetStates, Follows(n), NEW hello \in SUBSET {"hello", "input"},
         Moves(n, hello),
         link' \in {"none", "joining", "joined", "refused", "closed"},
         bound' \in BOOLEAN, bound' => bound,
         n \notin {"AwaitingJoin", "InWorld"} => link' = "none",
         n = "InWorld" => link' = link /\ link \in {"joined", "closed"},
         n = "InWorld" => net = "InWorld" \/ ~bound,
         n # "InWorld" => ~bound',
         n \notin {"InWorld", "Failed"} => net # "InWorld" /\ hello = {},
         link' = "closed" => link = "closed",
         UNCHANGED <<heard, silence, world, excused, sessions>>
  PROVE  SessionInv'
<1>1. /\ mEntities \in SUBSET Others /\ mSnapshotsReceived \in 0..MaxSnapshots
      /\ newest' \subseteq mEntities /\ mEntities \subseteq reported' /\ reported' \subseteq Others
  BY DEF SessionInv, TypeOK, People, heard
<1>2. Update(n, mEntities, mSnapshotsReceived, hello)
  BY DEF Moves
<1>. QED
  BY <1>1, <1>2, FrameKeeps

LEMMA ConnectingKeeps ==
  ASSUME SessionInv, PollNothing \/ Answered
  PROVE  SessionInv'
<1>. USE DEF NetStates
<1>1. /\ link \in {"none", "joining", "joined", "refused", "closed"} /\ bound \in BOOLEAN
      /\ mState \in {"Login", "Connecting", "InGame", "Menu", "Closed"}
  BY DEF SessionInv, TypeOK
<1>2. net \notin {"Idle", "Failed", "InWorld"} => mState = "Connecting" /\ ~bound
  BY <1>1 DEF SessionInv, Connected
<1>3. CASE PollNothing
  <2>1. net \in NetStates /\ net # "InWorld"
    BY <1>3 DEF PollNothing
  <2>2. Follows(net) /\ ~bound /\ (net # "AwaitingJoin" => link = "none")
    BY <1>1, <2>1 DEF SessionInv, Connected, Follows
  <2>3. Moves(net, {}) /\ UNCHANGED <<heard, silence, world, excused, sessions>>
        /\ link' = link /\ bound' = bound
    BY <1>3 DEF PollNothing, serverVars
  <2>. QED
    BY <1>1, <2>1, <2>2, <2>3, MovesKeep
<1>4. CASE AuthReached \/ LoginAnswered
  <2>1. PICK n \in {"AwaitingLogin", "ConnectingWorld", "Failed"} : Moves(n, {})
    BY <1>4 DEF AuthReached, LoginAnswered
  <2>2. /\ net \in {"ConnectingAuth", "AwaitingLogin"}
        /\ UNCHANGED <<heard, silence, world, excused, sessions>>
        /\ link' = link /\ bound' = bound
    BY <1>4 DEF AuthReached, LoginAnswered, serverVars
  <2>3. Follows(n) /\ ~bound /\ link = "none"
    BY <1>2, <2>1, <2>2 DEF SessionInv, Connected, Follows
  <2>. QED
    BY <1>1, <2>1, <2>2, <2>3, MovesKeep
<1>5. CASE WorldReached
  <2>1. /\ net = "ConnectingWorld" /\ ~bound /\ link = "none"
        /\ UNCHANGED <<heard, silence, world, excused, sessions>> /\ bound' = bound
    BY <1>2, <1>5 DEF WorldReached, SessionInv, Connected
  <2>2. Follows("AwaitingJoin") /\ Follows("Failed")
    BY <1>2, <2>1 DEF Follows
  <2>3. CASE Moves("AwaitingJoin", {}) /\ link' = "joining"
    BY <1>1, <2>1, <2>2, <2>3, MovesKeep
  <2>4. CASE Moves("Failed", {}) /\ UNCHANGED link
    BY <1>1, <2>1, <2>2, <2>4, MovesKeep
  <2>. QED
    BY <1>5, <2>3, <2>4 DEF WorldReached
<1>6. CASE JoinAnswered
  <2>1. /\ net = "AwaitingJoin" /\ ~bound
        /\ UNCHANGED <<heard, silence, world, excused, sessions>>
    BY <1>2, <1>6 DEF JoinAnswered
  <2>2. Follows("InWorld") /\ Follows("Failed")
    BY <1>2, <2>1 DEF Follows
  <2>3. CASE link = "joined" /\ Moves("InWorld", {"hello"}) /\ UNCHANGED <<link, bound>>
    BY <1>1, <2>1, <2>2, <2>3, MovesKeep
  <2>4. CASE Moves("Failed", {}) /\ link' = "none" /\ bound' = FALSE
    BY <1>1, <2>1, <2>2, <2>4, MovesKeep
  <2>. QED
    BY <1>6, <2>3, <2>4 DEF JoinAnswered
<1>. QED
  BY <1>3, <1>4, <1>5, <1>6 DEF Answered

LEMMA PollingKeeps ==
  ASSUME SessionInv, PollWorld({}) \/ PollWorld(Hello) \/ PollSnapshot \/ PollClosed
  PROVE  SessionInv'
<1>. USE DEF NetStates
<1>1. /\ link \in {"none", "joining", "joined", "refused", "closed"} /\ bound \in BOOLEAN
      /\ mState \in {"Login", "Connecting", "InGame", "Menu", "Closed"}
  BY DEF SessionInv, TypeOK
<1>2. net = "InWorld"
  BY DEF PollWorld, PollSnapshot, PollClosed
<1>3. mState \in {"InGame", "Menu"} /\ link \in {"joined", "closed"}
  BY <1>1, <1>2 DEF SessionInv, Connected
<1>4. Follows("InWorld") /\ Follows("Failed")
  BY <1>3 DEF Follows
<1>5. CASE PollWorld({}) \/ PollWorld(Hello)
  <2>1. PICK hello \in SUBSET {"hello", "input"} : Moves("InWorld", hello)
    BY <1>5 DEF PollWorld, Hello
  <2>2. UNCHANGED <<heard, silence, world, excused, sessions>> /\ link' = link /\ bound' = bound
    BY <1>5 DEF PollWorld, serverVars
  <2>. QED
    BY <1>1, <1>2, <1>3, <1>4, <2>1, <2>2, MovesKeep
<1>6. CASE PollSnapshot
  <2>1. PICK s \in snapshots : /\ Update("InWorld", mEntities \cup s, mSnapshotsReceived + 1, {})
                               /\ newest' = s /\ reported' = reported \cup s
    BY <1>6 DEF PollSnapshot
  <2>2. /\ UNCHANGED <<silence, world, excused, sessions>> /\ link' = link /\ bound' = bound
        /\ mSnapshotsReceived < MaxSnapshots
    BY <1>6 DEF PollSnapshot, serverVars
  <2>3. s \in SUBSET Others /\ mEntities \in SUBSET Others /\ reported \in SUBSET Others
        /\ mEntities \subseteq reported
    BY <2>1 DEF SessionInv, TypeOK, People
  <2>4. mSnapshotsReceived + 1 \in 0..MaxSnapshots
    BY <2>2, SessionAssumption DEF SessionInv, TypeOK
  <2>5. /\ mEntities \cup s \in SUBSET Others
        /\ newest' \subseteq mEntities \cup s /\ mEntities \cup s \subseteq reported'
        /\ reported' \subseteq Others
    BY <2>1, <2>3
  <2>. QED
    BY <1>1, <1>2, <1>3, <1>4, <2>1, <2>2, <2>4, <2>5, FrameKeeps
<1>7. CASE PollClosed
  <2>1. /\ Moves("Failed", {}) /\ link = "closed" /\ link' = "none" /\ bound' = bound
        /\ UNCHANGED <<heard, silence, world, excused, sessions>>
    BY <1>7 DEF PollClosed
  <2>2. ~bound
    BY <2>1 DEF SessionInv, Connected
  <2>. QED
    BY <1>1, <1>2, <1>4, <2>1, <2>2, MovesKeep
<1>. QED
  BY <1>5, <1>6, <1>7

\* disconnect leaves nothing of the session.
LEMMA DisconnectKeeps ==
  ASSUME SessionInv, NEW n \in NetStates \ {"AwaitingJoin", "InWorld"}, disconnect(n),
         mState' \in {"Login", "Connecting", "Closed"},
         mState' = "Login" => n \in {"Idle", "Failed"},
         mState' = "Connecting" => n \in {"ConnectingAuth", "Failed"},
         mState' = "Closed" => n = "Idle",
         SceneOK(scene'), ~scene'.mLoaded,
         mState' # "Closed" => Whole(scene') /\ ~active',
         mState' = "Closed" => scene'.alive = {} /\ ~scene'.misused,
         active' \in BOOLEAN, excused' \in BOOLEAN, sessions' \in 0..MaxSessions,
         UNCHANGED <<mLastReconciledSnapshot, upToDate, world, ticked>>
  PROVE  SessionInv'
<1>1. /\ net' = n /\ mEntities' = {} /\ newest' = {} /\ reported' = {}
      /\ mSnapshotsReceived' = 0 /\ datagrams' = {} /\ snapshots' = {}
      /\ link' = "none" /\ bound' = FALSE /\ silence' = 0
  BY DEF disconnect, EntitiesDropped
<1>2. TypeOK'
  <2>1. 0 \in 0..MaxSnapshots /\ 0 \in 0..(Limit + 1)
    BY SessionAssumption
  <2>2. /\ mLastReconciledSnapshot' \in 0..MaxSnapshots /\ upToDate' \in BOOLEAN
        /\ world' \subseteq Others /\ ticked' \in BOOLEAN
    BY DEF SessionInv, TypeOK
  <2>. QED
    BY <1>1, <2>1, <2>2 DEF TypeOK, NetStates, SceneOK
<1>3. Connected'
  BY <1>1 DEF Connected, NetStates
<1>4. People'
  BY <1>1 DEF People, loaded
<1>5. Staged'
  BY DEF Staged, loaded
<1>6. Audible'
  BY <1>1 DEF Audible
<1>. QED
  BY <1>2, <1>3, <1>4, <1>5, <1>6 DEF SessionInv

LEMMA UserKeeps ==
  ASSUME SessionInv, Submit \/ OpenMenu \/ Resume \/ Logout \/ Quit
  PROVE  SessionInv'
<1>1. /\ active \in BOOLEAN /\ excused \in BOOLEAN /\ sessions \in 0..MaxSessions
      /\ mState \in {"Login", "Connecting", "InGame", "Menu", "Closed"}
  BY DEF SessionInv, TypeOK
<1>2. SceneOK(scene) /\ (mState # "Closed" => Whole(scene))
      /\ (scene.mLoaded <=> mState \in {"InGame", "Menu"})
      /\ (~scene.mLoaded /\ mState # "Closed" => ~active)
  BY DEF SessionInv, Staged, loaded
<1>3. CASE Submit
  <2>1. PICK n \in {"ConnectingAuth", "Failed"} : disconnect(n)
    BY <1>3 DEF Submit, login
  <2>2. /\ mState = "Login" /\ mState' = "Connecting" /\ scene' = scene /\ active' = active
        /\ excused' = FALSE /\ sessions' = sessions + 1 /\ sessions < MaxSessions
        /\ UNCHANGED <<mLastReconciledSnapshot, upToDate, world, ticked>>
    BY <1>3 DEF Submit, LoginOffered
  <2>3. sessions' \in 0..MaxSessions
    BY <1>1, <2>2, SessionAssumption
  <2>. QED
    BY <1>1, <1>2, <2>1, <2>2, <2>3, DisconnectKeeps DEF NetStates
<1>4. CASE OpenMenu \/ Resume
  <2>1. /\ mState' \in {"InGame", "Menu"} /\ mState \in {"InGame", "Menu"}
        /\ excused' \in {excused, TRUE} /\ (mState' = "Menu" => excused')
        /\ (mState = "Menu" => excused' = excused)
        /\ UNCHANGED <<scene, active, mLastReconciledSnapshot, upToDate, netVars,
                       serverVars, datagrams, snapshots, ticked, sessions>>
    BY <1>4 DEF OpenMenu, Resume, MenuOffered
  <2>2. TypeOK'
    <3>1. excused' \in BOOLEAN
      BY <1>1, <2>1
    <3>. QED
      BY <2>1, <3>1 DEF SessionInv, TypeOK, netVars, heard, serverVars
  <2>3. Connected'
    BY <2>1 DEF SessionInv, Connected, netVars, serverVars
  <2>4. People'
    BY <2>1 DEF SessionInv, People, netVars, heard, loaded, drawn
  <2>5. Staged'
    BY <2>1 DEF SessionInv, Staged, loaded
  <2>6. Audible'
    <3>1. excused => excused'
      BY <1>1, <2>1
    <3>2. net = "InWorld" /\ net' = net /\ link' = link /\ bound' = bound /\ silence' = silence
          /\ ticked' = ticked /\ datagrams' = datagrams
      BY <2>1 DEF SessionInv, Connected, netVars, serverVars
    <3>3. ~excused' => mState' = "InGame"
      BY <2>1
    <3>. QED
      BY <3>1, <3>2, <3>3 DEF SessionInv, Audible
  <2>. QED
    BY <2>2, <2>3, <2>4, <2>5, <2>6 DEF SessionInv
<1>5. CASE Logout
  <2>1. /\ mState = "Menu" /\ mState' = "Login" /\ disconnect("Idle")
        /\ scene' = destroy(scene) /\ active' = FALSE
        /\ UNCHANGED <<mLastReconciledSnapshot, upToDate, world, ticked, excused, sessions>>
    BY <1>5 DEF Logout, MenuOffered
  <2>2. SceneOK(scene') /\ Whole(scene') /\ ~scene'.mLoaded
    BY <1>2, <2>1, Destroyed
  <2>. QED
    BY <1>1, <2>1, <2>2, DisconnectKeeps DEF NetStates
<1>6. CASE Quit
  <2>1. /\ mState # "Closed" /\ mState' = "Closed" /\ disconnect("Idle")
        /\ scene' = Torn(scene) /\ active' = active
        /\ UNCHANGED <<mLastReconciledSnapshot, upToDate, world, ticked, excused, sessions>>
    BY <1>6 DEF Quit
  <2>2. SceneOK(scene') /\ ~scene'.mLoaded /\ ~scene'.misused /\ scene'.alive = {}
    BY <1>2, <2>1, TornDown
  <2>. QED
    BY <1>1, <2>1, <2>2, DisconnectKeeps DEF NetStates
<1>. QED
  BY <1>3, <1>4, <1>5, <1>6

\* The server and the network change nothing on the screen.
LEMMA ServerKeeps ==
  ASSUME SessionInv,
         \/ AnswerJoin \/ Hears("hello") \/ Hears("input") \/ Tick \/ Second \/ Timeout
         \/ OthersMove \/ Lose \/ Crash
  PROVE  SessionInv'
<1>1. UNCHANGED <<screenVars, netVars, sessions>>
  BY DEF AnswerJoin, Hears, Tick, Second, Timeout, OthersMove, Lose, Crash, serverVars
<1>2. People' /\ Staged'
  BY <1>1 DEF SessionInv, People, Staged, screenVars, netVars, heard, loaded, drawn
<1>3. UNCHANGED <<mState, net, scene, active, mLastReconciledSnapshot, upToDate, mSnapshotsReceived,
                  mEntities, newest, reported, sessions>>
  BY <1>1 DEF screenVars, netVars, heard
<1>4. /\ link \in {"none", "joining", "joined", "refused", "closed"} /\ bound \in BOOLEAN
      /\ silence \in 0..(Limit + 1) /\ world \subseteq Others /\ datagrams \subseteq {"hello", "input"}
      /\ snapshots \in SUBSET SUBSET Others /\ ticked \in BOOLEAN /\ excused \in BOOLEAN
  BY DEF SessionInv, TypeOK
<1>. DEFINE Typed == /\ link \in {"none", "joining", "joined", "refused", "closed"} /\ bound \in BOOLEAN
                     /\ silence \in 0..(Limit + 1) /\ world \subseteq Others
                     /\ datagrams \subseteq {"hello", "input"}
                     /\ snapshots \in SUBSET SUBSET Others /\ ticked \in BOOLEAN /\ excused \in BOOLEAN
<1>5. ASSUME Typed' PROVE TypeOK'
  BY <1>3, <1>5 DEF SessionInv, TypeOK
<1>6. SUFFICES Typed' /\ Connected' /\ Audible'
  BY <1>2, <1>5 DEF SessionInv
<1>7. Limit \in Nat \ {0} /\ 0 \in 0..(Limit + 1) /\ 0 <= 1
  BY SessionAssumption
<1>8. CASE AnswerJoin
  <2>1. /\ link = "joining" /\ link' \in {"joined", "refused"} /\ bound' = FALSE /\ silence' = 0
        /\ UNCHANGED <<world, datagrams, snapshots, ticked, excused>>
    BY <1>8 DEF AnswerJoin
  <2>2. net = "AwaitingJoin"
    BY <2>1 DEF SessionInv, Connected
  <2>3. Typed'
    BY <1>4, <1>7, <2>1
  <2>4. Connected'
    BY <1>3, <2>1, <2>2 DEF SessionInv, Connected
  <2>5. Audible'
    BY <1>3, <2>1, <2>2 DEF Audible
  <2>. QED
    BY <2>3, <2>4, <2>5
<1>9. ASSUME NEW d, Hears(d)
      PROVE  Typed' /\ Connected' /\ Audible'
  <2>1. /\ d \in datagrams /\ datagrams' = datagrams \ {d}
        /\ bound' = (bound \/ (link = "joined" /\ d = "hello"))
        /\ silence' = (IF link = "joined" /\ bound' THEN 0 ELSE silence)
        /\ UNCHANGED <<link, world, snapshots, ticked, excused>>
    BY <1>9 DEF Hears, Playing
  <2>2. net = "InWorld"
    BY <2>1 DEF SessionInv, Connected
  <2>3. Typed'
    <3>1. bound' \in BOOLEAN
      BY <2>1
    <3>2. silence' \in 0..(Limit + 1)
      BY <1>4, <1>7, <2>1
    <3>. QED
      BY <1>4, <2>1, <3>1, <3>2
  <2>4. Connected'
    BY <1>3, <2>1, <2>2 DEF SessionInv, Connected
  <2>5. link' = "joined" /\ bound' => silence' = 0
    BY <2>1
  <2>6. Audible'
    BY <1>3, <1>7, <2>1, <2>5 DEF SessionInv, Audible
  <2>. QED
    BY <2>3, <2>4, <2>6
<1>10. CASE Tick
  <2>1. /\ snapshots' = {world}
        /\ UNCHANGED <<link, bound, silence, world, datagrams, ticked, excused>>
    BY <1>10 DEF Tick, serverVars
  <2>. QED
    BY <1>3, <1>4, <2>1 DEF SessionInv, Connected, Audible
<1>11. CASE Second
  <2>1. /\ ticked /\ datagrams = {} /\ ticked' = FALSE
        /\ silence' = (IF link = "joined" /\ bound /\ silence <= Limit THEN silence + 1 ELSE silence)
        /\ UNCHANGED <<link, bound, world, datagrams, snapshots, excused>>
    BY <1>11 DEF Second, Playing
  <2>2. silence' \in 0..(Limit + 1)
    BY <1>4, <1>7, <2>1
  <2>3. Typed'
    BY <1>4, <2>1, <2>2
  <2>4. Connected'
    BY <1>3, <2>1 DEF SessionInv, Connected
  <2>5. ASSUME ~excused', link' = "joined", bound'
        PROVE  silence' <= 1
    <3>1. silence = 0
      BY <2>1, <2>5 DEF SessionInv, Audible
    <3>. QED
      BY <2>1, <3>1
  <2>6. Audible'
    BY <1>3, <2>1, <2>5 DEF SessionInv, Audible
  <2>. QED
    BY <2>3, <2>4, <2>6
<1>12. CASE Timeout
  <2>1. /\ link = "joined" /\ bound /\ silence > Limit /\ link' = "closed" /\ bound' = FALSE
        /\ UNCHANGED <<silence, world, datagrams, snapshots, ticked, excused>>
    BY <1>12 DEF Timeout, Playing
  <2>2. net = "InWorld"
    BY <2>1 DEF SessionInv, Connected
  <2>3. excused
    <3>1. ~(silence <= 1)
      BY <1>4, <1>7, <2>1
    <3>. QED
      BY <2>1, <3>1 DEF SessionInv, Audible
  <2>. QED
    BY <1>3, <1>4, <2>1, <2>2, <2>3 DEF SessionInv, Connected, Audible
<1>13. CASE OthersMove
  <2>1. /\ world' \subseteq Others
        /\ UNCHANGED <<link, bound, silence, datagrams, snapshots, ticked, excused>>
    BY <1>13 DEF OthersMove
  <2>. QED
    BY <1>3, <1>4, <2>1 DEF SessionInv, Connected, Audible
<1>14. CASE Lose
  <2>1. /\ \/ datagrams' \subseteq datagrams /\ excused' = TRUE /\ snapshots' = snapshots
           \/ snapshots' \subseteq snapshots /\ datagrams' = datagrams /\ excused' = excused
        /\ UNCHANGED <<link, bound, silence, world, ticked>>
    BY <1>14 DEF Lose, serverVars
  <2>2. Typed'
    BY <1>4, <2>1
  <2>3. Connected'
    BY <1>3, <2>1 DEF SessionInv, Connected
  <2>4. Audible'
    BY <1>3, <2>1 DEF SessionInv, Audible
  <2>. QED
    BY <2>2, <2>3, <2>4
<1>15. CASE Crash
  <2>1. /\ link \in {"joining", "joined"} /\ link' = "closed" /\ bound' = FALSE /\ excused' = TRUE
        /\ UNCHANGED <<silence, world, datagrams, snapshots, ticked>>
    BY <1>15 DEF Crash
  <2>2. net \in {"AwaitingJoin", "InWorld"}
    BY <2>1 DEF SessionInv, Connected
  <2>. QED
    BY <1>3, <1>4, <2>1, <2>2 DEF SessionInv, Connected, Audible
<1>. QED
  BY <1>8, <1>9, <1>10, <1>11, <1>12, <1>13, <1>14, <1>15

LEMMA SessionInvInit == Init => SessionInv
<1>. SUFFICES ASSUME Init PROVE SessionInv
  OBVIOUS
<1>1. /\ net = "Idle" /\ mSnapshotsReceived = 0 /\ mLastReconciledSnapshot = 0
      /\ mEntities = {} /\ newest = {} /\ reported = {}
      /\ active = FALSE /\ upToDate = TRUE /\ link = "none" /\ bound = FALSE /\ silence = 0
      /\ world \subseteq Others /\ datagrams = {} /\ snapshots = {}
      /\ ticked = FALSE /\ excused = FALSE /\ sessions = 0
  BY DEF Init
<1>2. /\ SceneOK(scene) /\ ~scene.mLoaded
      /\ \/ mState = "Login" /\ Whole(scene)
         \/ mState = "Closed" /\ "init" \in Faults
  <2>1. CASE mState = "Login" /\ scene = initialised("done")
    BY <2>1, Initialised
  <2>2. CASE /\ "init" \in Faults /\ mState = "Closed"
             /\ \E stage \in InitStages \ {"done"} : scene = Torn(initialised(stage))
    BY <2>2, NeverStarted
  <2>. QED
    BY <2>1, <2>2 DEF Init
<1>3. TypeOK
  <2>1. 0 \in 0..MaxSnapshots /\ 0 \in 0..(Limit + 1) /\ 0 \in 0..MaxSessions
    BY SessionAssumption
  <2>. QED
    BY <1>1, <1>2, <2>1 DEF TypeOK, SceneOK
<1>4. Connected /\ People
  BY <1>1, <1>2 DEF Connected, People, loaded
<1>5. Staged
  BY <1>1, <1>2 DEF Staged, loaded
<1>6. Audible
  BY <1>1 DEF Audible
<1>. QED
  BY <1>3, <1>4, <1>5, <1>6 DEF SessionInv

LEMMA SessionInvStep == SessionInv /\ [Next]_vars => SessionInv'
<1>. SUFFICES ASSUME SessionInv, [Next]_vars PROVE SessionInv'
  OBVIOUS
<1>1. CASE Next
  BY <1>1, ConnectingKeeps, PollingKeeps, UserKeeps, ServerKeeps DEF Next
<1>2. CASE UNCHANGED vars
  <2>1. TypeOK' /\ Connected' /\ People'
    BY <1>2 DEF vars, screenVars, netVars, heard, serverVars, SessionInv, TypeOK, Connected, People,
                loaded, drawn
  <2>2. Staged' /\ Audible'
    BY <1>2 DEF vars, screenVars, netVars, heard, serverVars, SessionInv, Staged, Audible, loaded
  <2>. QED
    BY <2>1, <2>2 DEF SessionInv
<1>. QED
  BY <1>1, <1>2

LEMMA SessionInvariant == Spec => []SessionInv
  BY SessionInvInit, SessionInvStep, PTL DEF Spec
-----------------------------------------------------------------------------
(* What it establishes.                                                    *)

\* Type correctness: every frame of Application::update, every button and
\* whatever the server and the network do keep each variable in its set.
THEOREM SessionTypeCorrect == Spec => []TypeOK
<1>1. SessionInv => TypeOK
  BY DEF SessionInv
<1>. QED
  BY <1>1, SessionInvariant, PTL

\* The world is loaded exactly on the game's screens, with a session behind it,
\* and nothing of it, of the prediction or of the others is left on the login
\* screen (Application::update, loadWorld, unloadWorld).
THEOREM ScreenFollowsSession == Spec => []ScreenMatchesSession
<1>1. SessionInv => ScreenMatchesSession
  <2>. SUFFICES ASSUME SessionInv PROVE ScreenMatchesSession
    OBVIOUS
  <2>1. ~scene.mLoaded => scene.mPlayers = {}
    BY DEF SessionInv, Staged, SceneOK
  <2>. QED
    BY <2>1 DEF SessionInv, Staged, Connected, ScreenMatchesSession, loaded, drawn
<1>. QED
  BY <1>1, SessionInvariant, PTL

\* The newest snapshot's players are drawn and nobody from an earlier session is
\* (NetClient::applySnapshot, disconnect, Application::applyReplication).
THEOREM DrawnWereReported == Spec => []ReportedAreDrawn
<1>1. SessionInv => ReportedAreDrawn
  BY DEF SessionInv, People, ReportedAreDrawn
<1>. QED
  BY <1>1, SessionInvariant, PTL

\* What is rendered exists, and DemoScene's flags for the two discs are what the
\* engine's scene holds, in every session (applySky, build, destroy).
THEOREM FlagsFollowScene == Spec => []SceneMatchesFlags
<1>1. SessionInv => SceneMatchesFlags
  <2>. SUFFICES ASSUME SessionInv PROVE SceneMatchesFlags
    OBVIOUS
  <2>1. SceneOK(scene)
    BY DEF SessionInv, Staged
  <2>2. scene.inScene \subseteq scene.alive
    <3>1. CASE scene.mLoaded
      <4>1. Whole(scene)
        BY <3>1 DEF SessionInv, Staged, loaded
      <4>. QED
        BY <2>1, <3>1, <4>1 DEF SceneOK, Whole, WorldNames
    <3>2. CASE ~scene.mLoaded
      BY <2>1, <3>2 DEF SceneOK
    <3>. QED
      BY <3>1, <3>2
  <2>. QED
    BY <2>1, <2>2 DEF SceneMatchesFlags, SceneOK, loaded
<1>. QED
  BY <1>1, SessionInvariant, PTL

\* Every object of the engine is destroyed once and after all its users, and none
\* is left, for a client whose start succeeded (DemoScene::destroy,
\* UiRenderer::destroy, ~Application).  The tear-down of a failed start is not.
THEOREM TeardownInOrder ==
  ASSUME "init" \notin Faults
  PROVE  Spec => []ResourcesInOrder
<1>1. SessionInv => ResourcesInOrder
  <2>. SUFFICES ASSUME SessionInv PROVE ResourcesInOrder
    OBVIOUS
  <2>1. mState # "Closed" => Whole(scene)
    BY DEF SessionInv, Staged
  <2>2. mState = "Closed" => scene.alive = {} /\ ~scene.misused
    BY DEF SessionInv, Staged
  <2>3. mState \in {"Login", "Connecting", "Closed"} => ~scene.mLoaded /\ scene.mPlayers = {}
    BY DEF SessionInv, Staged, SceneOK, loaded
  <2>. QED
    BY <2>1, <2>2, <2>3, Disjoint DEF ResourcesInOrder, Whole
<1>. QED
  BY <1>1, SessionInvariant, PTL

\* The server's sweep drops nobody who plays on, without the menu, over a network
\* that delivers (the input of the ticks, and UDP_TIMEOUT_SECONDS).
THEOREM WhoPlaysOnIsHeard == Spec => []PlayingOnIsHeard
<1>1. SessionInv => PlayingOnIsHeard
  BY DEF SessionInv, Audible, PlayingOnIsHeard
<1>. QED
  BY <1>1, SessionInvariant, PTL
=============================================================================
