------------------------ MODULE MCResourceContainer ------------------------
(* Instances of ResourceContainer for TLC. *)
EXTENDS ResourceContainer, TLC

CONSTANTS m1, t1, t2, i1, materials, textures, images, c1, w1

\* A material made by a function of the client wants two textures of the store:
\* one is a description on disk, of an image at a URL, the other is at something
\* that is not a URL.
MCHome ==
    (m1 :> materials) @@ (t1 :> textures) @@ (t2 :> textures) @@ (i1 :> images)

MCSource ==
    (m1 :> "made") @@ (t1 :> "local") @@ (t2 :> "badurl") @@ (i1 :> "remote")

MCNeeds ==
    (m1 :> {t1, t2}) @@ (t1 :> {i1}) @@ (t2 :> {}) @@ (i1 :> {})

MCOrder == <<materials, textures, images>>
=============================================================================
