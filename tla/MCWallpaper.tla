---------------------------- MODULE MCWallpaper ----------------------------
(* Instances of Wallpaper, and of the choice of its veil, for TLC. *)
EXTENDS Wallpaper, WallpaperContrast

\* The veil that a result was measured to need is enough, where one is, and no
\* stronger than it has to be, for either kind of ink (analyze,
\* classifyWallpaper).
VeilIsLeast ==
  sample # None /\ sample.veil = "measured" =>
    IF sample.key.ink \in Presets THEN LeastVeil ELSE VeilHelps
=============================================================================
