------------------------- MODULE WallpaperContrast -------------------------
(***************************************************************************)
(* The veil that keeps text readable on a wallpaper (lib/wallpaper.ts).    *)
(* The colors of a picture are abstracted to what the choice depends on:   *)
(* from which strength of a veil on every retained color is readable, and  *)
(* the worst contrast of a custom ink at every strength.  A strength is a  *)
(* number of steps; the code has 1000 steps, and 10 halvings of 0..1 for   *)
(* the tones whose readability grows with the veil.                        *)
(***************************************************************************)
EXTENDS Naturals, FiniteSetsExt

CONSTANTS
  Halvings,  \* of the search for a preset ink (10 in the code)
  Steps,     \* strengths of a veil (1000 in the code)
  Target,    \* the contrast to reach (4.8); contrasts are 0..Target
  Absent     \* no preferred tone, nothing readable

ASSUME StepAssumption ==
  /\ Halvings \in Nat /\ Steps \in Nat \ {0} /\ Target \in Nat \ {0}
  /\ Steps < 2 ^ Halvings

Tones == {"light", "dark"}

ASSUME AbsentAssumption == Absent \notin Tones \cup [tone : Tones, scrim : 0..Steps]

Other(tone) == IF tone = "dark" THEN "light" ELSE "dark"

\* Both grids in one: a step is 2^Halvings units, a last half Steps of them.
Unit == 2 ^ Halvings
Full == Steps * Unit

RoundUp(units) == (units + Unit - 1) \div Unit

\* requiredScrim: bisect, then round up to a step.
RequiredScrim(readableFrom) ==
  LET readable(units) == units >= readableFrom
      interval[i \in 0..Halvings] ==
        IF i = 0 THEN <<0, Full>>
        ELSE LET lower == interval[i - 1][1]
                 upper == interval[i - 1][2]
                 middle == (lower + upper) \div 2
             IN IF readable(middle) THEN <<lower, middle>> ELSE <<middle, upper>>
  IN IF readable(0) THEN 0 ELSE RoundUp(interval[Halvings][2])

FullVeilAnyway(state, tone, worst) ==   \* mutant: the full veil need not improve
  [state EXCEPT !.best = [tone |-> tone, scrim |-> Steps], !.contrast = worst[tone][Steps]]

\* A full veil is a candidate only if it improves the worst contrast so far.
FullVeil(state, tone, worst) ==
  IF worst[tone][Steps] > state.contrast
  THEN [state EXCEPT !.best = [tone |-> tone, scrim |-> Steps],
                     !.contrast = worst[tone][Steps]]
  ELSE state

\* The first readable strength, looked for step by step: contrast with a custom
\* ink may fall before it grows.
FirstReadable(tone, worst) == Min({s \in 1..Steps : worst[tone][s] >= Target})

Consider(state, tone, worst) ==
  LET veiled == FullVeil(state, tone, worst) IN
  IF /\ worst[tone][Steps] >= Target
     /\ \/ state.readable = Absent
        \/ FirstReadable(tone, worst) < state.readable.scrim
  THEN [veiled EXCEPT !.readable = [tone |-> tone, scrim |-> FirstReadable(tone, worst)]]
  ELSE veiled

\* customInkScrim: the preferred tone of the veil first, then the other.
CustomInkScrim(worst, tone, unveiled) ==
  LET none == [best |-> [tone |-> tone, scrim |-> 0], contrast |-> unveiled,
               readable |-> Absent]
      both == Consider(Consider(none, tone, worst), Other(tone), worst)
  IN IF unveiled >= Target THEN none.best
     ELSE IF both.readable # Absent THEN both.readable ELSE both.best

\* A partial veil is measured against the very pixels; if it fails there, a
\* full one of the same tone.
CustomVeil(worst, tone, unveiled, measured) ==
  LET chosen == CustomInkScrim(worst, tone, unveiled) IN
  IF chosen.scrim \in 1..(Steps - 1) /\ measured < Target
  THEN [chosen EXCEPT !.scrim = Steps] ELSE chosen

\* classifyWallpaper with automatic contrast for a preset ink: the tone of the
\* user if there is one, else the weaker veil, else the natural tone.
PresetVeil(from, preferred, natural) ==
  LET scrim == [tone \in Tones |-> RequiredScrim(from[tone])]
      tone == IF preferred # Absent THEN preferred
              ELSE IF scrim["light"] = scrim["dark"] THEN natural
              ELSE CHOOSE t \in Tones : scrim[t] < scrim[Other(t)]
  IN [tone |-> tone, scrim |-> scrim[tone]]

-----------------------------------------------------------------------------
\* With a preset ink every retained color is readable under the chosen veil,
\* a veil weaker by one step and one last half would not do, and no other tone
\* has a weaker one unless the user chose the tone (requiredScrim,
\* classifyWallpaper).
LeastVeil ==
  \A from \in [Tones -> 0..Full], preferred \in Tones \cup {Absent}, natural \in Tones :
    LET veil == PresetVeil(from, preferred, natural) IN
    /\ veil.scrim * Unit >= from[veil.tone]
    /\ veil.scrim > 0 => veil.scrim * Unit < from[veil.tone] + Unit + Steps
    /\ preferred = Absent => veil.scrim <= RequiredScrim(from[Other(veil.tone)])

\* With a custom ink the picture is changed only to reach the contrast, with the
\* least partial veil, or to improve the worst contrast, with a full one; and it
\* is left alone only if it is readable or no full veil improves it
\* (customInkScrim, classifyWallpaper).
VeilHelps ==
  \A worst \in [Tones -> [1..Steps -> 0..Target]], tone \in Tones,
     unveiled \in 0..Target, measured \in {0, Target} :
    LET veil == CustomVeil(worst, tone, unveiled, measured)
        solid == {t \in Tones : worst[t][Steps] >= Target}
    IN CASE veil.scrim = 0 ->
              unveiled >= Target \/ \A t \in Tones : worst[t][Steps] <= unveiled
         [] veil.scrim = Steps ->
              worst[veil.tone][Steps] > unveiled
         [] OTHER ->
              /\ worst[veil.tone][veil.scrim] >= Target /\ unveiled < Target
              /\ measured >= Target
              /\ \A t \in solid, s \in 1..(veil.scrim - 1) : worst[t][s] < Target
=============================================================================
