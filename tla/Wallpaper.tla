------------------------------ MODULE Wallpaper ------------------------------
(***************************************************************************)
(* The wallpaper of the home page and of its preview in the settings       *)
(* (useWallpaperAppearance, WallpaperBackground): an ordinary load decides *)
(* whether the image can be shown, a second load that a canvas may read    *)
(* decides which veil keeps the text readable, and two timers bound both.  *)
(* The home page keeps its startup shell until the first presentation.     *)
(*                                                                         *)
(* A render is not a step of its own: Appearance and Shows are what is on  *)
(* the screen in a state.  The effect that follows a change of the inputs  *)
(* is a step (RunEffect), and a load or a timer that fires between the two *)
(* is taken to fire before the change.                                     *)
(***************************************************************************)
EXTENDS Naturals

CONSTANTS
  Srcs,     \* images
  Looks,    \* darkness and blur
  Views,    \* theme and measured viewport
  Inks,     \* text tones and colors
  Presets,  \* the inks that are a mere tone (no preferredInk)
  Odd,      \* the colors that cannot be analyzed
  Default,  \* the ink of an account without settings
  MaxChanges,  \* bound on the changes of the inputs
  None

ASSUME InkAssumption ==
  /\ Presets \subseteq Inks /\ Odd \subseteq Inks \ Presets /\ Default \in Presets
  /\ None \notin Srcs \cup Views
  /\ MaxChanges \in Nat

VARIABLES
  preview,    \* the preview in the settings (analysisDelay > 0)
  panel,      \* the home page's settings: "pending", "shown" or "refused"
  input,      \* src, look, auto, view and ink of the last render
  run,        \* the effect: the inputs it began with and how far it is
  decoded,    \* decodedSrc
  imageRef,   \* the image a canvas may read
  sample,     \* the last result: the inputs it is for, its status and veil
  presented,  \* hasPresentedHome
  seen,       \* history: the images shown so far
  behind,     \* history: those that got a result behind a refused page
  changes     \* the changes so far

screen == <<presented, seen, behind>>
loads == <<run, decoded, imageRef, sample>>
vars == <<preview, panel, input, loads, screen, changes>>

Inputs == [src : Srcs \cup {None}, look : Looks, auto : BOOLEAN,
           view : Views \cup {None}, ink : Inks]

Runs == [of : Inputs, at : {"none", "settling", "loading", "decoding", "sampling", "over"},
         failed : BOOLEAN, timer : BOOLEAN]

Samples == [key : Inputs, status : {"ready", "unreadable", "error"},
            veil : {"none", "fallback", "measured"}]

ASSUME SampleAssumption == None \notin Samples

-----------------------------------------------------------------------------
(* What a render shows.                                                    *)

Context(k) == <<k.src, k.auto, k.view, k.ink>>
Protection(k) == <<k.src, k.auto, k.ink>>

ReadyOnDecode ==   \* mutant: the mask is not waited for
  decoded = input.src

DisplayReady ==
  /\ decoded = input.src
  /\ input.auto => sample # None /\ sample.key.src = input.src

BareWhileLoading ==   \* mutant: a change of theme or size drops the veil
  IF input.src = None
  THEN [status |-> "none", veil |-> "none"]
  ELSE IF sample # None /\ sample.key = input
  THEN [status |-> sample.status, veil |-> sample.veil]
  ELSE IF sample # None /\ Context(sample.key) = Context(input)
  THEN [status |-> IF preview THEN sample.status ELSE "loading", veil |-> sample.veil]
  ELSE [status |-> "loading", veil |-> "none"]

\* The result for these inputs; failing that the veil of a like result.
Appearance ==
  IF input.src = None
  THEN [status |-> "none", veil |-> "none"]
  ELSE IF sample # None /\ sample.key = input
  THEN [status |-> sample.status, veil |-> sample.veil]
  ELSE IF sample # None /\ Context(sample.key) = Context(input)
  THEN [status |-> IF preview THEN sample.status ELSE "loading", veil |-> sample.veil]
  ELSE IF /\ sample # None /\ input.auto
          /\ Protection(sample.key) = Protection(input) /\ sample.status # "error"
  THEN [status |-> "loading", veil |-> sample.veil]
  ELSE [status |-> "loading", veil |-> "none"]

\* The shell may give way to the page.
Presentable == panel = "shown" /\ (Appearance.status = "loading" => DisplayReady)

\* The image itself is on the screen.
Shows ==
  /\ panel = "shown" /\ presented
  /\ Appearance.status \notin {"none", "error"}
  /\ preview \/ Appearance.status # "loading" \/ DisplayReady

Render ==
  /\ presented' = (presented \/ Presentable')
  /\ seen' = IF Shows' THEN seen \cup {input'.src} ELSE seen
  /\ behind' = IF panel' = "refused" /\ sample' # sample
               THEN behind \cup {sample'.key.src} ELSE behind

-----------------------------------------------------------------------------
(* Changes of the inputs.                                                  *)

Idle(k) == [of |-> k, at |-> "none", failed |-> FALSE, timer |-> FALSE]

Init ==
  /\ preview \in BOOLEAN
  /\ IF preview
     THEN panel = "shown" /\ input \in {k \in Inputs : k.view = None}
     ELSE /\ panel = "pending"
          /\ \E l \in Looks : input = [src |-> None, look |-> l, auto |-> FALSE,
                                       view |-> None, ink |-> Default]
  /\ run = Idle(input)
  /\ decoded = None
  /\ imageRef = None
  /\ sample = None
  /\ presented = preview
  /\ seen = {} /\ behind = {}
  /\ changes = 0

\* React runs pending effects before it renders again.
Rerender(k) ==
  /\ run.of = input
  /\ input' = k
  /\ UNCHANGED <<preview, loads>>

PanelArrives ==
  /\ panel = "pending"
  /\ panel' = "shown"
  /\ \E k \in Inputs : k.view = input.view /\ Rerender(k)
  /\ UNCHANGED changes
  /\ Render

\* A refetch that is refused hides the page and keeps the data.
PanelRefused ==
  /\ panel = "shown" /\ ~preview /\ changes < MaxChanges
  /\ panel' = "refused"
  /\ changes' = changes + 1
  /\ UNCHANGED <<preview, input, loads>>
  /\ Render

\* The next one brings the page back, with the settings it has read, or with those
\* it had when it fails for another reason.
PanelBack ==
  /\ panel = "refused"
  /\ panel' = "shown"
  /\ \E k \in Inputs :
       /\ k.view = input.view /\ Rerender(k)
       /\ \/ k = input /\ UNCHANGED changes
          \/ k # input /\ changes < MaxChanges /\ changes' = changes + 1
  /\ Render

Measure ==
  /\ input.view = None
  /\ \E v \in Views : Rerender([input EXCEPT !.view = v])
  /\ UNCHANGED <<panel, changes>>
  /\ Render

\* A new size, 120 ms after the last resize, or another theme.
Resize ==
  /\ input.view # None /\ changes < MaxChanges
  /\ \E v \in Views \ {input.view} : Rerender([input EXCEPT !.view = v])
  /\ changes' = changes + 1
  /\ UNCHANGED panel
  /\ Render

\* Other settings were read, or the draft of the preview was edited.
Change ==
  /\ panel = "shown" /\ changes < MaxChanges
  /\ \E k \in Inputs \ {input} : k.view = input.view /\ Rerender(k)
  /\ changes' = changes + 1
  /\ UNCHANGED panel
  /\ Render

-----------------------------------------------------------------------------
(* The effect: loading, analysis, and the two timers.                      *)

Unreadable(k) ==
  [key |-> k, status |-> "unreadable",
   veil |-> IF k.auto /\ k.ink \in Presets THEN "fallback" ELSE "none"]

\* What analyze commits: a color it cannot analyze leaves the image alone, and
\* a canvas may be too large or refuse to be read.
Analyzed(k) ==
  IF k.ink \in Odd
  THEN {[key |-> k, status |-> "ready", veil |-> "none"]}
  ELSE {[key |-> k, status |-> "ready", veil |-> IF k.auto THEN "measured" ELSE "none"],
        Unreadable(k)}

Broken(k) == [key |-> k, status |-> "error", veil |-> "none"]

Load(k) ==
  IF imageRef = k.src
  THEN /\ run' = [Idle(k) EXCEPT !.at = "over"]
       /\ decoded' = k.src
       /\ sample' \in Analyzed(k)
  ELSE /\ run' = [Idle(k) EXCEPT !.at = "loading"]
       /\ UNCHANGED <<decoded, sample>>

\* The new run replaces the old one, whose timers and callbacks are cleared.
RunEffect ==
  /\ run.of # input
  /\ IF None \in {input.src, input.view}
     THEN run' = Idle(input) /\ UNCHANGED <<decoded, sample>>
     ELSE IF preview
     THEN run' = [Idle(input) EXCEPT !.at = "settling"] /\ UNCHANGED <<decoded, sample>>
     ELSE Load(input)
  /\ UNCHANGED <<preview, panel, input, imageRef, changes>>
  /\ Render

Continue == run.of = input /\ UNCHANGED <<preview, panel, input, changes>>

Settled ==
  /\ Continue
  /\ run.at = "settling"
  /\ Load(input)
  /\ UNCHANGED imageRef
  /\ Render

\* An image without pixels is a broken one; after the deadline nothing counts.
DisplayLoaded ==
  /\ Continue
  /\ run.at = "loading"
  /\ \/ /\ run.failed
        /\ run' = [run EXCEPT !.at = "over"] /\ UNCHANGED sample
     \/ /\ ~run.failed
        /\ run' = [run EXCEPT !.at = "decoding"] /\ UNCHANGED sample
     \/ /\ ~run.failed
        /\ run' = [run EXCEPT !.at = "over", !.failed = TRUE] /\ sample' = Broken(run.of)
  /\ UNCHANGED <<decoded, imageRef>>
  /\ Render

DisplayError ==
  /\ Continue
  /\ run.at = "loading"
  /\ run' = [run EXCEPT !.at = "over", !.failed = TRUE]
  /\ sample' = Broken(run.of)
  /\ UNCHANGED <<decoded, imageRef>>
  /\ Render

DisplayTimeoutUnsaid ==   \* mutant: the deadline passes without a result
  /\ Continue
  /\ run.at \in {"loading", "decoding"} /\ ~run.failed
  /\ run' = [run EXCEPT !.failed = TRUE]
  /\ UNCHANGED <<decoded, imageRef, sample>>
  /\ Render

\* 15 s for the load and the decoding together.
DisplayTimeout ==
  /\ Continue
  /\ run.at \in {"loading", "decoding"} /\ ~run.failed
  /\ run' = [run EXCEPT !.failed = TRUE]
  /\ sample' = Broken(run.of)
  /\ UNCHANGED <<decoded, imageRef>>
  /\ Render

\* decode() ended, well or not: the image can be shown, and the load for the
\* canvas begins with 1.5 s of its own.
Decoded ==
  /\ Continue
  /\ run.at = "decoding"
  /\ IF run.failed
     THEN run' = [run EXCEPT !.at = "over"] /\ UNCHANGED decoded
     ELSE /\ run' = [run EXCEPT !.at = "sampling", !.timer = TRUE]
          /\ decoded' = run.of.src
  /\ UNCHANGED <<imageRef, sample>>
  /\ Render

\* The fallback; a valid answer of the canvas load may still replace it.
AnalysisTimeout ==
  /\ Continue
  /\ run.timer
  /\ run' = [run EXCEPT !.timer = FALSE]
  /\ sample' = Unreadable(run.of)
  /\ UNCHANGED <<decoded, imageRef>>
  /\ Render

Sampled ==
  /\ Continue
  /\ run.at = "sampling"
  /\ run' = [run EXCEPT !.at = "over", !.timer = FALSE]
  /\ imageRef' = run.of.src
  /\ sample' \in Analyzed(run.of)
  /\ UNCHANGED decoded
  /\ Render

SampleErrorTimed ==   \* mutant: the timer is not cleared
  /\ Continue
  /\ run.at = "sampling"
  /\ run' = [run EXCEPT !.at = "over"]
  /\ sample' = Unreadable(run.of)
  /\ UNCHANGED <<decoded, imageRef>>
  /\ Render

\* The host does not allow the canvas to read it, or it has no pixels.
SampleError ==
  /\ Continue
  /\ run.at = "sampling"
  /\ run' = [run EXCEPT !.at = "over", !.timer = FALSE]
  /\ sample' = Unreadable(run.of)
  /\ UNCHANGED <<decoded, imageRef>>
  /\ Render

-----------------------------------------------------------------------------
Next ==
  \/ PanelArrives \/ PanelRefused \/ PanelBack \/ Measure \/ Resize \/ Change
  \/ RunEffect \/ Settled
  \/ DisplayLoaded \/ DisplayError \/ DisplayTimeout \/ Decoded
  \/ AnalysisTimeout \/ Sampled \/ SampleError

\* Effects run and timers expire; no image ever needs to answer.
Fairness ==
  /\ WF_vars(Measure) /\ WF_vars(RunEffect) /\ WF_vars(Settled)
  /\ WF_vars(DisplayTimeout) /\ WF_vars(AnalysisTimeout)

Spec == Init /\ [][Next]_vars
FairSpec == Spec /\ Fairness

-----------------------------------------------------------------------------
\* Every variable has the values the hook can give it; only a load that has
\* decoded its image is being sampled, and only then can its timer be armed.
TypeOK ==
  /\ preview \in BOOLEAN
  /\ panel \in {"pending", "shown", "refused"}
  /\ input \in Inputs
  /\ run \in Runs
  /\ decoded \in Srcs \cup {None}
  /\ imageRef \in Srcs \cup {None}
  /\ sample \in Samples \cup {None}
  /\ presented \in BOOLEAN
  /\ seen \subseteq Srcs /\ behind \subseteq Srcs
  /\ changes \in 0..MaxChanges
  /\ run.at = "sampling" => decoded = run.of.src
  /\ run.timer => run.at = "sampling"

\* The image is under the veil of a result for this very image and ink.
Protected ==
  /\ sample # None /\ sample.status # "error"
  /\ Protection(sample.key) = Protection(input)
  /\ Appearance.veil = sample.veil

ShownFirst == ~preview /\ Shows' /\ input'.auto /\ input'.src \notin seen

\* No step puts an image on the home page for the first time, with automatic
\* contrast, before its veil or the fallback is known (useWallpaperAppearance.ts,
\* the comments on analysisTimer and on displayReady), but for the images that
\* already have a result which says nothing of a veil: its load has failed, or it
\* arrived behind a page that was refused.  displayReady takes any result for the
\* image for its mask, so these are shown bare, against the comments.
MaskComesFirst ==
  [][ShownFirst =>
       \/ Protected'
       \/ /\ sample' # None /\ sample'.key.src = input'.src
          /\ sample'.status = "error" \/ input'.src \in behind]_vars

\* While an image that is shown and whose display load was the last to be decoded
\* is analyzed again, for another size, theme, darkness or blur, it stays on the
\* screen until a result says that it failed (an earlier failure counts too, when
\* the inputs it was for return); and on the home page with automatic contrast it
\* stays under the veil it has until the new result.
ReanalysisKeepsTheImage ==
  [][Shows /\ decoded = input.src /\ Protection(input') = Protection(input)
     /\ panel' = "shown" /\ (sample' # None => sample'.status # "error") =>
       /\ Shows'
       /\ input.auto /\ ~preview /\ sample' = sample => Appearance'.veil = Appearance.veil]_vars

\* The home page is presented although no image ever loads or fails, once its
\* settings are there and stop changing.
ShellResolves == panel = "shown" ~> presented \/ panel = "refused"
=============================================================================
