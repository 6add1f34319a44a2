---------------------------- MODULE QuantumPulse ----------------------------
(***************************************************************************)
(* The pulse of the Quantum toolkit and the hand-over of scenes to the     *)
(* render thread: QuantumToolkit (postPulse, pulse, exit), PaintCollector, *)
(* GlassScene / ViewScene, the painters' locking, RenderJob, and the part  *)
(* of Scene's pulse listener that synchronizes the render graph.           *)
(*                                                                         *)
(* Three threads: the pulse timer posts pulses, the FX application thread  *)
(* runs them, the render thread paints one job after the other.  A pulse   *)
(* copies each changed scene to the render graph, under the render lock    *)
(* and after the previous frame has finished, and then submits one paint   *)
(* job per dirty scene.  Platforms with a window manager are modelled.     *)
(*                                                                         *)
(* Of a scene only this is kept: changes not yet copied to the render      *)
(* graph (unsynced) and copied but not yet painted (unpainted).            *)
(***************************************************************************)
EXTENDS Naturals, Sequences, FiniteSets

CONSTANTS Scenes,
          Synchronous,   \* the scenes painted by presenting (isSynchronous)
          Vsync,         \* isVsyncEnabled() /\ ~hasNativeSystemVsync()
          Happens,       \* what the application and the platform do
          None

Happenings == {"change",      \* a scene graph changes
               "animation",   \* an animation starts or ends
               "window",      \* a window event asks for a full repaint
               "hide",        \* a window is hidden, and its scene disposed of
               "deviceLost",  \* presenting fails
               "exit"}        \* the toolkit exits

ASSUME PulseAssumption == /\ IsFiniteSet(Scenes)
                          /\ Synchronous \subseteq Scenes
                          /\ Vsync \in BOOLEAN
                          /\ Happens \subseteq Happenings
                          /\ None \notin Scenes

VARIABLES
  toolkitRunning, timerRunning, animation, animationRunning,
  nextPulseRequested, pulseRunning,
  poster,       \* where timer and render thread are in postPulse
  pulses,       \* pulse runnables in the FX event queue
  fx,           \* program counter of the FX thread
  todo,         \* scenes the FX thread has yet to visit in its current loop
  current,      \* the scene it is synchronizing
  unsynced, unpainted, attached, hasView,
  entireSceneDirty, painting,
  repaintLambdas,  \* scenes for which entireSceneNeedsRepaint is in the FX queue
  dirtyScenes, hasDirty, needsHint,
  latch,        \* count of the latch in allWorkCompletedLatch
  renderLock,   \* "free", "fx" or "render"
  jobs,         \* paint jobs submitted to the renderer
  rt, rtScene,  \* program counter and scene of the render thread
  fullWanted    \* scenes with a full repaint requested and not yet painted

flagVars   == <<toolkitRunning, timerRunning, animation, animationRunning, nextPulseRequested>>
postVars   == <<pulseRunning, poster, pulses>>
fxVars     == <<fx, todo, current>>
sceneVars  == <<unsynced, unpainted, attached, hasView>>
dirtyVars  == <<entireSceneDirty, repaintLambdas, fullWanted, dirtyScenes, hasDirty>>
renderVars == <<painting, needsHint, latch, renderLock, jobs, rt, rtScene>>
vars == <<flagVars, postVars, fxVars, sceneVars, dirtyVars, renderVars>>

Posters == {"timer", "render"}

Init ==
  /\ toolkitRunning = TRUE /\ timerRunning = TRUE
  /\ animation = FALSE /\ animationRunning = FALSE /\ nextPulseRequested = FALSE
  /\ pulseRunning = FALSE /\ poster = [p \in Posters |-> "idle"] /\ pulses = 0
  /\ fx = "idle" /\ todo = {} /\ current = None
  /\ unsynced = Scenes /\ unpainted = {} /\ attached = {} /\ hasView = Scenes
  /\ entireSceneDirty = Scenes /\ fullWanted = Scenes /\ repaintLambdas = {}
  /\ dirtyScenes = {} /\ hasDirty = FALSE
  /\ painting = {} /\ needsHint = FALSE /\ latch = 0 /\ renderLock = "free"
  /\ jobs = <<>> /\ rt = "idle" /\ rtScene = None
-----------------------------------------------------------------------------
(* QuantumToolkit.postPulse, on the timer thread or, as vsyncHint, on the  *)
(* render thread: the conditions, the getAndSet, the invokeLater.          *)

PulseWanted == toolkitRunning /\ (animationRunning \/ nextPulseRequested \/ hasDirty)

Post(p, from, to) == poster[p] = from /\ poster' = [poster EXCEPT ![p] = to]

postPulse == /\ timerRunning
             /\ PulseWanted
             /\ Post("timer", "idle", "test")
             /\ UNCHANGED <<pulseRunning, pulses, flagVars, fxVars, sceneVars, dirtyVars, renderVars>>

\* Mutant: the getAndSet is ignored
PostRegardless(p) == /\ Post(p, "test", "invoke")
                     /\ pulseRunning' = TRUE
                     /\ UNCHANGED <<pulses, flagVars, fxVars, sceneVars, dirtyVars, renderVars>>

setPulseRunning(p) == /\ Post(p, "test", IF pulseRunning THEN "idle" ELSE "invoke")
                      /\ pulseRunning' = TRUE
                      /\ UNCHANGED <<pulses, flagVars, fxVars, sceneVars, dirtyVars, renderVars>>

invokePulse(p) == /\ Post(p, "invoke", "idle")
                  /\ pulses' = pulses + 1
                  /\ UNCHANGED <<pulseRunning, flagVars, fxVars, sceneVars, dirtyVars, renderVars>>
-----------------------------------------------------------------------------
(* PaintCollector.addDirtyScene and removeDirtyScene, GlassScene.sceneChanged *)

\* Mutants: hasDirty is left alone
AddQuietly(s)     == dirtyScenes' = dirtyScenes \cup {s} /\ UNCHANGED hasDirty
RemoveQuietly(s)  == dirtyScenes' = dirtyScenes \ {s} /\ UNCHANGED hasDirty

addDirtyScene(s) == /\ dirtyScenes' = dirtyScenes \cup {s}
                    /\ hasDirty' = (hasDirty \/ s \notin dirtyScenes)

removeDirtyScene(s) == /\ dirtyScenes' = dirtyScenes \ {s}
                       /\ hasDirty' = (dirtyScenes' # {})

sceneChanged(s) == IF s \in attached THEN addDirtyScene(s) ELSE removeDirtyScene(s)

(* Application code, in an event of its own or run by a pulse (animation,  *)
(* CSS, layout), changes scene graphs, shows and hides windows.            *)
InApplication == /\ toolkitRunning
                 /\ fx \in {"idle", "fire"} \/ (fx = "animate" /\ animationRunning)

ChangeScene(s) ==
  /\ "change" \in Happens
  /\ InApplication
  /\ s \in hasView
  /\ unsynced' = unsynced \cup {s}
  /\ nextPulseRequested' = TRUE
  /\ UNCHANGED <<toolkitRunning, timerRunning, animation, animationRunning, postVars, fxVars,
                 unpainted, attached, hasView, dirtyVars, renderVars>>

setAnimationRunnable(b) ==
  /\ "animation" \in Happens
  /\ InApplication
  /\ animation # b
  /\ animation' = b
  /\ animationRunning' = (animationRunning \/ b)
  /\ UNCHANGED <<toolkitRunning, timerRunning, nextPulseRequested, postVars, fxVars, sceneVars,
                 dirtyVars, renderVars>>

(* entireSceneNeedsRepaint on the FX thread, for a window event or in the  *)
(* lambda that the render thread posted; it takes no lock.                 *)
entireSceneNeedsRepaint(s) ==
  /\ InApplication
  /\ \/ "window" \in Happens /\ s \in attached /\ UNCHANGED repaintLambdas
     \/ fx = "idle" /\ s \in repaintLambdas /\ repaintLambdas' = repaintLambdas \ {s}
  /\ entireSceneDirty' = entireSceneDirty \cup {s}
  /\ fullWanted' = fullWanted \cup {s}
  /\ sceneChanged(s)
  /\ UNCHANGED <<flagVars, postVars, fxVars, sceneVars, renderVars>>

(* setStage(stage), setStage(null), and dispose() after setStage(null). *)
setStage(s) ==
  /\ InApplication
  /\ \/ /\ s \in hasView \ attached
        /\ attached' = attached \cup {s}
        /\ addDirtyScene(s)
     \/ /\ "hide" \in Happens
        /\ s \in attached
        /\ attached' = attached \ {s}
        /\ removeDirtyScene(s)
  /\ UNCHANGED <<flagVars, postVars, fxVars, unsynced, unpainted, hasView, entireSceneDirty,
                 repaintLambdas, fullWanted, renderVars>>

dispose(s) ==
  /\ "hide" \in Happens
  /\ InApplication
  /\ s \in hasView \ attached
  /\ renderLock = "free"
  /\ hasView' = hasView \ {s}
  /\ UNCHANGED <<flagVars, postVars, fxVars, unsynced, unpainted, attached, dirtyVars, renderVars>>
-----------------------------------------------------------------------------
(* The pulse, on the FX thread. *)

Goto(from, to) == fx = from /\ fx' = to

(* pulseFromQueue and the beginning of pulse. *)
BeginPulse ==
  /\ pulses > 0
  /\ pulses' = pulses - 1
  /\ Goto("idle", IF toolkitRunning THEN "animate" ELSE "end")
  /\ nextPulseRequested' = (nextPulseRequested /\ ~toolkitRunning)
  /\ animationRunning' = IF toolkitRunning THEN animation ELSE animationRunning
  /\ UNCHANGED <<toolkitRunning, timerRunning, animation, pulseRunning, poster,
                 todo, current, sceneVars, dirtyVars, renderVars>>

(* animationRunnable returns; then firePulse visits the scenes of all      *)
(* windows.                                                                *)
Animate ==
  /\ Goto("animate", "fire")
  /\ todo' = hasView
  /\ UNCHANGED <<flagVars, postVars, current, sceneVars, dirtyVars, renderVars>>

(* Scene.ScenePulseListener.pulse: a scene without changes is passed over, *)
(* one that has lost its peer has no render graph to copy to.              *)
PulseScene(s) ==
  /\ fx = "fire"
  /\ s \in todo
  /\ todo' = todo \ {s}
  /\ IF s \in unsynced /\ s \in hasView
     THEN /\ current' = s
          /\ fx' = "await"
          /\ UNCHANGED unsynced
     ELSE /\ unsynced' = unsynced \ {s}
          /\ UNCHANGED <<current, fx>>
  /\ UNCHANGED <<flagVars, postVars, unpainted, attached, hasView, dirtyVars, renderVars>>

waitForRenderingToComplete(from, to) ==
  /\ Goto(from, to)
  /\ latch = 0
  /\ UNCHANGED <<flagVars, postVars, todo, current, sceneVars, dirtyVars, renderVars>>

\* Mutant: the lock is not waited for
SynchronizeUnlocked ==
  /\ Goto("lock", "sync")
  /\ renderLock' = "fx"
  /\ UNCHANGED <<flagVars, postVars, todo, current, sceneVars, dirtyVars,
                 painting, needsHint, latch, jobs, rt, rtScene>>

waitForSynchronization ==
  /\ Goto("lock", "sync")
  /\ renderLock = "free"
  /\ renderLock' = "fx"
  /\ UNCHANGED <<flagVars, postVars, todo, current, sceneVars, dirtyVars,
                 painting, needsHint, latch, jobs, rt, rtScene>>

(* Copy the state to the render graph (setting the root, the fill or the   *)
(* camera dirties the entire scene), markDirty, releaseSynchronization.    *)
Synchronize(props) ==
  /\ Goto("sync", "fire")
  /\ unsynced' = unsynced \ {current}
  /\ unpainted' = unpainted \cup {current}
  /\ entireSceneDirty' = IF props THEN entireSceneDirty \cup {current} ELSE entireSceneDirty
  /\ fullWanted' = IF props THEN fullWanted \cup {current} ELSE fullWanted
  /\ sceneChanged(current)
  /\ current' = None
  /\ renderLock' = "free"
  /\ UNCHANGED <<flagVars, postVars, todo, attached, hasView, repaintLambdas,
                 painting, needsHint, latch, jobs, rt, rtScene>>

\* Mutant: scenes that are not dirty count
CountAllScenes == Cardinality(Scenes)

(* PaintCollector.renderAll *)
JobsOfFrame    == Cardinality(dirtyScenes)

renderAll ==
  /\ todo = {}
  /\ \/ /\ ~hasDirty
        /\ Goto("fire", "end")
        /\ UNCHANGED <<todo, hasDirty, needsHint, latch>>
     \/ /\ hasDirty
        /\ Goto("fire", "repaint")
        /\ hasDirty' = FALSE
        /\ needsHint' = FALSE
        /\ latch' = JobsOfFrame
        /\ todo' = dirtyScenes
  /\ UNCHANGED <<flagVars, postVars, current, sceneVars, entireSceneDirty, repaintLambdas, fullWanted,
                 dirtyScenes, painting, renderLock, jobs, rt, rtScene>>

(* DIRTY_SCENE_SORTER puts the scenes that are not synchronous first. *)
NextInOrder(s) == s \in todo /\ (s \in Synchronous => todo \subseteq Synchronous)

\* Mutant: a job is submitted twice
SubmitAlways(s) == Append(jobs, s)

(* ViewScene.repaint: no job for a scene whose previous job is not done. *)
WithJob(s)      == IF s \in painting THEN jobs ELSE Append(jobs, s)

repaint(s) ==
  /\ fx = "repaint"
  /\ NextInOrder(s)
  /\ needsHint' = (needsHint \/ s \in Synchronous)
  /\ todo' = todo \ {s}
  /\ IF s \in hasView
     THEN /\ painting' = painting \cup {s}
          /\ jobs' = WithJob(s)
     ELSE UNCHANGED <<painting, jobs>>
  /\ UNCHANGED <<flagVars, postVars, fx, current, sceneVars, dirtyVars, latch, renderLock, rt, rtScene>>

RenderedAll ==
  /\ todo = {}
  /\ Goto("repaint", "end")
  /\ dirtyScenes' = {}
  /\ UNCHANGED <<flagVars, postVars, todo, current, sceneVars, entireSceneDirty, repaintLambdas,
                 fullWanted, hasDirty, renderVars>>

endPulseRunning ==
  /\ Goto("end", "idle")
  /\ pulseRunning' = FALSE
  /\ UNCHANGED <<flagVars, poster, pulses, todo, current, sceneVars, dirtyVars, renderVars>>

(* QuantumToolkit.exit: stop the timer, wait for the last frame, and take  *)
(* the render lock to terminate glass; then dispose.                       *)
exit ==
  /\ "exit" \in Happens
  /\ Goto("idle", "exitAwait")
  /\ toolkitRunning
  /\ timerRunning' = FALSE
  /\ UNCHANGED <<toolkitRunning, animation, animationRunning, nextPulseRequested, postVars, todo,
                 current, sceneVars, dirtyVars, renderVars>>

Terminate ==
  /\ Goto("terminate", "exited")
  /\ renderLock = "free"
  /\ toolkitRunning' = FALSE
  /\ UNCHANGED <<timerRunning, animation, animationRunning, nextPulseRequested, postVars, todo,
                 current, sceneVars, dirtyVars, renderVars>>
-----------------------------------------------------------------------------
(* The render thread: RenderJob.run around a painter's run. *)

Render(from, to) == rt = from /\ rt' = to

TakeJob ==
  /\ Render("idle", "lock")
  /\ jobs # <<>>
  /\ rtScene' = Head(jobs)
  /\ jobs' = Tail(jobs)
  /\ UNCHANGED <<flagVars, postVars, fxVars, sceneVars, dirtyVars, painting, needsHint, latch, renderLock>>

LockRender ==
  /\ Render("lock", "paint")
  /\ renderLock = "free"
  /\ renderLock' = "render"
  /\ UNCHANGED <<flagVars, postVars, fxVars, sceneVars, dirtyVars, painting, needsHint, latch, jobs, rtScene>>

(* The painter returns early: for a window that is no longer visible, or   *)
(* while the device is not ready; then a PresentingPainter asks the FX     *)
(* thread for a full repaint and an UploadingPainter does not.             *)
PaintNothing ==
  /\ Render("paint", "finish")
  /\ \/ "hide" \in Happens /\ UNCHANGED repaintLambdas
     \/ /\ "deviceLost" \in Happens
        /\ repaintLambdas' = repaintLambdas \cup ({rtScene} \cap Synchronous)
  /\ UNCHANGED <<flagVars, postVars, fxVars, sceneVars, entireSceneDirty, fullWanted, dirtyScenes,
                 hasDirty, painting, needsHint, latch, renderLock, jobs, rtScene>>

(* paintImpl: the entire scene if it is marked, its dirty regions else ... *)
Paint ==
  /\ Render("paint", "clear")
  /\ unpainted' = unpainted \ {rtScene}
  /\ fullWanted' = fullWanted \ ({rtScene} \cap entireSceneDirty)
  /\ UNCHANGED <<flagVars, postVars, fxVars, unsynced, attached, hasView, entireSceneDirty,
                 repaintLambdas, dirtyScenes, hasDirty,
                 painting, needsHint, latch, renderLock, jobs, rtScene>>

(* ... and then, in doPaint, clearEntireSceneDirty; doPaint is not called  *)
(* or returns early when nothing of the scene is visible.                  *)
clearEntireSceneDirty ==
  /\ Render("clear", "present")
  /\ entireSceneDirty' \in {entireSceneDirty, entireSceneDirty \ {rtScene}}
  /\ UNCHANGED <<flagVars, postVars, fxVars, sceneVars, repaintLambdas, fullWanted, dirtyScenes,
                 hasDirty, painting, needsHint, latch, renderLock, jobs, rtScene>>

(* Presenting fails when the device is lost: the FX thread is asked for a  *)
(* full repaint.                                                           *)
Present(ok) ==
  /\ ok \/ "deviceLost" \in Happens
  /\ Render("present", "finish")
  /\ repaintLambdas' = IF ok THEN repaintLambdas ELSE repaintLambdas \cup {rtScene}
  /\ UNCHANGED <<flagVars, postVars, fxVars, sceneVars, entireSceneDirty, fullWanted, dirtyScenes,
                 hasDirty, painting, needsHint, latch, renderLock, jobs, rtScene>>

(* setPainting(false) comes before the unlock and before done. *)
FinishPaint ==
  /\ Render("finish", "unlock")
  /\ painting' = painting \ {rtScene}
  /\ UNCHANGED <<flagVars, postVars, fxVars, sceneVars, dirtyVars, needsHint, latch, renderLock,
                 jobs, rtScene>>

UnlockRender ==
  /\ Render("unlock", "done")
  /\ renderLock' = "free"
  /\ UNCHANGED <<flagVars, postVars, fxVars, sceneVars, dirtyVars, painting, needsHint, latch, jobs, rtScene>>

(* PaintCollector.done: with one job left to count, hint that it is time   *)
(* for the next pulse (vsyncHint); then count down the latch in the field. *)
done ==
  /\ Render("done", "count")
  /\ IF latch = 1 /\ needsHint /\ Vsync /\ PulseWanted
     THEN Post("render", "idle", "test")
     ELSE UNCHANGED poster
  /\ UNCHANGED <<flagVars, pulseRunning, pulses, fxVars, sceneVars, dirtyVars,
                 painting, needsHint, latch, renderLock, jobs, rtScene>>

\* Mutant: the latch is not counted down
CountNothing ==
  /\ Render("count", "idle")
  /\ poster["render"] = "idle"
  /\ rtScene' = None
  /\ UNCHANGED <<flagVars, postVars, fxVars, sceneVars, dirtyVars, painting, needsHint, latch,
                 renderLock, jobs>>

countDown ==
  /\ Render("count", "idle")
  /\ poster["render"] = "idle"
  /\ latch' = IF latch > 0 THEN latch - 1 ELSE 0
  /\ rtScene' = None
  /\ UNCHANGED <<flagVars, postVars, fxVars, sceneVars, dirtyVars, painting, needsHint, renderLock, jobs>>
-----------------------------------------------------------------------------
Timer == postPulse \/ setPulseRunning("timer") \/ invokePulse("timer")

Pulse == \/ BeginPulse \/ Animate
         \/ \E s \in Scenes : PulseScene(s) \/ repaint(s)
         \/ waitForRenderingToComplete("await", "lock")
         \/ waitForSynchronization
         \/ \E props \in BOOLEAN : Synchronize(props)
         \/ renderAll \/ RenderedAll \/ endPulseRunning

Exit == exit \/ waitForRenderingToComplete("exitAwait", "terminate") \/ Terminate

Events == \/ \E s \in Scenes : \/ ChangeScene(s) \/ entireSceneNeedsRepaint(s)
                                \/ setStage(s) \/ dispose(s)
          \/ \E b \in BOOLEAN : setAnimationRunnable(b)

Renderer == \/ TakeJob \/ LockRender \/ PaintNothing \/ Paint \/ clearEntireSceneDirty
            \/ \E ok \in BOOLEAN : Present(ok)
            \/ FinishPaint \/ UnlockRender \/ done \/ countDown
            \/ setPulseRunning("render") \/ invokePulse("render")

Next == Timer \/ Pulse \/ Exit \/ Events \/ Renderer

Spec == Init /\ [][Next]_vars

(* The timer is periodic; the FX thread runs what is in its queue and      *)
(* finishes a pulse or the exit it has begun; the render thread works off  *)
(* its jobs.  No event of the application has to happen.                   *)
FairSpec == /\ Spec
            /\ WF_vars(Timer)
            /\ WF_vars(Pulse)
            /\ WF_vars(Exit /\ fx # "idle")
            /\ WF_vars(Renderer)
-----------------------------------------------------------------------------
Flags ==
  /\ toolkitRunning \in BOOLEAN /\ timerRunning \in BOOLEAN /\ animation \in BOOLEAN
  /\ animationRunning \in BOOLEAN /\ nextPulseRequested \in BOOLEAN
  /\ pulseRunning \in BOOLEAN /\ hasDirty \in BOOLEAN /\ needsHint \in BOOLEAN

Types ==
  /\ poster \in [Posters -> {"idle", "test", "invoke"}]
  /\ pulses \in Nat /\ latch \in Nat
  /\ fx \in {"idle", "animate", "fire", "await", "lock", "sync", "repaint", "end",
             "exitAwait", "terminate", "exited"}
  /\ rt \in {"idle", "lock", "paint", "clear", "present", "finish", "unlock", "done", "count"}
  /\ renderLock \in {"free", "fx", "render"}
  /\ todo \subseteq Scenes /\ unsynced \subseteq Scenes /\ unpainted \subseteq Scenes
  /\ attached \subseteq Scenes /\ hasView \subseteq Scenes
  /\ entireSceneDirty \subseteq Scenes /\ repaintLambdas \subseteq Scenes
  /\ fullWanted \subseteq Scenes /\ dirtyScenes \subseteq Scenes /\ painting \subseteq Scenes
  /\ current \in IF fx \in {"await", "lock", "sync"} THEN Scenes ELSE {None}
  /\ rtScene \in IF rt = "idle" THEN {None} ELSE Scenes
  /\ jobs \in Seq(Scenes)

(* Type invariant of pulse and rendering; the FX thread and the render     *)
(* thread have a scene at hand whenever they work on one.                  *)
TypeOK == Flags /\ Types

InPulse == fx \in {"animate", "fire", "await", "lock", "sync", "repaint", "end"}

(* pulseRunning stands for exactly one pulse, about to be posted, queued   *)
(* or being run: two threads posting at once never queue two, and none is  *)
(* forgotten with the flag left set, which would stop all pulses.          *)
One(b) == IF b THEN 1 ELSE 0

OnePulse == One(poster["timer"] = "invoke") + One(poster["render"] = "invoke") + pulses + One(InPulse)
              = One(pulseRunning)

(* painting means a job that will reset it: submitted once, or being run.  *)
Painting(s) == rtScene = s /\ rt \in {"lock", "paint", "clear", "present", "finish"}
Submitted(s) == {i \in 1 .. Len(jobs) : jobs[i] = s}

PaintingHasJob ==
  \A s \in Scenes : Cardinality(Submitted(s)) + One(Painting(s)) = One(s \in painting)

(* The latch counts no job that does not exist: as many jobs as it counts  *)
(* are still to be submitted, submitted, or on their way to countDown, so  *)
(* that the FX thread never waits for ever, even when the latch was        *)
(* replaced while a job of the previous frame was about to count.          *)
ToSubmit == IF fx = "repaint" THEN todo ELSE {}
Counting == rt \in {"unlock", "done", "count"}
LatchCovered == latch <= Cardinality(painting \cup ToSubmit) + One(Counting)

(* hasDirty, which other threads read, says whether a scene is dirty; the  *)
(* dirty scenes are shown on a stage and have a view to paint to.          *)
DirtyAgrees == /\ fx # "repaint" => (hasDirty <=> dirtyScenes # {})
               /\ dirtyScenes \subseteq attached
               /\ attached \subseteq hasView

(* Waiting for the render thread ends. *)
WaitEnds == fx \in {"await", "exitAwait"} ~> fx \notin {"await", "exitAwait"}

(* A change of a shown scene reaches the render graph and then the screen, *)
(* unless the scene is taken down or the toolkit exits.                    *)
Gone(s) == s \notin attached \/ fx = "exitAwait" \/ fx = "exited"

ChangesArePainted ==
  \A s \in Scenes : /\ s \in unsynced ~> s \notin unsynced \/ Gone(s)
                    /\ s \in unpainted ~> s \notin unpainted \/ Gone(s)

(* A full repaint that synchronization asks for is not cleared by a paint  *)
(* that has not done it: the render lock keeps the two apart.  (It does    *)
(* not protect the requests of window events, which are made without it.)  *)
FullRepaintKept == fullWanted \subseteq entireSceneDirty
=============================================================================
