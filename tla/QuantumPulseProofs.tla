------------------------- MODULE QuantumPulseProofs -------------------------
(***************************************************************************)
(* Proofs about the pulse and the hand-over to the render thread, for any  *)
(* finite set of scenes and whatever the application does.                 *)
(***************************************************************************)
EXTENDS QuantumPulse, FiniteSetTheorems, TLAPS

(* The steps of the system, one by one. *)
LEMMA NextCases ==
  ASSUME [Next]_vars
  PROVE  \/ postPulse
         \/ \E p \in Posters : setPulseRunning(p)
         \/ \E p \in Posters : invokePulse(p)
         \/ BeginPulse
         \/ Animate
         \/ \E s \in Scenes : PulseScene(s)
         \/ \E s \in Scenes : repaint(s)
         \/ waitForRenderingToComplete("await", "lock")
         \/ waitForRenderingToComplete("exitAwait", "terminate")
         \/ waitForSynchronization
         \/ \E b \in BOOLEAN : Synchronize(b)
         \/ renderAll
         \/ RenderedAll
         \/ endPulseRunning
         \/ exit
         \/ Terminate
         \/ \E s \in Scenes : ChangeScene(s)
         \/ \E b \in BOOLEAN : setAnimationRunnable(b)
         \/ \E s \in Scenes : entireSceneNeedsRepaint(s)
         \/ \E s \in Scenes : setStage(s)
         \/ \E s \in Scenes : dispose(s)
         \/ TakeJob
         \/ LockRender
         \/ PaintNothing
         \/ Paint
         \/ clearEntireSceneDirty
         \/ \E b \in BOOLEAN : Present(b)
         \/ FinishPaint
         \/ UnlockRender
         \/ done
         \/ countDown
         \/ UNCHANGED vars
<1>1. "timer" \in Posters /\ "render" \in Posters
  BY DEF Posters
<1> QED
  BY <1>1 DEF Next, Timer, Pulse, Exit, Events, Renderer

(* A step keeps the flags Boolean ... *)
LEMMA FlagsStep ==
  ASSUME Flags, [Next]_vars
  PROVE  Flags'
<1> USE DEF Flags, flagVars, postVars, fxVars, sceneVars, dirtyVars, renderVars
<1>1. ASSUME postPulse PROVE Flags'
  BY <1>1, Zenon DEF postPulse, Post, PulseWanted
<1>2. ASSUME NEW p \in Posters, setPulseRunning(p) PROVE Flags'
  BY <1>2, Zenon DEF setPulseRunning, Post
<1>3. ASSUME NEW p \in Posters, invokePulse(p) PROVE Flags'
  BY <1>3, Zenon DEF invokePulse, Post
<1>4. ASSUME BeginPulse PROVE Flags'
  BY <1>4, Zenon DEF BeginPulse, Goto
<1>5. ASSUME Animate PROVE Flags'
  BY <1>5, Zenon DEF Animate, Goto
<1>6. ASSUME NEW s \in Scenes, PulseScene(s) PROVE Flags'
  BY <1>6, Zenon DEF PulseScene
<1>7. ASSUME NEW s \in Scenes, repaint(s) PROVE Flags'
  BY <1>7, Zenon DEF repaint, NextInOrder, WithJob
<1>8. ASSUME waitForRenderingToComplete("await", "lock") PROVE Flags'
  BY <1>8, Zenon DEF waitForRenderingToComplete, Goto
<1>9. ASSUME waitForRenderingToComplete("exitAwait", "terminate") PROVE Flags'
  BY <1>9, Zenon DEF waitForRenderingToComplete, Goto
<1>10. ASSUME waitForSynchronization PROVE Flags'
  BY <1>10, Zenon DEF waitForSynchronization, Goto
<1>11. ASSUME NEW b \in BOOLEAN, Synchronize(b) PROVE Flags'
  BY <1>11, Zenon DEF Synchronize, Goto, sceneChanged, addDirtyScene, removeDirtyScene
<1>12. ASSUME renderAll PROVE Flags'
  BY <1>12, Zenon DEF renderAll, Goto, JobsOfFrame
<1>13. ASSUME RenderedAll PROVE Flags'
  BY <1>13, Zenon DEF RenderedAll, Goto
<1>14. ASSUME endPulseRunning PROVE Flags'
  BY <1>14, Zenon DEF endPulseRunning, Goto
<1>15. ASSUME exit PROVE Flags'
  BY <1>15, Zenon DEF exit, Goto
<1>16. ASSUME Terminate PROVE Flags'
  BY <1>16, Zenon DEF Terminate, Goto
<1>17. ASSUME NEW s \in Scenes, ChangeScene(s) PROVE Flags'
  BY <1>17, Zenon DEF ChangeScene, InApplication
<1>18. ASSUME NEW b \in BOOLEAN, setAnimationRunnable(b) PROVE Flags'
  BY <1>18, Zenon DEF setAnimationRunnable, InApplication
<1>19. ASSUME NEW s \in Scenes, entireSceneNeedsRepaint(s) PROVE Flags'
  BY <1>19, Zenon DEF entireSceneNeedsRepaint, InApplication, sceneChanged, addDirtyScene, removeDirtyScene
<1>20. ASSUME NEW s \in Scenes, setStage(s) PROVE Flags'
  BY <1>20, Zenon DEF setStage, InApplication, addDirtyScene, removeDirtyScene
<1>21. ASSUME NEW s \in Scenes, dispose(s) PROVE Flags'
  BY <1>21, Zenon DEF dispose, InApplication
<1>22. ASSUME TakeJob PROVE Flags'
  BY <1>22, Zenon DEF TakeJob, Render
<1>23. ASSUME LockRender PROVE Flags'
  BY <1>23, Zenon DEF LockRender, Render
<1>24. ASSUME PaintNothing PROVE Flags'
  BY <1>24, Zenon DEF PaintNothing, Render
<1>25. ASSUME Paint PROVE Flags'
  BY <1>25, Zenon DEF Paint, Render
<1>26. ASSUME clearEntireSceneDirty PROVE Flags'
  BY <1>26, Zenon DEF clearEntireSceneDirty, Render
<1>27. ASSUME NEW b \in BOOLEAN, Present(b) PROVE Flags'
  BY <1>27, Zenon DEF Present, Render
<1>28. ASSUME FinishPaint PROVE Flags'
  BY <1>28, Zenon DEF FinishPaint, Render
<1>29. ASSUME UnlockRender PROVE Flags'
  BY <1>29, Zenon DEF UnlockRender, Render
<1>30. ASSUME done PROVE Flags'
  BY <1>30, Zenon DEF done, Render, Post, PulseWanted
<1>31. ASSUME countDown PROVE Flags'
  BY <1>31, Zenon DEF countDown, Render
<1>32. ASSUME UNCHANGED vars PROVE Flags'
  BY <1>32 DEF vars
<1> QED
  BY NextCases,
     <1>1, <1>2, <1>3, <1>4, <1>5, <1>6, <1>7, <1>8, <1>9, <1>10, <1>11,
     <1>12, <1>13, <1>14, <1>15, <1>16, <1>17, <1>18, <1>19, <1>20,
     <1>21, <1>22, <1>23, <1>24, <1>25, <1>26, <1>27, <1>28, <1>29,
     <1>30, <1>31, <1>32

(* ... and the other variables in their types. *)
LEMMA TypesStep ==
  ASSUME Types, [Next]_vars
  PROVE  Types'
<1> USE PulseAssumption DEF Types, Posters, flagVars, postVars, fxVars, sceneVars, dirtyVars, renderVars
<1>1. ASSUME postPulse PROVE Types'
  BY <1>1 DEF postPulse, Post, PulseWanted
<1>2. ASSUME NEW p \in Posters, setPulseRunning(p) PROVE Types'
  BY <1>2 DEF setPulseRunning, Post
<1>3. ASSUME NEW p \in Posters, invokePulse(p) PROVE Types'
  BY <1>3 DEF invokePulse, Post
<1>4. ASSUME BeginPulse PROVE Types'
  BY <1>4 DEF BeginPulse, Goto
<1>5. ASSUME Animate PROVE Types'
  BY <1>5 DEF Animate, Goto
<1>6. ASSUME NEW s \in Scenes, PulseScene(s) PROVE Types'
  BY <1>6 DEF PulseScene
<1>7. ASSUME NEW s \in Scenes, repaint(s) PROVE Types'
  BY <1>7 DEF repaint, NextInOrder, WithJob
<1>8. ASSUME waitForRenderingToComplete("await", "lock") PROVE Types'
  BY <1>8 DEF waitForRenderingToComplete, Goto
<1>9. ASSUME waitForRenderingToComplete("exitAwait", "terminate") PROVE Types'
  BY <1>9 DEF waitForRenderingToComplete, Goto
<1>10. ASSUME waitForSynchronization PROVE Types'
  BY <1>10 DEF waitForSynchronization, Goto
<1>11. ASSUME NEW b \in BOOLEAN, Synchronize(b) PROVE Types'
  BY <1>11 DEF Synchronize, Goto, sceneChanged, addDirtyScene, removeDirtyScene
<1>12. ASSUME renderAll PROVE Types'
  <2>1. Cardinality(dirtyScenes) \in Nat
    BY FS_Subset, FS_CardinalityType, PulseAssumption DEF Types
  <2> QED
    BY <1>12, <2>1 DEF renderAll, JobsOfFrame, Goto
<1>13. ASSUME RenderedAll PROVE Types'
  BY <1>13 DEF RenderedAll, Goto
<1>14. ASSUME endPulseRunning PROVE Types'
  BY <1>14 DEF endPulseRunning, Goto
<1>15. ASSUME exit PROVE Types'
  BY <1>15 DEF exit, Goto
<1>16. ASSUME Terminate PROVE Types'
  BY <1>16 DEF Terminate, Goto
<1>17. ASSUME NEW s \in Scenes, ChangeScene(s) PROVE Types'
  BY <1>17 DEF ChangeScene, InApplication
<1>18. ASSUME NEW b \in BOOLEAN, setAnimationRunnable(b) PROVE Types'
  BY <1>18 DEF setAnimationRunnable, InApplication
<1>19. ASSUME NEW s \in Scenes, entireSceneNeedsRepaint(s) PROVE Types'
  BY <1>19 DEF entireSceneNeedsRepaint, InApplication, sceneChanged, addDirtyScene, removeDirtyScene
<1>20. ASSUME NEW s \in Scenes, setStage(s) PROVE Types'
  BY <1>20 DEF setStage, InApplication, addDirtyScene, removeDirtyScene
<1>21. ASSUME NEW s \in Scenes, dispose(s) PROVE Types'
  BY <1>21 DEF dispose, InApplication
<1>22. ASSUME TakeJob PROVE Types'
  BY <1>22 DEF TakeJob, Render
<1>23. ASSUME LockRender PROVE Types'
  BY <1>23 DEF LockRender, Render
<1>24. ASSUME PaintNothing PROVE Types'
  BY <1>24 DEF PaintNothing, Render
<1>25. ASSUME Paint PROVE Types'
  BY <1>25 DEF Paint, Render
<1>26. ASSUME clearEntireSceneDirty PROVE Types'
  BY <1>26 DEF clearEntireSceneDirty, Render
<1>27. ASSUME NEW b \in BOOLEAN, Present(b) PROVE Types'
  BY <1>27 DEF Present, Render
<1>28. ASSUME FinishPaint PROVE Types'
  BY <1>28 DEF FinishPaint, Render
<1>29. ASSUME UnlockRender PROVE Types'
  BY <1>29 DEF UnlockRender, Render
<1>30. ASSUME done PROVE Types'
  BY <1>30 DEF done, Render, Post, PulseWanted
<1>31. ASSUME countDown PROVE Types'
  BY <1>31 DEF countDown, Render
<1>32. ASSUME UNCHANGED vars PROVE Types'
  BY <1>32 DEF vars
<1> QED
  BY NextCases,
     <1>1, <1>2, <1>3, <1>4, <1>5, <1>6, <1>7, <1>8, <1>9, <1>10, <1>11,
     <1>12, <1>13, <1>14, <1>15, <1>16, <1>17, <1>18, <1>19, <1>20,
     <1>21, <1>22, <1>23, <1>24, <1>25, <1>26, <1>27, <1>28, <1>29,
     <1>30, <1>31, <1>32

(* The variables keep their types; in particular no count of pulses or of  *)
(* the latch goes below zero.                                              *)
THEOREM TypeCorrect == Spec => []TypeOK
<1>1. Init => TypeOK
  <2>1. Init => Flags
    BY Zenon DEF Init, Flags
  <2>2. Init => Types
    BY PulseAssumption DEF Init, Types, Posters
  <2> QED
    BY <2>1, <2>2 DEF TypeOK
<1>2. TypeOK /\ [Next]_vars => TypeOK'
  BY FlagsStep, TypesStep DEF TypeOK
<1> QED
  BY <1>1, <1>2, PTL DEF Spec
-----------------------------------------------------------------------------
LEMMA OnePulseStep ==
  ASSUME Types, OnePulse, [Next]_vars
  PROVE  OnePulse'
<1> USE DEF Types, Posters, OnePulse, One, InPulse, flagVars, postVars, fxVars, sceneVars, dirtyVars, renderVars
<1>1. ASSUME postPulse PROVE OnePulse'
  BY <1>1 DEF postPulse, Post, PulseWanted
<1>2. ASSUME NEW p \in Posters, setPulseRunning(p) PROVE OnePulse'
  BY <1>2 DEF setPulseRunning, Post
<1>3. ASSUME NEW p \in Posters, invokePulse(p) PROVE OnePulse'
  BY <1>3 DEF invokePulse, Post
<1>4. ASSUME BeginPulse PROVE OnePulse'
  BY <1>4 DEF BeginPulse, Goto
<1>5. ASSUME Animate PROVE OnePulse'
  BY <1>5 DEF Animate, Goto
<1>6. ASSUME NEW s \in Scenes, PulseScene(s) PROVE OnePulse'
  BY <1>6 DEF PulseScene
<1>7. ASSUME NEW s \in Scenes, repaint(s) PROVE OnePulse'
  BY <1>7 DEF repaint, NextInOrder, WithJob
<1>8. ASSUME waitForRenderingToComplete("await", "lock") PROVE OnePulse'
  BY <1>8 DEF waitForRenderingToComplete, Goto
<1>9. ASSUME waitForRenderingToComplete("exitAwait", "terminate") PROVE OnePulse'
  BY <1>9 DEF waitForRenderingToComplete, Goto
<1>10. ASSUME waitForSynchronization PROVE OnePulse'
  BY <1>10 DEF waitForSynchronization, Goto
<1>11. ASSUME NEW b \in BOOLEAN, Synchronize(b) PROVE OnePulse'
  BY <1>11 DEF Synchronize, Goto, sceneChanged, addDirtyScene, removeDirtyScene
<1>12. ASSUME renderAll PROVE OnePulse'
  BY <1>12 DEF renderAll, Goto, JobsOfFrame
<1>13. ASSUME RenderedAll PROVE OnePulse'
  BY <1>13 DEF RenderedAll, Goto
<1>14. ASSUME endPulseRunning PROVE OnePulse'
  BY <1>14 DEF endPulseRunning, Goto
<1>15. ASSUME exit PROVE OnePulse'
  BY <1>15 DEF exit, Goto
<1>16. ASSUME Terminate PROVE OnePulse'
  BY <1>16 DEF Terminate, Goto
<1>17. ASSUME NEW s \in Scenes, ChangeScene(s) PROVE OnePulse'
  BY <1>17 DEF ChangeScene, InApplication
<1>18. ASSUME NEW b \in BOOLEAN, setAnimationRunnable(b) PROVE OnePulse'
  BY <1>18 DEF setAnimationRunnable, InApplication
<1>19. ASSUME NEW s \in Scenes, entireSceneNeedsRepaint(s) PROVE OnePulse'
  BY <1>19 DEF entireSceneNeedsRepaint, InApplication, sceneChanged, addDirtyScene, removeDirtyScene
<1>20. ASSUME NEW s \in Scenes, setStage(s) PROVE OnePulse'
  BY <1>20 DEF setStage, InApplication, addDirtyScene, removeDirtyScene
<1>21. ASSUME NEW s \in Scenes, dispose(s) PROVE OnePulse'
  BY <1>21 DEF dispose, InApplication
<1>22. ASSUME TakeJob PROVE OnePulse'
  BY <1>22 DEF TakeJob, Render
<1>23. ASSUME LockRender PROVE OnePulse'
  BY <1>23 DEF LockRender, Render
<1>24. ASSUME PaintNothing PROVE OnePulse'
  BY <1>24 DEF PaintNothing, Render
<1>25. ASSUME Paint PROVE OnePulse'
  BY <1>25 DEF Paint, Render
<1>26. ASSUME clearEntireSceneDirty PROVE OnePulse'
  BY <1>26 DEF clearEntireSceneDirty, Render
<1>27. ASSUME NEW b \in BOOLEAN, Present(b) PROVE OnePulse'
  BY <1>27 DEF Present, Render
<1>28. ASSUME FinishPaint PROVE OnePulse'
  BY <1>28 DEF FinishPaint, Render
<1>29. ASSUME UnlockRender PROVE OnePulse'
  BY <1>29 DEF UnlockRender, Render
<1>30. ASSUME done PROVE OnePulse'
  BY <1>30 DEF done, Render, Post, PulseWanted
<1>31. ASSUME countDown PROVE OnePulse'
  BY <1>31 DEF countDown, Render
<1>32. ASSUME UNCHANGED vars PROVE OnePulse'
  BY <1>32 DEF vars
<1> QED
  BY NextCases,
     <1>1, <1>2, <1>3, <1>4, <1>5, <1>6, <1>7, <1>8, <1>9, <1>10, <1>11,
     <1>12, <1>13, <1>14, <1>15, <1>16, <1>17, <1>18, <1>19, <1>20,
     <1>21, <1>22, <1>23, <1>24, <1>25, <1>26, <1>27, <1>28, <1>29,
     <1>30, <1>31, <1>32

(* At any time pulseRunning stands for exactly one pulse on its way.       *)
THEOREM PulseNeverDoubledNorLost == Spec => []OnePulse
<1>1. Init => Types /\ OnePulse
  BY PulseAssumption DEF Init, Types, Posters, OnePulse, One, InPulse
<1>2. Types /\ OnePulse /\ [Next]_vars => (Types /\ OnePulse)'
  BY TypesStep, OnePulseStep
<1> QED
  BY <1>1, <1>2, PTL DEF Spec
-----------------------------------------------------------------------------
(* The scenes that are dirty: what the FX thread knows of them while it    *)
(* submits a frame, when hasDirty is already reset.                        *)
DirtyInv == /\ DirtyAgrees
            /\ fx = "repaint" => ~hasDirty /\ todo \subseteq dirtyScenes

LEMMA DirtySteps ==
  ASSUME [Next]_vars
  PROVE  \/ UNCHANGED <<dirtyScenes, hasDirty, attached, hasView>>
            /\ fx # "repaint" /\ fx' # "repaint"
         \/ UNCHANGED <<dirtyScenes, hasDirty, attached, hasView, fx, todo>>
         \/ \E s \in Scenes : repaint(s)
         \/ \E b \in BOOLEAN : Synchronize(b)
         \/ renderAll \/ RenderedAll
         \/ \E s \in Scenes : entireSceneNeedsRepaint(s)
         \/ \E s \in Scenes : setStage(s)
         \/ \E s \in Scenes : dispose(s)
  BY ZenonT(60), NextCases
     DEF postPulse, setPulseRunning, invokePulse, BeginPulse, Goto, Animate, PulseScene,
         waitForRenderingToComplete, waitForSynchronization, endPulseRunning, exit, Terminate,
         ChangeScene, setAnimationRunnable, TakeJob, LockRender, PaintNothing, Paint,
         clearEntireSceneDirty, Present, FinishPaint, UnlockRender, done, countDown,
         flagVars, postVars, fxVars, sceneVars, dirtyVars, renderVars, vars

LEMMA DirtyStep ==
  ASSUME Flags, Types, DirtyInv, [Next]_vars
  PROVE  DirtyInv'
<1> USE DEF DirtyInv, DirtyAgrees
<1>1. CASE /\ UNCHANGED <<dirtyScenes, hasDirty, attached, hasView>>
           /\ fx # "repaint" /\ fx' # "repaint"
  BY <1>1
<1>2. CASE UNCHANGED <<dirtyScenes, hasDirty, attached, hasView, fx, todo>>
  BY <1>2
<1>3. ASSUME NEW s \in Scenes, repaint(s) PROVE DirtyInv'
  BY <1>3 DEF repaint, sceneVars, dirtyVars
<1>4. ASSUME NEW b \in BOOLEAN, Synchronize(b) PROVE DirtyInv'
  BY <1>4 DEF Synchronize, Goto, sceneChanged, addDirtyScene, removeDirtyScene
<1>5. CASE renderAll
  BY <1>5 DEF renderAll, Goto, sceneVars
<1>6. CASE RenderedAll
  BY <1>6 DEF RenderedAll, Goto, sceneVars
<1>7. ASSUME NEW s \in Scenes, entireSceneNeedsRepaint(s) PROVE DirtyInv'
  BY <1>7 DEF entireSceneNeedsRepaint, InApplication, sceneChanged, addDirtyScene,
     removeDirtyScene, fxVars, sceneVars
<1>8. ASSUME NEW s \in Scenes, setStage(s) PROVE DirtyInv'
  BY <1>8 DEF setStage, InApplication, addDirtyScene, removeDirtyScene, fxVars
<1>9. ASSUME NEW s \in Scenes, dispose(s) PROVE DirtyInv'
  BY <1>9 DEF dispose, InApplication, dirtyVars, fxVars
<1> QED
  BY DirtySteps, <1>1, <1>2, <1>3, <1>4, <1>5, <1>6, <1>7, <1>8, <1>9

LEMMA DirtyAlways == Spec => [](Flags /\ Types /\ DirtyInv)
<1>1. Init => Flags /\ Types /\ DirtyInv
  <2>1. Init => DirtyInv
    BY DEF Init, DirtyInv, DirtyAgrees
  <2>2. Init => Flags
    BY Zenon DEF Init, Flags
  <2>3. Init => Types
    BY PulseAssumption DEF Init, Types, Posters
  <2> QED
    BY <2>1, <2>2, <2>3
<1>2. Flags /\ Types /\ DirtyInv /\ [Next]_vars => (Flags /\ Types /\ DirtyInv)'
  BY FlagsStep, TypesStep, DirtyStep
<1> QED
  BY <1>1, <1>2, PTL DEF Spec

(* hasDirty, which timer and render thread read without a lock, agrees     *)
(* with the dirty scenes but for the moment in which renderAll submits     *)
(* them, and only scenes that can be painted are dirty.                    *)
THEOREM DirtyScenesAgree == Spec => []DirtyAgrees
<1>1. DirtyInv => DirtyAgrees
  BY DEF DirtyInv
<1> QED
  BY <1>1, DirtyAlways, PTL
-----------------------------------------------------------------------------
(* The jobs of the renderer: no scene has two, a scene is painting while   *)
(* its job is submitted or run and at no other time.                       *)
InJob == rt \in {"lock", "paint", "clear", "present", "finish"}

JobsInv ==
  /\ \A i, j \in 1 .. Len(jobs) : jobs[i] = jobs[j] => i = j
  /\ \A i \in 1 .. Len(jobs) : jobs[i] \in painting
  /\ InJob => /\ rtScene \in painting
              /\ \A i \in 1 .. Len(jobs) : jobs[i] # rtScene
  /\ \A s \in painting : \/ InJob /\ rtScene = s
                         \/ \E i \in 1 .. Len(jobs) : jobs[i] = s

LEMMA JobSteps ==
  ASSUME [Next]_vars
  PROVE  \/ UNCHANGED <<painting, jobs, rtScene>> /\ (InJob' <=> InJob)
         \/ \E s \in Scenes : repaint(s)
         \/ TakeJob \/ FinishPaint \/ countDown
  BY ZenonT(60), NextCases
     DEF postPulse, setPulseRunning, invokePulse, BeginPulse, Animate, PulseScene,
         waitForRenderingToComplete, waitForSynchronization, Synchronize, renderAll, RenderedAll,
         endPulseRunning, exit, Terminate, ChangeScene, setAnimationRunnable,
         entireSceneNeedsRepaint, setStage, dispose, LockRender, PaintNothing, Paint,
         clearEntireSceneDirty, Present, UnlockRender, done, Render, InJob,
         flagVars, postVars, fxVars, sceneVars, dirtyVars, renderVars, vars

LEMMA JobsStep ==
  ASSUME Types, JobsInv, [Next]_vars
  PROVE  JobsInv'
<1> USE DEF JobsInv
<1>1. CASE UNCHANGED <<painting, jobs, rtScene>> /\ (InJob' <=> InJob)
  BY <1>1
<1>2. ASSUME NEW s \in Scenes, repaint(s) PROVE JobsInv'
  <2>1. CASE painting' = painting /\ jobs' = jobs
    BY <1>2, <2>1 DEF repaint, InJob
  <2>2. CASE s \notin painting /\ painting' = painting \cup {s} /\ jobs' = Append(jobs, s)
    <3>1. /\ Len(jobs') = Len(jobs) + 1 /\ Len(jobs) \in Nat
          /\ \A i \in 1 .. Len(jobs) : jobs'[i] = jobs[i]
          /\ jobs'[Len(jobs) + 1] = s
      BY <2>2 DEF Types
    <3>2. (InJob' <=> InJob) /\ rtScene' = rtScene
      BY <1>2 DEF repaint, InJob
    <3> QED
      BY <2>2, <3>1, <3>2
  <2>3. s \in painting => painting \cup {s} = painting
    OBVIOUS
  <2> QED
    BY <1>2, <2>1, <2>2, <2>3 DEF repaint, WithJob
<1>3. CASE TakeJob
  <2>1. /\ Len(jobs') = Len(jobs) - 1 /\ Len(jobs) \in Nat \ {0}
        /\ rtScene' = jobs[1]
        /\ \A i \in 1 .. Len(jobs') : jobs'[i] = jobs[i + 1]
    BY <1>3 DEF TakeJob, Types
  <2>2. ~InJob /\ InJob' /\ painting' = painting
    BY <1>3 DEF TakeJob, Render, InJob
  <2>3. \A i \in 1 .. Len(jobs) : i = 1 \/ (i - 1 \in 1 .. Len(jobs') /\ jobs'[i - 1] = jobs[i])
    BY <2>1
  <2>4. \A i, j \in 1 .. Len(jobs') : jobs'[i] = jobs'[j] => i = j
    <3> SUFFICES ASSUME NEW i \in 1 .. Len(jobs'), NEW j \in 1 .. Len(jobs'), jobs'[i] = jobs'[j]
                 PROVE  i = j
      OBVIOUS
    <3>1. i + 1 \in 1 .. Len(jobs) /\ j + 1 \in 1 .. Len(jobs) /\ jobs[i + 1] = jobs[j + 1]
      BY <2>1
    <3> QED
      BY <3>1
  <2>5. \A i \in 1 .. Len(jobs') : jobs'[i] \in painting /\ jobs'[i] # jobs[1]
    <3> SUFFICES ASSUME NEW i \in 1 .. Len(jobs')
                 PROVE  jobs'[i] \in painting /\ jobs'[i] # jobs[1]
      OBVIOUS
    <3>1. i + 1 \in 1 .. Len(jobs) /\ 1 \in 1 .. Len(jobs) /\ jobs'[i] = jobs[i + 1]
      BY <2>1
    <3> QED
      BY <3>1
  <2>6. jobs[1] \in painting
    BY <2>1
  <2>7. \A s \in painting : s = jobs[1] \/ \E i \in 1 .. Len(jobs') : jobs'[i] = s
    BY <2>2, <2>3
  <2> QED
    BY <2>1, <2>2, <2>4, <2>5, <2>6, <2>7
<1>4. CASE FinishPaint
  BY <1>4 DEF FinishPaint, Render, InJob
<1>5. CASE countDown
  BY <1>5 DEF countDown, Render, InJob
<1> QED
  BY JobSteps, <1>1, <1>2, <1>3, <1>4, <1>5

(* What the invariant says in numbers.                                     *)
LEMMA OneJobEach ==
  ASSUME Types, JobsInv
  PROVE  PaintingHasJob
<1> SUFFICES ASSUME NEW s \in Scenes
             PROVE  Cardinality(Submitted(s)) + One(Painting(s)) = One(s \in painting)
  BY DEF PaintingHasJob
<1>1. CASE \E i \in 1 .. Len(jobs) : jobs[i] = s
  <2>1. PICK i \in 1 .. Len(jobs) : jobs[i] = s
    BY <1>1
  <2>2. Submitted(s) = {i}
    BY <2>1 DEF Submitted, JobsInv
  <2>3. Cardinality(Submitted(s)) = 1
    BY <2>2, FS_Singleton
  <2>4. ~Painting(s) /\ s \in painting
    BY <2>1 DEF JobsInv, Painting, InJob
  <2> QED
    BY <2>3, <2>4 DEF One
<1>2. CASE \A i \in 1 .. Len(jobs) : jobs[i] # s
  <2>1. Submitted(s) = {}
    BY <1>2 DEF Submitted
  <2>2. Cardinality(Submitted(s)) = 0
    BY <2>1, FS_EmptySet
  <2>3. Painting(s) <=> s \in painting
    BY <1>2 DEF JobsInv, Painting, InJob
  <2> QED
    BY <2>2, <2>3 DEF One
<1> QED
  BY <1>1, <1>2

LEMMA JobsAlways == Spec => [](Types /\ JobsInv)
<1>1. Init => Types /\ JobsInv
  BY PulseAssumption DEF Init, Types, Posters, JobsInv, InJob
<1>2. Types /\ JobsInv /\ [Next]_vars => (Types /\ JobsInv)'
  BY TypesStep, JobsStep
<1> QED
  BY <1>1, <1>2, PTL DEF Spec

(* painting, set on the FX thread and reset on the render thread, stands   *)
(* for exactly one job of the scene, submitted or being run: no repaint    *)
(* submits a second one, and none is left set with no job to reset it.     *)
THEOREM OneJobPerScene == Spec => []PaintingHasJob
  BY JobsAlways, OneJobEach, PTL
-----------------------------------------------------------------------------
LEMMA LatchSteps ==
  ASSUME [Next]_vars
  PROVE  \/ UNCHANGED <<painting, latch>> /\ ToSubmit' = ToSubmit /\ (Counting' <=> Counting)
         \/ \E s \in Scenes : repaint(s)
         \/ renderAll \/ FinishPaint \/ countDown
  BY ZenonT(60), NextCases
     DEF postPulse, setPulseRunning, invokePulse, BeginPulse, Animate, PulseScene, Goto,
         waitForRenderingToComplete, waitForSynchronization, Synchronize, RenderedAll,
         endPulseRunning, exit, Terminate, ChangeScene, setAnimationRunnable,
         entireSceneNeedsRepaint, setStage, dispose, TakeJob, LockRender, PaintNothing, Paint,
         clearEntireSceneDirty, Present, UnlockRender, done, Render, ToSubmit, Counting,
         flagVars, postVars, fxVars, sceneVars, dirtyVars, renderVars, vars

(* One scene less makes at most one job less.                              *)
LEMMA OneLess ==
  ASSUME NEW S \in SUBSET Scenes, NEW T \in SUBSET Scenes, NEW x, S \ {x} \subseteq T
  PROVE  /\ Cardinality(S) \in Nat /\ Cardinality(T) \in Nat
         /\ Cardinality(S) <= Cardinality(T) + 1
         /\ S \subseteq T => Cardinality(S) <= Cardinality(T)
<1>1. IsFiniteSet(S) /\ IsFiniteSet(T)
  BY PulseAssumption, FS_Subset
<1>2. Cardinality(S) \in Nat /\ Cardinality(T) \in Nat
  BY <1>1, FS_CardinalityType
<1>3. Cardinality(S \ {x}) \in Nat /\ Cardinality(S) <= Cardinality(S \ {x}) + 1
  <2>1. IsFiniteSet(S \ {x})
        /\ Cardinality(S \ {x}) = IF x \in S THEN Cardinality(S) - 1 ELSE Cardinality(S)
    BY <1>1, FS_RemoveElement
  <2>2. Cardinality(S \ {x}) \in Nat
    BY <2>1, FS_CardinalityType
  <2> QED
    BY <1>2, <2>1, <2>2
<1>4. Cardinality(S \ {x}) <= Cardinality(T)
  BY <1>1, FS_Subset
<1>5. S \subseteq T => Cardinality(S) <= Cardinality(T)
  BY <1>1, FS_Subset
<1> QED
  BY <1>2, <1>3, <1>4, <1>5

LEMMA LatchStep ==
  ASSUME Types, DirtyInv, JobsInv, LatchCovered, [Next]_vars
  PROVE  LatchCovered'
<1> DEFINE Covering == painting \cup ToSubmit
<1>1. Covering \subseteq Scenes /\ Covering' \subseteq Scenes /\ latch \in Nat
  BY TypesStep DEF Types, ToSubmit
<1>2. Cardinality(Covering) \in Nat /\ Cardinality(Covering') \in Nat
  BY <1>1, OneLess
<1>3. LatchCovered <=> latch <= Cardinality(Covering) + One(Counting)
  BY DEF LatchCovered
<1>4. LatchCovered' <=> latch' <= Cardinality(Covering') + One(Counting')
  BY DEF LatchCovered, One
<1>5. CASE UNCHANGED <<painting, latch>> /\ ToSubmit' = ToSubmit /\ (Counting' <=> Counting)
  BY <1>3, <1>4, <1>5
<1>6. ASSUME NEW s \in Scenes, repaint(s) PROVE LatchCovered'
  <2>1. s \in hasView
    BY <1>6 DEF repaint, NextInOrder, DirtyInv, DirtyAgrees
  <2>2. Covering' = Covering /\ latch' = latch /\ (Counting' <=> Counting)
    BY <1>6, <2>1 DEF repaint, NextInOrder, ToSubmit, Counting
  <2> QED
    BY <1>3, <1>4, <2>2
<1>7. CASE renderAll
  <2>1. CASE latch' = latch
    <3>1. Covering \subseteq Covering' /\ (Counting' <=> Counting)
      BY <1>7 DEF renderAll, Goto, ToSubmit, Counting
    <3>2. Cardinality(Covering) <= Cardinality(Covering')
      BY <1>1, <3>1, OneLess
    <3> QED
      BY <1>1, <1>2, <1>3, <1>4, <2>1, <3>1, <3>2 DEF One
  <2>2. CASE latch' = Cardinality(dirtyScenes)
    <3>1. dirtyScenes \subseteq Covering' /\ dirtyScenes \subseteq Scenes
      BY <1>7, <2>2 DEF renderAll, Goto, ToSubmit, Types, DirtyInv, DirtyAgrees
    <3>2. Cardinality(dirtyScenes) \in Nat /\ Cardinality(dirtyScenes) <= Cardinality(Covering')
      BY <1>1, <3>1, OneLess
    <3> QED
      BY <1>2, <1>4, <2>2, <3>2 DEF One
  <2> QED
    BY <1>7, <2>1, <2>2 DEF renderAll, JobsOfFrame
<1>8. CASE FinishPaint
  <2>1. /\ Covering \ {rtScene} \subseteq Covering' /\ latch' = latch
        /\ ~Counting /\ Counting'
    BY <1>8 DEF FinishPaint, Render, ToSubmit, Counting, fxVars
  <2>2. Cardinality(Covering) <= Cardinality(Covering') + 1
    BY <1>1, <2>1, OneLess
  <2> QED
    BY <1>1, <1>2, <1>3, <1>4, <2>1, <2>2 DEF One
<1>9. CASE countDown
  <2>1. /\ Covering' = Covering /\ latch' = IF latch > 0 THEN latch - 1 ELSE 0
        /\ Counting /\ ~Counting'
    BY <1>9 DEF countDown, Render, ToSubmit, Counting, fxVars
  <2>2. Cardinality(Covering') = Cardinality(Covering)
    BY <2>1
  <2>3. latch <= Cardinality(Covering) + 1
    BY <1>3, <2>1 DEF One
  <2>4. latch' <= Cardinality(Covering)
    BY <1>1, <1>2, <2>1, <2>3
  <2> QED
    BY <1>2, <1>4, <2>1, <2>2, <2>4 DEF One
<1> QED
  BY LatchSteps, <1>5, <1>6, <1>7, <1>8, <1>9

(* The latch on which the FX thread waits without a timeout never counts   *)
(* more than the jobs that are still to count it down, also when a frame   *)
(* has replaced it while a job of the previous one was about to.           *)
THEOREM LatchNeverExceedsJobs == Spec => []LatchCovered
<1>1. Init => LatchCovered
  <2>1. Init => painting \cup ToSubmit = {} /\ latch = 0 /\ ~Counting
    BY DEF Init, ToSubmit, Counting
  <2> QED
    BY <2>1, FS_EmptySet DEF LatchCovered, One
<1>2. Types /\ DirtyInv /\ JobsInv /\ LatchCovered /\ [Next]_vars => LatchCovered'
  BY LatchStep
<1> QED
  BY <1>1, <1>2, DirtyAlways, JobsAlways, PTL DEF Spec
-----------------------------------------------------------------------------
(* Who holds the render lock.                                              *)
LockInv == /\ renderLock = "fx" <=> fx = "sync"
           /\ renderLock = "render" <=> rt \in {"paint", "clear", "present", "finish", "unlock"}

LEMMA LockSteps ==
  ASSUME [Next]_vars
  PROVE  \/ UNCHANGED <<renderLock, rt>> /\ fx # "sync" /\ fx' # "sync"
         \/ UNCHANGED <<renderLock, rt, fx>>
         \/ waitForSynchronization
         \/ \E b \in BOOLEAN : Synchronize(b)
         \/ TakeJob \/ LockRender \/ PaintNothing \/ Paint \/ clearEntireSceneDirty
         \/ \E b \in BOOLEAN : Present(b)
         \/ FinishPaint \/ UnlockRender \/ done \/ countDown
  BY NextCases
     DEF postPulse, setPulseRunning, invokePulse, BeginPulse, Animate, PulseScene, Goto, repaint,
         renderAll, waitForRenderingToComplete, RenderedAll, endPulseRunning, exit, Terminate,
         ChangeScene, setAnimationRunnable, entireSceneNeedsRepaint, setStage, dispose,
         flagVars, postVars, fxVars, sceneVars, dirtyVars, renderVars, vars

LEMMA LockStep ==
  ASSUME Types, LockInv, [Next]_vars
  PROVE  LockInv'
<1> USE DEF LockInv, Types
<1>1. CASE waitForSynchronization
  BY <1>1 DEF waitForSynchronization, Goto
<1>2. ASSUME NEW b \in BOOLEAN, Synchronize(b) PROVE LockInv'
  BY <1>2 DEF Synchronize, Goto
<1>3. CASE TakeJob \/ LockRender \/ PaintNothing \/ Paint \/ clearEntireSceneDirty
  BY <1>3 DEF TakeJob, LockRender, PaintNothing, Paint, clearEntireSceneDirty, Render, fxVars
<1>4. CASE (\E b \in BOOLEAN : Present(b)) \/ FinishPaint \/ UnlockRender \/ done \/ countDown
  BY <1>4 DEF Present, FinishPaint, UnlockRender, done, countDown, Render, fxVars
<1> QED
  BY LockSteps, <1>1, <1>2, <1>3, <1>4

LEMMA LockAlways == Spec => [](Types /\ LockInv)
<1>1. Init => Types /\ LockInv
  BY PulseAssumption DEF Init, Types, Posters, LockInv
<1>2. Types /\ LockInv /\ [Next]_vars => (Types /\ LockInv)'
  BY TypesStep, LockStep
<1> QED
  BY <1>1, <1>2, PTL DEF Spec

(* The FX thread never copies a scene to the render graph while the render *)
(* thread paints from it.                                                  *)
THEOREM SynchronizationExcludesPainting ==
  Spec => []~(fx = "sync" /\ rt \in {"paint", "clear", "present", "finish"})
<1>1. LockInv => ~(fx = "sync" /\ rt \in {"paint", "clear", "present", "finish"})
  BY DEF LockInv
<1> QED
  BY <1>1, LockAlways, PTL

(* The requests of a full repaint that come from synchronization only: no  *)
(* window event asks for one, and presenting does not fail.                *)
OnlySynchronization == Happens \cap {"window", "deviceLost"} = {}

(* Between painting and clearing the mark, no new request may come.        *)
KeptInv == /\ FullRepaintKept
           /\ rt = "clear" => rtScene \notin fullWanted
           /\ repaintLambdas = {}

LEMMA KeptSteps ==
  ASSUME [Next]_vars
  PROVE  \/ /\ UNCHANGED <<fullWanted, entireSceneDirty, repaintLambdas>>
            /\ rt' = "clear" => UNCHANGED <<rt, rtScene>>
         \/ \E b \in BOOLEAN : Synchronize(b)
         \/ \E s \in Scenes : entireSceneNeedsRepaint(s)
         \/ PaintNothing \/ Paint \/ clearEntireSceneDirty
         \/ \E b \in BOOLEAN : Present(b)
  BY NextCases
     DEF postPulse, setPulseRunning, invokePulse, BeginPulse, Animate, PulseScene, repaint,
         waitForRenderingToComplete, waitForSynchronization, renderAll, RenderedAll,
         endPulseRunning, exit, Terminate, ChangeScene, setAnimationRunnable, setStage, dispose,
         TakeJob, LockRender, FinishPaint, UnlockRender, done, countDown, Render,
         flagVars, postVars, fxVars, sceneVars, dirtyVars, renderVars, vars

LEMMA KeptStep ==
  ASSUME OnlySynchronization, LockInv, KeptInv, [Next]_vars
  PROVE  KeptInv'
<1> USE DEF KeptInv, FullRepaintKept
<1>1. CASE /\ UNCHANGED <<fullWanted, entireSceneDirty, repaintLambdas>>
           /\ rt' = "clear" => UNCHANGED <<rt, rtScene>>
  BY <1>1
<1>2. ASSUME NEW b \in BOOLEAN, Synchronize(b) PROVE KeptInv'
  <2>1. rt # "clear"
    BY <1>2 DEF Synchronize, Goto, LockInv
  <2> QED
    BY <1>2, <2>1 DEF Synchronize
<1>3. ASSUME NEW s \in Scenes, entireSceneNeedsRepaint(s) PROVE KeptInv'
  BY <1>3 DEF entireSceneNeedsRepaint, OnlySynchronization
<1>4. CASE PaintNothing
  BY <1>4 DEF PaintNothing, Render, OnlySynchronization
<1>5. CASE Paint
  BY <1>5 DEF Paint, Render
<1>6. CASE clearEntireSceneDirty
  BY <1>6 DEF clearEntireSceneDirty, Render
<1>7. ASSUME NEW b \in BOOLEAN, Present(b) PROVE KeptInv'
  BY <1>7 DEF Present, Render, OnlySynchronization
<1> QED
  BY KeptSteps, <1>1, <1>2, <1>3, <1>4, <1>5, <1>6, <1>7

(* The render lock keeps the requests of synchronization: a scene marked   *)
(* for a full repaint stays marked until a paint of the entire scene.      *)
THEOREM FullRepaintNotLost ==
  ASSUME OnlySynchronization
  PROVE  Spec => []FullRepaintKept
<1>1. Init => KeptInv
  BY DEF Init, KeptInv, FullRepaintKept
<1>2. LockInv /\ KeptInv /\ [Next]_vars => KeptInv'
  BY KeptStep
<1>3. KeptInv => FullRepaintKept
  BY DEF KeptInv
<1> QED
  BY <1>1, <1>2, <1>3, LockAlways, PTL DEF Spec
=============================================================================
